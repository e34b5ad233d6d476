----------------------------- MODULE RunContract -----------------------------
(***************************************************************************)
(* What a consumer of the evaluation module may rely on about a run, with  *)
(* no runner, heartbeat, sweep or failure in sight: a run is admitted when *)
(* its subject and version have no active run, may archive one result, and *)
(* ends once, as a success only if its result is archived.  A run that     *)
(* failed may hold a result too (module README, "readers must tolerate").  *)
(***************************************************************************)
CONSTANTS Runs, Slots, NoSlot

VARIABLES outcome, slot, archived

contractVars == <<outcome, slot, archived>>

Outcomes == {"absent", "active", "succeeded", "failed"}

ContractTypeOK ==
    /\ outcome \in [Runs -> Outcomes]
    /\ slot \in [Runs -> Slots \union {NoSlot}]
    /\ archived \in SUBSET Runs

ContractInit ==
    /\ outcome = [r \in Runs |-> "absent"]
    /\ slot = [r \in Runs |-> NoSlot]
    /\ archived = {}

Admit(r, s) ==
    /\ outcome[r] = "absent"
    /\ \A q \in Runs : outcome[q] = "active" => slot[q] # s
    /\ outcome' = [outcome EXCEPT ![r] = "active"]
    /\ slot' = [slot EXCEPT ![r] = s]
    /\ UNCHANGED archived

Archive(r) ==
    /\ outcome[r] # "absent"
    /\ archived' = archived \union {r}
    /\ UNCHANGED <<outcome, slot>>

Succeed(r) ==
    /\ outcome[r] = "active" /\ r \in archived
    /\ outcome' = [outcome EXCEPT ![r] = "succeeded"]
    /\ UNCHANGED <<slot, archived>>

Fail(r) ==
    /\ outcome[r] = "active"
    /\ outcome' = [outcome EXCEPT ![r] = "failed"]
    /\ UNCHANGED <<slot, archived>>

ContractNext ==
    \E r \in Runs :
        (\E s \in Slots : Admit(r, s)) \/ Archive(r) \/ Succeed(r) \/ Fail(r)

ContractSpec == ContractInit /\ [][ContractNext]_contractVars
=============================================================================
