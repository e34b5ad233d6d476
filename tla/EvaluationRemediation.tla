------------------------ MODULE EvaluationRemediation ------------------------
(***************************************************************************)
(* One remediation plan of packages/modules/evaluation                     *)
(* (evaluation-remediation.service.ts) under concurrent requests.  The     *)
(* checkpoints are one JSON column: updateCheckpoint reads the whole plan, *)
(* changes one entry and writes the column back, and these are two actions.*)
(***************************************************************************)
CONSTANTS
    Requests,       \* concurrent requests
    Refs,          \* ids a plan may name as triggers
    Anchors,       \* those that are findings or results of the subject
    Checkpoints,   \* indexes of the plan's checkpoints
    Progress,      \* checkpoint statuses a request may set
    Planned        \* the status checkpoints are created with

ASSUME AnchorsAssumption == Anchors \subseteq Refs

VARIABLES
    planStatus, triggerRefs, checkpoints, decidedByRef,  \* the plan row
    planPc, snapshot, index, value,  \* updateCheckpoint in progress, per request
    acked                        \* history: last progress acknowledged

planVars == <<planStatus, triggerRefs, checkpoints, decidedByRef>>
requestVars == <<planPc, snapshot, index, value>>
remediationVars == <<planVars, requestVars, acked>>

Decisions == {"COMPLETED", "CANCELLED"}
CheckpointStatuses == Progress \union {Planned}

\* Types, and: a plan is decided exactly when it records who decided.
PlanTypeOK ==
    /\ planStatus \in {"absent", "OPEN"} \union Decisions
    /\ triggerRefs \in SUBSET Refs
    /\ checkpoints \in [Checkpoints -> CheckpointStatuses]
    /\ decidedByRef \in SUBSET Requests
    /\ planStatus \in Decisions <=> decidedByRef # {}
    /\ planPc \in [Requests -> {"idle", "read"}]
    /\ snapshot \in [Requests -> [Checkpoints -> CheckpointStatuses]]
    /\ DOMAIN index = Requests
    /\ \A c \in Requests : planPc[c] = "read" => index[c] \in Checkpoints
    /\ value \in [Requests -> CheckpointStatuses]
    /\ acked \in [Checkpoints -> CheckpointStatuses]

AllPlanned == [i \in Checkpoints |-> Planned]

PlanInit ==
    /\ planStatus = "absent" /\ triggerRefs = {} /\ decidedByRef = {}
    /\ checkpoints = AllPlanned
    /\ planPc = [c \in Requests |-> "idle"]
    /\ snapshot = [c \in Requests |-> AllPlanned]
    /\ index = [c \in Requests |-> CHOOSE i \in Checkpoints : TRUE]
    /\ value = [c \in Requests |-> Planned]
    /\ acked = AllPlanned

\* Findings and results are not deleted while their subject exists, so the
\* lookups commute with every other request and the insert stands for them.
CreatePlan(refs) ==
    /\ planStatus = "absent"
    /\ refs # {} /\ refs \subseteq Anchors
    /\ planStatus' = "OPEN"
    /\ triggerRefs' = refs
    /\ UNCHANGED <<checkpoints, decidedByRef, requestVars, acked>>

\* One conditional update; a request that matches no row is told so.
DecidePlan(c, decision) ==
    /\ planStatus = "OPEN"
    /\ planStatus' = decision
    /\ decidedByRef' = {c}
    /\ UNCHANGED <<triggerRefs, checkpoints, requestVars, acked>>

\* The read refuses a plan that is not open.
ReadPlan(c, i, v) ==
    /\ planPc[c] = "idle" /\ planStatus = "OPEN"
    /\ snapshot' = [snapshot EXCEPT ![c] = checkpoints]
    /\ index' = [index EXCEPT ![c] = i]
    /\ value' = [value EXCEPT ![c] = v]
    /\ planPc' = [planPc EXCEPT ![c] = "read"]
    /\ UNCHANGED <<planVars, acked>>

\* Mutant: the write is not conditional.
WriteAnyPlan(c) ==
    /\ planPc[c] = "read"
    /\ checkpoints' = [snapshot[c] EXCEPT ![index[c]] = value[c]]
    /\ acked' = [acked EXCEPT ![index[c]] = value[c]]
    /\ planPc' = [planPc EXCEPT ![c] = "idle"]
    /\ UNCHANGED <<planStatus, triggerRefs, decidedByRef, snapshot, index, value>>

\* The write is conditional on the plan being open, not on the checkpoints
\* being those that were read.
WriteCheckpoint(c) ==
    /\ planPc[c] = "read"
    /\ IF planStatus = "OPEN"
       THEN /\ checkpoints' = [snapshot[c] EXCEPT ![index[c]] = value[c]]
            /\ acked' = [acked EXCEPT ![index[c]] = value[c]]
       ELSE UNCHANGED <<checkpoints, acked>>
    /\ planPc' = [planPc EXCEPT ![c] = "idle"]
    /\ UNCHANGED <<planStatus, triggerRefs, decidedByRef, snapshot, index, value>>

\* The request dies between its read and its write.
Abandon(c) ==
    /\ planPc[c] = "read"
    /\ planPc' = [planPc EXCEPT ![c] = "idle"]
    /\ UNCHANGED <<planVars, snapshot, index, value, acked>>

PlanNext ==
    \/ \E refs \in SUBSET Refs : CreatePlan(refs)
    \/ \E c \in Requests :
           \/ \E decision \in Decisions : DecidePlan(c, decision)
           \/ \E i \in Checkpoints, v \in Progress : ReadPlan(c, i, v)
           \/ WriteCheckpoint(c) \/ Abandon(c)

PlanSpec == PlanInit /\ [][PlanNext]_remediationVars

-----------------------------------------------------------------------------
(* Properties *)

\* A decision is recorded once, and freezes the plan's progress against the
\* updates that read the plan while it was open.
DecisionIsFinal ==
    [][(planStatus \in Decisions) => UNCHANGED planVars]_remediationVars

\* Progress a request was told is saved stays saved: the update of another
\* checkpoint does not revert it.
ProgressIsKept == checkpoints = acked
=============================================================================
