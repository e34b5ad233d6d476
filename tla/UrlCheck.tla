------------------------------- MODULE UrlCheck -------------------------------
(***************************************************************************)
(* One target of packages/modules/url-check: check cycles that read it,    *)
(* probe it and advance its alert in a transaction                         *)
(* (url-check-probe.service.ts), and requests that edit or delete it       *)
(* (url-check.service.ts).                                                 *)
(***************************************************************************)
EXTENDS Naturals, FiniteSets

CONSTANTS
    Cycles,             \* check cycles in progress, slots used again
    Editors,            \* concurrent requests
    FailureThreshold, RecoveryThreshold,
    MaxAborts           \* bound: transactions that fail

ASSUME ThresholdAssumption ==
    /\ FailureThreshold \in Nat \ {0} /\ RecoveryThreshold \in Nat \ {0}
    /\ IsFiniteSet(Cycles) /\ MaxAborts \in Nat

VARIABLES
    (* committed rows *)
    target,         \* the target's columns
    incidents,      \* its incidents that have not recovered, a number
    (* each cycle and request *)
    cyclePc, seen, outcome,
    editPc, pausing, wasOpen,
    (* the world *)
    siteUp, aborts,
    (* history *)
    failing, recovering,    \* outcomes of one kind applied in a row
    lastEvent,              \* "down" or "recovered", the last one emitted
    crossed                 \* an alert was opened across a pause

checkVars == <<target, incidents, cyclePc, seen, outcome, editPc, pausing, wasOpen,
               siteUp, aborts, failing, recovering, lastEvent, crossed>>
worldVars == <<siteUp, aborts>>
cycleVars == <<cyclePc, seen, outcome>>
editVars == <<editPc, pausing, wasOpen>>
checkHistory == <<failing, recovering, lastEvent, crossed>>

\* The code tells counts apart up to the threshold only.
Counted(n, threshold) == IF n > threshold THEN threshold ELSE n

Targets == [exists : BOOLEAN, active : BOOLEAN, failures : 0 .. FailureThreshold,
            successes : 0 .. RecoveryThreshold, alertOpen : BOOLEAN]
NewTarget == [exists |-> TRUE, active |-> TRUE, failures |-> 0, successes |-> 0,
              alertOpen |-> FALSE]

\* Types, and: an alert that is open is short of its recovery.
CheckTypeOK ==
    /\ target \in Targets
    /\ target.alertOpen => target.successes < RecoveryThreshold
    /\ incidents \in 0 .. Cardinality(Cycles)
    /\ cyclePc \in [Cycles -> {"idle", "probe", "advance", "opened", "closed"}]
    /\ seen \in [Cycles -> Targets] /\ outcome \in [Cycles -> BOOLEAN]
    /\ editPc \in [Editors -> {"idle", "write"}]
    /\ pausing \in [Editors -> BOOLEAN] /\ wasOpen \in [Editors -> BOOLEAN]
    /\ siteUp \in BOOLEAN /\ aborts \in 0 .. MaxAborts
    /\ failing \in 0 .. FailureThreshold /\ recovering \in 0 .. RecoveryThreshold
    /\ lastEvent \in {"none", "down", "recovered"} /\ crossed \in BOOLEAN

CheckInit ==
    /\ target = NewTarget /\ incidents = 0
    /\ cyclePc = [c \in Cycles |-> "idle"]
    /\ seen = [c \in Cycles |-> NewTarget] /\ outcome = [c \in Cycles |-> TRUE]
    /\ editPc = [u \in Editors |-> "idle"]
    /\ pausing = [u \in Editors |-> FALSE] /\ wasOpen = [u \in Editors |-> FALSE]
    /\ siteUp = TRUE /\ aborts = 0
    /\ failing = 0 /\ recovering = 0 /\ lastEvent = "none" /\ crossed = FALSE

-----------------------------------------------------------------------------
\* The cycle is over and forgets what it read.
EndCycle(c) ==
    /\ cyclePc' = [cyclePc EXCEPT ![c] = "idle"]
    /\ seen' = [seen EXCEPT ![c] = NewTarget]
    /\ outcome' = [outcome EXCEPT ![c] = TRUE]

\* The targets that are active are read once, when the cycle starts.
RunChecks(c) ==
    /\ cyclePc[c] = "idle" /\ target.exists /\ target.active
    /\ seen' = [seen EXCEPT ![c] = target]
    /\ cyclePc' = [cyclePc EXCEPT ![c] = "probe"]
    /\ UNCHANGED <<target, incidents, outcome, editVars, worldVars, checkHistory>>

\* The probe, and the result row, whose loss is accepted.
Probe(c) ==
    /\ cyclePc[c] = "probe"
    /\ outcome' = [outcome EXCEPT ![c] = siteUp]
    /\ cyclePc' = [cyclePc EXCEPT ![c] = "advance"]
    /\ UNCHANGED <<target, incidents, seen, editVars, worldVars, checkHistory>>

Failures(c) ==
    IF outcome[c] THEN 0 ELSE Counted(seen[c].failures + 1, FailureThreshold)

Successes(c) ==
    IF outcome[c] /\ seen[c].alertOpen
    THEN Counted(seen[c].successes + 1, RecoveryThreshold) ELSE 0

\* Mutant: one failure too early.
OpensEarly(c) ==
    ~outcome[c] /\ Failures(c) + 1 >= FailureThreshold /\ ~seen[c].alertOpen

OpensAlert(c) == ~outcome[c] /\ Failures(c) >= FailureThreshold /\ ~seen[c].alertOpen

ClosesAlert(c) == outcome[c] /\ seen[c].alertOpen /\ Successes(c) >= RecoveryThreshold

\* incident.create, or the updateMany that closes whatever is open.
IncidentsAfter(c) ==
    IF OpensAlert(c) THEN incidents + 1 ELSE IF ClosesAlert(c) THEN 0 ELSE incidents

Announces(c) ==
    IF OpensAlert(c) THEN "opened" ELSE IF ClosesAlert(c) THEN "closed" ELSE "idle"

\* One transaction on the columns computed from what the cycle read; it fails
\* when the target is gone.
AdvanceState(c) ==
    /\ cyclePc[c] = "advance" /\ target.exists
    /\ target' = [target EXCEPT
                    !.failures = Failures(c),
                    !.successes = IF ClosesAlert(c) THEN 0 ELSE Successes(c),
                    !.alertOpen = OpensAlert(c) \/ (@ /\ ~ClosesAlert(c))]
    /\ incidents' = IncidentsAfter(c)
    /\ cyclePc' = [cyclePc EXCEPT ![c] = Announces(c)]
    /\ seen' = [seen EXCEPT ![c] = NewTarget] /\ outcome' = [outcome EXCEPT ![c] = TRUE]
    /\ failing' = IF outcome[c] THEN 0 ELSE Counted(failing + 1, FailureThreshold)
    /\ recovering' = IF outcome[c] THEN Counted(recovering + 1, RecoveryThreshold) ELSE 0
    /\ crossed' = (crossed \/ (OpensAlert(c) /\
                      (~target.active \/ \E u \in Editors : editPc[u] = "write")))
    /\ UNCHANGED <<editVars, worldVars, lastEvent>>

\* The transaction fails, or the target was deleted: logged, and the cycle goes on.
AdvanceFails(c) ==
    /\ cyclePc[c] = "advance"
    /\ IF target.exists THEN aborts < MaxAborts /\ aborts' = aborts + 1
       ELSE UNCHANGED aborts
    /\ EndCycle(c)
    /\ UNCHANGED <<target, incidents, editVars, siteUp, checkHistory>>

\* The event follows the commit; its listeners cannot fail the cycle.
Emit(c) ==
    /\ cyclePc[c] \in {"opened", "closed"}
    /\ lastEvent' = IF cyclePc[c] = "opened" THEN "down" ELSE "recovered"
    /\ EndCycle(c)
    /\ UNCHANGED <<target, incidents, editVars, worldVars, failing, recovering, crossed>>

-----------------------------------------------------------------------------
\* update() reads the target, pause or resume being asked for; delete() removes
\* it with its incidents.
ReadTarget(u, pause) ==
    /\ editPc[u] = "idle" /\ target.exists
    /\ editPc' = [editPc EXCEPT ![u] = "write"]
    /\ pausing' = [pausing EXCEPT ![u] = pause]
    /\ wasOpen' = [wasOpen EXCEPT ![u] = target.alertOpen]
    /\ UNCHANGED <<target, incidents, cycleVars, worldVars, checkHistory>>

\* Mutant: a pause leaves the alert alone.
PauseLeavesAlert(u) == FALSE

ClosesOnPause(u) == pausing[u] /\ wasOpen[u]

\* One transaction; it fails when the target is gone.
WriteTarget(u) ==
    /\ editPc[u] = "write"
    /\ editPc' = [editPc EXCEPT ![u] = "idle"]
    /\ pausing' = [pausing EXCEPT ![u] = FALSE]
    /\ wasOpen' = [wasOpen EXCEPT ![u] = FALSE]
    /\ IF target.exists
       THEN /\ target' = [target EXCEPT !.active = ~pausing[u],
                                        !.alertOpen = @ /\ ~ClosesOnPause(u)]
            /\ incidents' = IF ClosesOnPause(u) THEN 0 ELSE incidents
       ELSE UNCHANGED <<target, incidents>>
    /\ UNCHANGED <<cycleVars, worldVars, checkHistory>>

Delete ==
    /\ target.exists
    /\ target' = [NewTarget EXCEPT !.exists = FALSE] /\ incidents' = 0
    /\ UNCHANGED <<cycleVars, editVars, worldVars, checkHistory>>

SiteChanges ==
    /\ siteUp' = ~siteUp
    /\ UNCHANGED <<target, incidents, cycleVars, editVars, aborts, checkHistory>>

-----------------------------------------------------------------------------
\* What a cycle does once it has read the target.
CheckTarget(c) == Probe(c) \/ AdvanceState(c) \/ AdvanceFails(c) \/ Emit(c)

Editing == \E u \in Editors : WriteTarget(u) \/ \E pause \in BOOLEAN : ReadTarget(u, pause)

CheckNext ==
    \/ \E c \in Cycles : RunChecks(c) \/ CheckTarget(c)
    \/ Editing \/ Delete \/ SiteChanges

CheckSpec == CheckInit /\ [][CheckNext]_checkVars

-----------------------------------------------------------------------------
(* Properties; the cycles of one process do not overlap, those of replicas do *)

\* "an open alert always has a matching open incident, and a closed alert always
\* has a closed incident", with requests that pause on what they read earlier.
AlertMatchesIncident == incidents = IF target.alertOpen THEN 1 ELSE 0

\* An alert is opened by failures in a row and closed, unless by a pause, by
\* successes in a row, counted on what was applied and not on what was read.
AlertsAreEarned ==
    [][/\ ~target.alertOpen /\ target'.alertOpen => failing' = FailureThreshold
       /\ incidents > incidents' /\ target'.exists /\ editPc' = editPc =>
              recovering' = RecoveryThreshold]_checkVars

\* "an alert open at that moment would otherwise stay open forever": a paused
\* target has an open alert only when a cycle opened it across the pause.
PausedAlertsAreClosed == target.alertOpen /\ ~target.active => crossed

\* A lasting outage is alerted and a lasting recovery closes the alert.
OutagesAreAlerted ==
    /\ <>[](target.exists /\ target.active /\ ~siteUp) => <>[]target.alertOpen
    /\ <>[](target.exists /\ target.active /\ siteUp) => <>[]~target.alertOpen
=============================================================================
