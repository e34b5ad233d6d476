---------------------------- MODULE ScheduledChecks ----------------------------
(***************************************************************************)
(* The check cycle as the handler of a schedule: the host declares a job   *)
(* whose handler is runChecks (url-check-probe.service.ts), and an         *)
(* execution of JobScheduler that handles is a cycle of UrlCheck.  Whether *)
(* cycles overlap, which UrlCheck leaves open, is then up to the guard.    *)
(***************************************************************************)
EXTENDS JobScheduler, UrlCheck

ASSUME CyclesAreExecutions == Cycles = Executions

composedVars == <<jobVars, checkVars>>

\* The insert of the run row and the reading of the targets that follows it.
StartCycle(e) ==
    /\ InsertRun(e)
    /\ RunChecks(e) \/ (~(target.exists /\ target.active) /\ UNCHANGED checkVars)

\* runChecks throws when its reading fails, and returns otherwise.
CycleStep(e) ==
    \/ CheckTarget(e) /\ UNCHANGED jobVars
    \/ /\ cyclePc[e] = "idle"
       /\ HandlerReturns(e) \/ HandlerThrows(e)
       /\ UNCHANGED checkVars

CrashWithCycles(p) ==
    /\ Crash(p)
    /\ cyclePc' = [c \in Cycles |-> IF owner[c] = p THEN "idle" ELSE cyclePc[c]]
    /\ seen' = [c \in Cycles |-> IF owner[c] = p THEN NewTarget ELSE seen[c]]
    /\ outcome' = [c \in Cycles |-> IF owner[c] = p THEN TRUE ELSE outcome[c]]
    /\ UNCHANGED <<target, incidents, editVars, worldVars, checkHistory>>

RunStep(e) ==
    \/ StartCycle(e) \/ CycleStep(e)
    \/ (RecordSkip(e) \/ InsertFails(e) \/ RecordSuccess(e) \/ RecordFailure(e))
           /\ UNCHANGED checkVars

Fire(p) ==
    \E k \in Keys, e \in Executions :
        (CronFires(p, k, e) \/ TriggerSchedule(p, k, e)) /\ UNCHANGED checkVars

Declaring(p) == \E k \in Keys : FindDeclared(p, k) \/ CreateDeclared(p, k)

HostStep(p) ==
    (Boot(p) \/ ReadSchedules(p) \/ Reconciling(p) \/ Declaring(p)) /\ UNCHANGED checkVars

ComposedInit == JobInit /\ CheckInit

ComposedNext ==
    \/ \E p \in Processes : HostStep(p) \/ Fire(p) \/ CrashWithCycles(p)
    \/ \E e \in Executions : RunStep(e)
    \/ (Editing \/ Delete \/ SiteChanges) /\ UNCHANGED jobVars

ComposedSpec == ComposedInit /\ [][ComposedNext]_composedVars

\* The process boots, declares, reconciles and fires its cron jobs again and
\* again; a probe, a statement and a handler end.
ComposedProgress ==
    /\ \A p \in Processes :
           /\ WF_composedVars((Boot(p) \/ Declaring(p)) /\ UNCHANGED checkVars)
           /\ WF_composedVars(ReadSchedules(p) /\ UNCHANGED checkVars)
           /\ WF_composedVars(Reconciling(p) /\ UNCHANGED checkVars)
           /\ SF_composedVars((\E k \in Keys, e \in Executions : CronFires(p, k, e))
                                  /\ UNCHANGED checkVars)
    /\ \A e \in Executions : WF_composedVars(RunStep(e))

FairComposedSpec == ComposedSpec /\ ComposedProgress

-----------------------------------------------------------------------------
(* Properties *)

\* While an alert is open the last event said so, as long as no process died
\* between a commit and its event: a flapping target is one alert.
AlertsAreAnnounced ==
    /\ crashes = 0 /\ target.alertOpen
    /\ \A c \in Cycles : cyclePc[c] # "opened"
    => lastEvent = "down"

\* Whatever a cycle was doing when its process died, and however requests and
\* cycles interleave, the target, its incidents and its announcements agree.
ChecksAreConsistent ==
    /\ JobsTypeOK /\ CheckTypeOK
    /\ AlertMatchesIncident /\ PausedAlertsAreClosed /\ AlertsAreAnnounced

\* Alerts open and close when the site fails and recovers, not before, and
\* sooner or later.
AlertsFollowTheSite == AlertsAreEarned /\ OutagesAreAlerted
=============================================================================
