--------------------------- MODULE EvaluationRuns ---------------------------
(***************************************************************************)
(* The run lifecycle of packages/modules/evaluation: the EvaluationRun     *)
(* rows in the database, the runner that executes each row                 *)
(* (evaluation-runner.service.ts), and the stale-run sweepers of every     *)
(* server process (evaluation-run.service.ts).  One action is one database *)
(* statement, one port call or one timer callback: everything between two  *)
(* awaits is atomic in a Node process, everything across an await is not.  *)
(*                                                                         *)
(* A member of Runs is one admitted request: its row and the single        *)
(* execution that `run` (or `open` followed by `execute`) drives for it.   *)
(* A member of Slots is one (subject, published version) pair.             *)
(***************************************************************************)
EXTENDS Naturals, Sequences

CONSTANTS
    Runs,        \* ids of the run rows that are ever created
    Slots,       \* (subjectId, ruleSetVersionId) pairs
    Replicas,    \* server processes, each with its own sweeper interval
    NoSlot,      \* slotOf of a row that was never created
    NoHost,      \* host of a run whose admission answered no process
    StaleAfter,  \* staleRunTimeoutMs, counted in heartbeat intervals
    Timely,      \* TRUE: heartbeat timers of living processes fire on time
    MaxFaults,   \* bound: database statements that fail or lose their reply
    MaxCrashes   \* bound: process crashes

ASSUME NullAssumption == NoSlot \notin Slots /\ NoHost \notin Replicas
ASSUME StaleAfterAssumption == StaleAfter \in Nat \ {0}
ASSUME TimelyAssumption == Timely \in BOOLEAN /\ (Timely => StaleAfter > 2)
ASSUME BoundsAssumption == MaxFaults \in Nat /\ MaxCrashes \in Nat

VARIABLES
    (* columns of the EvaluationRun row *)
    status, slotOf, started, error,
    idle,        \* time since `updatedAt`, saturating at StaleAfter
    (* rows written on behalf of a run: its result, its findings, its closes *)
    written,
    late,        \* history: those written after the row was already terminal
    (* the execution of each run: local variables of open/execute *)
    pc, stage, host, held, cause,
    beat,        \* its heartbeat fired in this interval (kept if Timely)
    (* each process and its sweep *)
    up, listed, moved, reaped,
    (* terminal events published, in order *)
    events,
    (* environment budget *)
    faults, crashes

rowVars == <<status, slotOf, started, error, idle>>
writeVars == <<written, late>>
execVars == <<pc, stage, host, held, cause, beat>>
sweepVars == <<up, listed, moved, reaped>>
envVars == <<faults, crashes>>
vars == <<rowVars, writeVars, execVars, sweepVars, events, envVars>>

Active == {"QUEUED", "RUNNING"}
Terminal == {"SUCCEEDED", "FAILED"}
Statuses == {"absent"} \union Active \union Terminal

\* Failure texts: an error of the work itself, a fencing conflict, a database
\* error, and STALE_RUN_ERROR.
Causes == {"work", "conflict", "db"}
Errors == {"none", "stale"} \union Causes

\* What execute persists, in order; "identity" is the reading of subject and
\* version that precedes it.
Writes == {"result", "findings", "absent"}
Stages == {"identity"} \union Writes \union {"close"}

After == [result |-> "findings", findings |-> "absent", absent |-> "close"]

Executing == {"loading", "judging", "fence", "recheck", "act",
              "failing", "reread", "announceSucceeded", "announceFailed"}
Locations == {"idle", "opening", "opened", "done", "gone"} \union Executing

Event == [by : {"runner", "sweeper"}, status : Terminal, error : Errors]

TypeOK ==
    /\ status \in [Runs -> Statuses]
    /\ slotOf \in [Runs -> Slots \union {NoSlot}]
    /\ started \in [Runs -> BOOLEAN]
    /\ error \in [Runs -> Errors]
    /\ idle \in [Runs -> 0 .. StaleAfter]
    /\ written \in [Runs -> SUBSET Writes]
    /\ late \in [Runs -> SUBSET Writes]
    /\ pc \in [Runs -> Locations]
    /\ stage \in [Runs -> Stages]
    /\ host \in [Runs -> Replicas \union {NoHost}]
    /\ held \in [Runs -> BOOLEAN]
    /\ cause \in [Runs -> Errors]
    /\ beat \in [Runs -> BOOLEAN]
    /\ up \in [Replicas -> BOOLEAN]
    /\ listed \in [Replicas -> SUBSET Runs]
    /\ moved \in [Replicas -> SUBSET Runs]
    /\ reaped \in [Replicas -> SUBSET Runs]
    /\ events \in [Runs -> Seq(Event)]
    /\ faults \in 0 .. MaxFaults
    /\ crashes \in 0 .. MaxCrashes

Init ==
    /\ status = [r \in Runs |-> "absent"]
    /\ slotOf = [r \in Runs |-> NoSlot]
    /\ started = [r \in Runs |-> FALSE]
    /\ error = [r \in Runs |-> "none"]
    /\ idle = [r \in Runs |-> 0]
    /\ written = [r \in Runs |-> {}]
    /\ late = [r \in Runs |-> {}]
    /\ pc = [r \in Runs |-> "idle"]
    /\ stage = [r \in Runs |-> "identity"]
    /\ host = [r \in Runs |-> NoHost]
    /\ held = [r \in Runs |-> FALSE]
    /\ cause = [r \in Runs |-> "none"]
    /\ beat = [r \in Runs |-> FALSE]
    /\ up = [p \in Replicas |-> TRUE]
    /\ listed = [p \in Replicas |-> {}]
    /\ moved = [p \in Replicas |-> {}]
    /\ reaped = [p \in Replicas |-> {}]
    /\ events = [r \in Runs |-> << >>]
    /\ faults = 0
    /\ crashes = 0

-----------------------------------------------------------------------------
(* Helpers *)

IsActive(r) == status[r] \in Active
\* Mutants: the sweep forgets QUEUED rows; its cutoff is one interval.
IsStaleWhenRunning(r) == status[r] = "RUNNING" /\ idle[r] = StaleAfter
IsStaleTooSoon(r) == IsActive(r) /\ idle[r] > 0

IsStale(r) == IsActive(r) /\ idle[r] = StaleAfter
Fault == faults < MaxFaults /\ faults' = faults + 1

\* Every updateMany moves `updatedAt`, so the row no longer matches the value
\* a sweep still to update it has listed it with.
Touch(r) ==
    /\ idle' = [idle EXCEPT ![r] = 0]
    /\ moved' = [p \in Replicas |-> IF r \in listed'[p] THEN moved[p] \union {r}
                                                        ELSE moved[p] \ {r}]

At(r, l) == pc[r] = l
Goto(r, l) == pc' = [pc EXCEPT ![r] = l]
FailWith(r, c) == Goto(r, "failing") /\ cause' = [cause EXCEPT ![r] = c]
Publish(r, e) == events' = [events EXCEPT ![r] = Append(@, e)]

\* The partial unique index over (subjectId, ruleSetVersionId) of active rows.
IndexAdmits(s) == \A q \in Runs : ~(IsActive(q) /\ slotOf[q] = s)

-----------------------------------------------------------------------------
(* Admission: open() *)

CreateRow(r, s) ==
    /\ status' = [status EXCEPT ![r] = "QUEUED"]
    /\ slotOf' = [slotOf EXCEPT ![r] = s]
    /\ UNCHANGED <<started, error, idle>>

StartRun(r, p, s) ==
    /\ At(r, "idle") /\ up[p]
    /\ IndexAdmits(s)
    /\ CreateRow(r, s)
    /\ host' = [host EXCEPT ![r] = p]
    /\ Goto(r, "opening")
    /\ UNCHANGED <<writeVars, stage, held, cause, beat, sweepVars, events, envVars>>

\* The insert commits but the caller only sees an error: the row is orphaned.
StartReplyLost(r, s) ==
    /\ At(r, "idle")
    /\ IndexAdmits(s)
    /\ CreateRow(r, s)
    /\ Goto(r, "gone")
    /\ Fault
    /\ UNCHANGED <<writeVars, stage, host, held, cause, beat, sweepVars, events, crashes>>

\* A row that is no longer QUEUED is left alone, silently.
MarkRunning(r) ==
    /\ At(r, "opening")
    /\ UNCHANGED listed
    /\ IF status[r] = "QUEUED"
       THEN /\ status' = [status EXCEPT ![r] = "RUNNING"]
            /\ started' = [started EXCEPT ![r] = TRUE]
            /\ Touch(r)
       ELSE UNCHANGED <<status, started, idle, moved>>
    /\ Goto(r, "opened")
    /\ UNCHANGED <<slotOf, error, writeVars, stage, host, held, cause,
                   beat, up, reaped, events, envVars>>

\* findById at the end of open(), whatever state the row is in by now; execute
\* starts its heartbeat timer, whose first beat is due one interval later.
LoadRun(r) ==
    /\ At(r, "opened")
    /\ held' = [held EXCEPT ![r] = started[r]]
    /\ beat' = [beat EXCEPT ![r] = Timely]
    /\ Goto(r, "loading")
    /\ UNCHANGED <<rowVars, writeVars, stage, host, cause, sweepVars, events, envVars>>

\* A statement of open() fails: the request is answered with an error and the
\* row has no execution.
OpenFails(r) ==
    /\ pc[r] \in {"opening", "opened"}
    /\ Goto(r, "gone")
    /\ Fault
    /\ UNCHANGED <<rowVars, writeVars, stage, host, held, cause, beat, sweepVars,
                   events, crashes>>

-----------------------------------------------------------------------------
(* Execution: execute() *)

LoadIdentity(r) ==
    /\ At(r, "loading")
    /\ stage' = [stage EXCEPT ![r] = "result"]
    /\ Goto(r, "judging")
    /\ UNCHANGED <<rowVars, writeVars, host, held, cause, beat, sweepVars, events, envVars>>

\* Evidence, criteria, judgment and coverage composition.
Judge(r) ==
    /\ At(r, "judging")
    /\ Goto(r, "fence")
    /\ UNCHANGED <<rowVars, writeVars, stage, host, held, cause, beat, sweepVars,
                   events, envVars>>

JudgeFails(r) ==
    /\ At(r, "judging")
    /\ FailWith(r, "work")
    /\ UNCHANGED <<rowVars, writeVars, stage, host, held, beat, sweepVars, events, envVars>>

\* Mutant: no fence before a write.
FenceMissing(r) ==
    /\ At(r, "fence")
    /\ Goto(r, IF stage[r] = "result" THEN "recheck" ELSE "act")
    /\ UNCHANGED <<rowVars, writeVars, stage, host, held, cause, beat, sweepVars,
                   events, envVars>>

\* assertActive: the row is still active and still the same execution.
Fence(r) ==
    /\ At(r, "fence")
    /\ IF IsActive(r) /\ started[r] = held[r]
       THEN /\ Goto(r, IF stage[r] = "result" THEN "recheck" ELSE "act")
            /\ UNCHANGED cause
       ELSE FailWith(r, "conflict")
    /\ UNCHANGED <<rowVars, writeVars, stage, host, held, beat, sweepVars, events, envVars>>

\* createResult reads the row once more before it validates and inserts.
RecheckResult(r) ==
    /\ At(r, "recheck")
    /\ IF IsActive(r) THEN Goto(r, "act") /\ UNCHANGED cause
                      ELSE FailWith(r, "conflict")
    /\ UNCHANGED <<rowVars, writeVars, stage, host, held, beat, sweepVars, events, envVars>>

\* validateCoverageStats or validateJudgment rejects the judgment.
Rejected(r) ==
    /\ \/ At(r, "recheck")
       \/ At(r, "act") /\ stage[r] = "findings"
    /\ FailWith(r, "work")
    /\ UNCHANGED <<rowVars, writeVars, stage, host, held, beat, sweepVars, events, envVars>>

\* createResult's insert, recordFindings or resolveAbsentFindings: none of
\* these statements is conditional on the run row.
Perform(r) ==
    /\ written' = [written EXCEPT ![r] = @ \union {stage[r]}]
    /\ late' = [late EXCEPT ![r] = IF IsActive(r) THEN @ ELSE @ \union {stage[r]}]

\* Mutant: the close is taken for one more write.
WriteOnceMore(r) ==
    /\ At(r, "act")
    /\ Perform(r)
    /\ stage' = [stage EXCEPT ![r] = IF @ = "close" THEN @ ELSE After[@]]
    /\ Goto(r, "fence")
    /\ UNCHANGED <<rowVars, host, held, cause, beat, sweepVars, events, envVars>>

Write(r) ==
    /\ At(r, "act") /\ stage[r] \in Writes
    /\ Perform(r)
    /\ stage' = [stage EXCEPT ![r] = After[@]]
    /\ Goto(r, "fence")
    /\ UNCHANGED <<rowVars, host, held, cause, beat, sweepVars, events, envVars>>

\* A conditional update on the active statuses; `e` is the error column.
CloseRow(r, s, e) ==
    /\ UNCHANGED listed
    /\ status' = [status EXCEPT ![r] = s]
    /\ error' = [error EXCEPT ![r] = e]
    /\ Touch(r)
    /\ UNCHANGED <<slotOf, started>>

\* Mutant: the success overwrites whatever status the row has.
MarkSucceededAlways(r) ==
    /\ At(r, "act") /\ stage[r] = "close"
    /\ CloseRow(r, "SUCCEEDED", "none")
    /\ Goto(r, "announceSucceeded")
    /\ UNCHANGED <<writeVars, stage, host, held, cause, beat, up, reaped, events, envVars>>

MarkSucceeded(r) ==
    /\ At(r, "act") /\ stage[r] = "close"
    /\ IF IsActive(r)
       THEN /\ CloseRow(r, "SUCCEEDED", "none")
            /\ Goto(r, "announceSucceeded")
            /\ UNCHANGED cause
       ELSE /\ FailWith(r, "conflict")
            /\ UNCHANGED <<rowVars, moved, listed>>
    /\ UNCHANGED <<writeVars, stage, host, held, beat, up, reaped, events, envVars>>

\* Mutant: the failure overwrites whatever status the row has.
MarkFailedAlways(r) ==
    /\ At(r, "failing")
    /\ CloseRow(r, "FAILED", cause[r])
    /\ Goto(r, "announceFailed")
    /\ UNCHANGED <<writeVars, stage, host, held, cause, beat, up, reaped, events, envVars>>

\* persistFailure: markFailed, and on any error the text the row persists.
MarkFailed(r) ==
    /\ At(r, "failing")
    /\ IF IsActive(r)
       THEN CloseRow(r, "FAILED", cause[r]) /\ Goto(r, "announceFailed")
       ELSE Goto(r, "reread") /\ UNCHANGED <<rowVars, moved, listed>>
    /\ UNCHANGED <<writeVars, stage, host, held, cause, beat, up, reaped, events, envVars>>

RereadError(r) ==
    /\ At(r, "reread")
    /\ cause' = [cause EXCEPT ![r] = IF error[r] = "none" THEN @ ELSE error[r]]
    /\ Goto(r, "announceFailed")
    /\ UNCHANGED <<rowVars, writeVars, stage, host, held, beat, sweepVars, events, envVars>>

AnnounceSucceeded(r) ==
    /\ At(r, "announceSucceeded")
    /\ Publish(r, [by |-> "runner", status |-> "SUCCEEDED", error |-> "none"])
    /\ Goto(r, "done")
    /\ UNCHANGED <<rowVars, writeVars, stage, host, held, cause, beat, sweepVars, envVars>>

AnnounceFailed(r) ==
    /\ At(r, "announceFailed")
    /\ Publish(r, [by |-> "runner", status |-> "FAILED", error |-> cause[r]])
    /\ Goto(r, "done")
    /\ UNCHANGED <<rowVars, writeVars, stage, host, held, cause, beat, sweepVars, envVars>>

-----------------------------------------------------------------------------
(* Database failures inside execute() *)

\* The statement did nothing and threw.
StatementFails(r) ==
    /\ \/ /\ pc[r] \in {"loading", "judging", "fence", "recheck", "act"}
          /\ FailWith(r, "db")
       \/ At(r, "failing") /\ Goto(r, "reread") /\ UNCHANGED cause
       \/ At(r, "reread") /\ Goto(r, "announceFailed") /\ UNCHANGED cause
    /\ Fault
    /\ UNCHANGED <<rowVars, writeVars, stage, host, held, beat, sweepVars, events, crashes>>

\* The statement committed, yet the runner sees an error.
WriteReplyLost(r) ==
    /\ At(r, "act") /\ stage[r] \in Writes
    /\ Perform(r)
    /\ FailWith(r, "db")
    /\ Fault
    /\ UNCHANGED <<rowVars, stage, host, held, beat, sweepVars, events, crashes>>

CloseReplyLost(r) ==
    /\ IsActive(r)
    /\ \/ /\ At(r, "act") /\ stage[r] = "close"
          /\ CloseRow(r, "SUCCEEDED", "none")
          /\ FailWith(r, "db")
       \/ /\ At(r, "failing")
          /\ CloseRow(r, "FAILED", cause[r])
          /\ Goto(r, "reread") /\ UNCHANGED cause
    /\ Fault
    /\ UNCHANGED <<writeVars, stage, host, held, beat, up, reaped, events, crashes>>

\* resolveRunIdentity fails, for a run that failed before its identity was
\* read: the event is skipped, never emitted with blanks.
AnnouncementSkipped(r) ==
    /\ At(r, "announceFailed") /\ stage[r] = "identity"
    /\ Goto(r, "done")
    /\ Fault
    /\ UNCHANGED <<rowVars, writeVars, stage, host, held, cause, beat, sweepVars,
                   events, crashes>>

-----------------------------------------------------------------------------
(* Timers *)

Living(r) == pc[r] \in Executing \union {"opening", "opened"}

\* touch(): conditional on the active statuses, so a heartbeat outliving its
\* row matches nothing.
Heartbeat(r) ==
    /\ pc[r] \in Executing /\ ~beat[r]
    /\ Timely \/ (IsActive(r) /\ idle[r] > 0)
    /\ beat' = [beat EXCEPT ![r] = Timely]
    /\ UNCHANGED listed
    /\ IF IsActive(r) THEN Touch(r) ELSE UNCHANGED <<idle, moved>>
    /\ UNCHANGED <<status, slotOf, started, error, writeVars, pc, stage, host,
                   held, cause, up, reaped, events, envVars>>

\* One heartbeat interval passes.  When timers are timely, every execution has
\* had its beat and no admission spans two intervals.
Tick ==
    /\ \E r \in Runs : IsActive(r) /\ idle[r] < StaleAfter
    /\ Timely => \A r \in Runs :
           /\ pc[r] \in Executing => beat[r]
           /\ pc[r] \in {"opening", "opened"} => idle[r] = 0
    /\ idle' = [r \in Runs |-> IF IsActive(r) /\ idle[r] < StaleAfter
                               THEN idle[r] + 1 ELSE idle[r]]
    /\ beat' = [r \in Runs |-> FALSE]
    /\ UNCHANGED <<status, slotOf, started, error, writeVars, pc, stage, host,
                   held, cause, sweepVars, events, envVars>>

-----------------------------------------------------------------------------
(* The sweep of each process: reapStaleRuns() *)

ReapInFlight(p) == listed[p] # {} \/ reaped[p] # {}

\* A sweep that lists nothing changes nothing and is left out.
SweepList(p) ==
    /\ up[p] /\ ~ReapInFlight(p)
    /\ \E r \in Runs : IsStale(r)
    /\ listed' = [listed EXCEPT ![p] = {r \in Runs : IsStale(r)}]
    /\ moved' = [moved EXCEPT ![p] = {}]
    /\ UNCHANGED <<rowVars, writeVars, execVars, up, reaped, events, envVars>>

\* The conditional update matches id, active statuses and the listed updatedAt.
SweepMatches(p, r) == IsActive(r) /\ r \notin moved[p]

SweepUpdate(p, r) ==
    /\ IF SweepMatches(p, r)
       THEN /\ status' = [status EXCEPT ![r] = "FAILED"]
            /\ error' = [error EXCEPT ![r] = "stale"]
            /\ Touch(r)
       ELSE /\ moved' = [moved EXCEPT ![p] = @ \ {r}]
            /\ UNCHANGED <<status, error, idle>>
    /\ UNCHANGED <<slotOf, started>>

\* Mutants: every listed row is reported, whether or not its update matched;
\* only rows that were running are.
SweepReportsListed(p, r) ==
    /\ up[p] /\ r \in listed[p]
    /\ listed' = [listed EXCEPT ![p] = @ \ {r}]
    /\ SweepUpdate(p, r)
    /\ reaped' = [reaped EXCEPT ![p] = @ \union {r}]
    /\ UNCHANGED <<writeVars, execVars, up, events, envVars>>

SweepReportsRunning(p, r) ==
    /\ up[p] /\ r \in listed[p]
    /\ listed' = [listed EXCEPT ![p] = @ \ {r}]
    /\ SweepUpdate(p, r)
    /\ reaped' = [reaped EXCEPT ![p] = IF SweepMatches(p, r) /\ status[r] = "RUNNING"
                                       THEN @ \union {r} ELSE @]
    /\ UNCHANGED <<writeVars, execVars, up, events, envVars>>

SweepClose(p, r) ==
    /\ up[p] /\ r \in listed[p]
    /\ listed' = [listed EXCEPT ![p] = @ \ {r}]
    /\ SweepUpdate(p, r)
    /\ reaped' = [reaped EXCEPT ![p] = IF SweepMatches(p, r) THEN @ \union {r} ELSE @]
    /\ UNCHANGED <<writeVars, execVars, up, events, envVars>>

SweepPublish(p, r) ==
    /\ up[p] /\ listed[p] = {} /\ r \in reaped[p]
    /\ Publish(r, [by |-> "sweeper", status |-> "FAILED", error |-> "stale"])
    /\ reaped' = [reaped EXCEPT ![p] = @ \ {r}]
    /\ UNCHANGED <<rowVars, writeVars, execVars, up, listed, moved, envVars>>

\* resolveRunIdentity fails for one reaped row.
SweepPublishSkipped(p, r) ==
    /\ up[p] /\ listed[p] = {} /\ r \in reaped[p]
    /\ reaped' = [reaped EXCEPT ![p] = @ \ {r}]
    /\ Fault
    /\ UNCHANGED <<rowVars, writeVars, execVars, up, listed, moved, events, crashes>>

\* A statement of the sweep throws (with or without its effect): the loop is
\* left and its local list of reaped rows is lost with it.
SweepAborts(p, r) ==
    /\ up[p] /\ r \in listed[p]
    /\ listed' = [listed EXCEPT ![p] = {}]
    /\ \/ SweepUpdate(p, r)
       \/ UNCHANGED <<rowVars, moved>>
    /\ reaped' = [reaped EXCEPT ![p] = {}]
    /\ Fault
    /\ UNCHANGED <<writeVars, execVars, up, events, crashes>>

-----------------------------------------------------------------------------
(* Processes *)

Crash(p) ==
    /\ up[p] /\ crashes < MaxCrashes
    /\ up' = [up EXCEPT ![p] = FALSE]
    /\ listed' = [listed EXCEPT ![p] = {}]
    /\ reaped' = [reaped EXCEPT ![p] = {}]
    /\ pc' = [r \in Runs |-> IF host[r] = p /\ Living(r) THEN "gone" ELSE pc[r]]
    /\ crashes' = crashes + 1
    /\ UNCHANGED <<rowVars, writeVars, stage, host, held, cause, beat, moved, events, faults>>

Restart(p) ==
    /\ ~up[p]
    /\ up' = [up EXCEPT ![p] = TRUE]
    /\ UNCHANGED <<rowVars, writeVars, execVars, listed, moved, reaped, events, envVars>>

-----------------------------------------------------------------------------
Opening(r) ==
    \/ \E s \in Slots : (\E p \in Replicas : StartRun(r, p, s)) \/ StartReplyLost(r, s)
    \/ MarkRunning(r) \/ LoadRun(r) \/ OpenFails(r)

\* The steps a living runner takes on its own, without a database failure.
Running(r) ==
    \/ LoadIdentity(r) \/ Judge(r) \/ JudgeFails(r) \/ Fence(r)
    \/ RecheckResult(r) \/ Rejected(r) \/ Write(r) \/ MarkSucceeded(r)
    \/ MarkFailed(r) \/ RereadError(r) \/ AnnounceSucceeded(r) \/ AnnounceFailed(r)

Faulting(r) ==
    \/ StatementFails(r) \/ WriteReplyLost(r) \/ CloseReplyLost(r)
    \/ AnnouncementSkipped(r)

Sweeping(p) == SweepList(p) \/ \E r \in Runs : SweepClose(p, r) \/ SweepPublish(p, r)

SweepFaulting(p) == \E r \in Runs : SweepPublishSkipped(p, r) \/ SweepAborts(p, r)

Next ==
    \/ \E r \in Runs : Opening(r) \/ Running(r) \/ Faulting(r) \/ Heartbeat(r)
    \/ \E p \in Replicas : Sweeping(p) \/ SweepFaulting(p) \/ Crash(p) \/ Restart(p)
    \/ Tick

Spec == Init /\ [][Next]_vars

\* Time passes, the sweep interval of a running process keeps firing and a
\* crashed process is restarted by its supervisor.  Nothing is assumed of the
\* executions themselves.
FairSpec ==
    /\ Spec
    /\ WF_vars(Tick)
    /\ \A p \in Replicas : WF_vars(Sweeping(p)) /\ WF_vars(Restart(p))

-----------------------------------------------------------------------------
(* Properties *)

\* The partial unique index keeps at most one active run per subject and
\* version, through reaping, late completion and orphaned rows.
OneActivePerSlot ==
    \A q, r \in Runs : IsActive(q) /\ IsActive(r) /\ slotOf[q] = slotOf[r] => q = r

\* A SUCCEEDED run has archived its result, recorded its findings and closed
\* the absent ones, all of it while its row was still active.
SucceededIsComplete ==
    \A r \in Runs : status[r] = "SUCCEEDED" => written[r] = Writes /\ late[r] = {}

\* A row that reached a terminal status never changes status or reason again:
\* a slow runner and several sweepers cannot overwrite one another's verdict.
TerminalIsFinal ==
    [][\A r \in Runs : status[r] \in Terminal =>
           status'[r] = status[r] /\ error'[r] = error[r]]_vars

\* The fences bound what an execution writes on behalf of a row closed
\* underneath it: at most the one write whose fence had already passed.
AtMostOneLateWrite ==
    \A r \in Runs : \A v, w \in late[r] : v = w

SweeperEvents(r) == {i \in DOMAIN events[r] : events[r][i].by = "sweeper"}

\* However many processes sweep, crash or abort, one row is reported reaped by
\* at most one of them, at most once.
SweepersReportOnce ==
    \A r \in Runs :
        /\ \A i, j \in SweeperEvents(r) : i = j
        /\ \A p, q \in Replicas : r \in reaped[p] /\ r \in reaped[q] => p = q
        /\ SweeperEvents(r) # {} => \A p \in Replicas : r \notin reaped[p]

\* A sweep fails only rows that were untouched for the whole timeout at the
\* moment of its write: a heartbeat landing after the listing saves the row.
OnlyStaleRowsReaped ==
    [][\A r \in Runs : error[r] # "stale" /\ error'[r] = "stale" => IsStale(r)]_vars

\* Every published event tells what the row says, text included.
EventsMatchRow ==
    \A r \in Runs : \A i \in DOMAIN events[r] :
        /\ events[r][i].status = status[r]
        /\ events[r][i].error = error[r]

\* A row closed by a sweep is announced by the sweep, or is about to be.
ReapedRowsAnnounced ==
    \A r \in Runs : error[r] = "stale" =>
        SweeperEvents(r) # {} \/ \E p \in Replicas : r \in reaped[p]

\* As long as no statement fails, whoever closes a run and in whatever order,
\* every event tells what the row says and every reaped row is announced.
SettledOnceFaultless ==
    faults = 0 /\ crashes = 0 => EventsMatchRow /\ ReapedRowsAnnounced

\* One terminal event per run.
TerminalEventOnce == \A r \in Runs : Len(events[r]) <= 1

\* A heartbeat keeps the row of a living execution out of the sweepers' reach.
LivingRunNeverReaped ==
    [][\A r \in Runs : Living(r) => ~(error[r] # "stale" /\ error'[r] = "stale")]_vars

\* No result, finding or close is written for a row that is already terminal.
NoLateWrite == \A r \in Runs : late[r] = {}

OutcomeOf == [absent |-> "absent", QUEUED |-> "active", RUNNING |-> "active",
              SUCCEEDED |-> "succeeded", FAILED |-> "failed"]

Contract == INSTANCE RunContract WITH
    outcome <- [r \in Runs |-> OutcomeOf[status[r]]],
    slot <- slotOf,
    archived <- {r \in Runs : "result" \in written[r]}

\* The runner, the sweepers and their failures implement the contract that
\* consumers of a run rely on.
ImplementsContract == Contract!ContractSpec

\* A run that nobody executes any more (its process crashed, its admission lost
\* its reply, its own close failed) is eventually closed by some sweep: it
\* cannot sit active, blocking its slot, forever.
AbandonedRunIsClosed ==
    \A r \in Runs : (IsActive(r) /\ ~Living(r)) ~> ~IsActive(r)

\* A row is closed for a reason that holds when it is written, and stays as it
\* was closed, whoever else still holds it.
RowsAreSound == TerminalIsFinal /\ OnlyStaleRowsReaped

\* A run that succeeded wrote everything while its row was active, and one that
\* was closed underneath its runner wrote at most what its fence had let pass.
WritesAreFenced == SucceededIsComplete /\ AtMostOneLateWrite

\* When the timers fire in time the sweeps touch no living run: each run is
\* announced once and writes nothing to a closed row.
TimelyRunsAreUndisturbed == TerminalEventOnce /\ NoLateWrite
=============================================================================
