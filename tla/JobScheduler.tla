----------------------------- MODULE JobScheduler -----------------------------
(***************************************************************************)
(* packages/modules/job-scheduler (scheduler/job-scheduler.service.ts):    *)
(* the schedule rows, the cron jobs every process derives from them, and   *)
(* the runs with their in-process reentry guard and their history rows.    *)
(* The event loop of a process makes what lies between two awaits atomic.  *)
(***************************************************************************)
EXTENDS Naturals, FiniteSets, Functions

CONSTANTS
    Processes,
    Keys,           \* schedule keys; numbers, for the order of the reading
    Crons,          \* settings of cronExpr and timezone together
    InvalidCrons,   \* those no CronJob can be made of
    Declared,       \* what business code declares for each key
    DatabaseEdits,  \* what an operator may write to a row past the service
    NoRow, NoCron,
    Executions,     \* calls of executeSchedule in progress, slots used again
    MaxEdits, MaxReadings, MaxFaults, MaxCrashes    \* bounds

Settings == [cron : Crons, enabled : BOOLEAN]

ASSUME SchedulerAssumption ==
    /\ Processes # {} /\ Keys # {} /\ Keys \subseteq Nat
    /\ InvalidCrons \subseteq Crons /\ NoCron \notin Crons
    /\ Declared \in [Keys -> Settings] /\ DatabaseEdits \subseteq Settings
    /\ NoRow \notin Settings
    /\ {MaxEdits, MaxReadings, MaxFaults, MaxCrashes} \subseteq Nat

VARIABLES
    setting,        \* the row of each key
    (* memory of each process *)
    up, registered, cronJob, readings, declaring, guard,
    leaked,         \* guards whose run row was not inserted (history)
    (* each execution *)
    runPc, owner, runKey, runRow,
    alarms,         \* job-run-failed events of the slot's run (history)
    edits, faults, crashes

settingVars == <<setting, edits>>
cronVars == <<up, registered, cronJob, readings, declaring>>
runVars == <<runPc, owner, runKey, runRow, alarms>>
jobVars == <<settingVars, cronVars, guard, leaked, runVars, faults, crashes>>

Rows == Settings \union {NoRow}
RunPcs == {"idle", "skip", "insert", "handle", "success", "failure"}
RowStatuses == {"none", "running", "success", "failed", "skipped"}
Guarded == {"insert", "handle", "failure"}

\* Executions that hold the guard of a key in a process.
Holders(p, k) ==
    {e \in Executions : owner[e] = p /\ runKey[e] = k /\ runPc[e] \in Guarded}

\* Types, and: a guard is held by one execution, or was leaked.
JobsTypeOK ==
    /\ setting \in [Keys -> Rows]
    /\ up \in [Processes -> {"down", "booting", "up"}]
    /\ registered \in [Processes -> [Keys -> Crons \union {NoCron}]]
    /\ cronJob \in [Processes -> [Keys -> Crons \union {NoCron}]]
    /\ readings \in [Processes -> SUBSET [Keys -> Rows]]
    /\ declaring \in [Processes -> SUBSET Keys]
    /\ guard \in [Processes -> SUBSET Keys] /\ leaked \in [Processes -> SUBSET Keys]
    /\ runPc \in [Executions -> RunPcs] /\ owner \in [Executions -> Processes]
    /\ runKey \in [Executions -> Keys] /\ runRow \in [Executions -> RowStatuses]
    /\ alarms \in [Executions -> 0 .. 1]
    /\ edits \in 0 .. MaxEdits /\ faults \in 0 .. MaxFaults /\ crashes \in 0 .. MaxCrashes
    /\ \A p \in Processes, k \in Keys :
           k \in guard[p] <=> Holders(p, k) # {} \/ k \in leaked[p]

Nothing == [k \in Keys |-> NoCron]

JobInit ==
    /\ setting = [k \in Keys |-> NoRow]
    /\ up = [p \in Processes |-> "down"]
    /\ registered = [p \in Processes |-> Nothing]
    /\ cronJob = [p \in Processes |-> Nothing]
    /\ readings = [p \in Processes |-> {}]
    /\ declaring = [p \in Processes |-> {}]
    /\ guard = [p \in Processes |-> {}] /\ leaked = [p \in Processes |-> {}]
    /\ runPc = [e \in Executions |-> "idle"]
    /\ owner = [e \in Executions |-> CHOOSE p \in Processes : TRUE]
    /\ runKey = [e \in Executions |-> CHOOSE k \in Keys : TRUE]
    /\ runRow = [e \in Executions |-> "none"]
    /\ alarms = [e \in Executions |-> 0]
    /\ edits = 0 /\ faults = 0 /\ crashes = 0

-----------------------------------------------------------------------------
(* Schedules and cron jobs *)

\* onModuleInit awaits a first reconciliation.
Boot(p) ==
    /\ up[p] = "down"
    /\ up' = [up EXCEPT ![p] = "booting"]
    /\ readings' = [readings EXCEPT ![p] = {setting}]
    /\ UNCHANGED <<settingVars, registered, cronJob, declaring, guard, leaked,
                   runVars, faults, crashes>>

\* The reading of a reconciliation: the interval's, or an edit's.
ReadSchedules(p) ==
    /\ up[p] = "up"
    /\ Cardinality(readings[p] \union {setting}) <= MaxReadings
    /\ readings' = [readings EXCEPT ![p] = @ \union {setting}]
    /\ UNCHANGED <<settingVars, up, registered, cronJob, declaring, guard, leaked,
                   runVars, faults, crashes>>

\* The cron a reading asks for.
Wanted(t, k) == IF t[k] # NoRow /\ t[k].enabled THEN t[k].cron ELSE NoCron

\* Schedules whose cron job is missing or was built from other settings.
Drifted(p, t) ==
    {k \in Keys : Wanted(t, k) # NoCron /\ registered[p][k] # Wanted(t, k)}

\* The first drifted schedule of which no CronJob can be made ends the pass.
Broken(p, t) ==
    {k \in Drifted(p, t) :
        /\ t[k].cron \in InvalidCrons
        /\ \A j \in Drifted(p, t) : t[j].cron \in InvalidCrons => k <= j}

Reached(p, t, k) == \A b \in Broken(p, t) : k < b

\* One synchronous pass over a reading, which may be older than one applied
\* before.  A pass that throws loses the cron job it was to replace, keeps the
\* entry it was registered by, and removes nothing; during the boot it ends
\* the process.
ApplyReading(p, t) ==
    /\ t \in readings[p]
    /\ LET throws == Broken(p, t) # {}
           pass(before, onBreak) ==
               [k \in Keys |->
                   IF k \in Broken(p, t) THEN onBreak[k]
                   ELSE IF k \in Drifted(p, t) /\ Reached(p, t, k) THEN Wanted(t, k)
                   ELSE IF Wanted(t, k) = NoCron /\ ~throws THEN NoCron
                   ELSE before[k]]
           exits == up[p] = "booting" /\ throws
       IN  /\ registered' = [registered EXCEPT ![p] =
                                 IF exits THEN Nothing ELSE pass(@, @)]
           /\ cronJob' = [cronJob EXCEPT ![p] =
                              IF exits THEN Nothing ELSE pass(@, Nothing)]
           /\ up' = [up EXCEPT ![p] = IF exits THEN "down" ELSE "up"]
    /\ readings' = [readings EXCEPT ![p] = @ \ {t}]
    /\ UNCHANGED <<settingVars, declaring, guard, leaked, runVars, faults, crashes>>

\* upsertScheduleDeclaration: find, then create when there was no row.
FindDeclared(p, k) ==
    /\ up[p] = "up" /\ setting[k] = NoRow
    /\ declaring' = [declaring EXCEPT ![p] = @ \union {k}]
    /\ UNCHANGED <<settingVars, up, registered, cronJob, readings, guard, leaked,
                   runVars, faults, crashes>>

\* Mutant: an upsert, which replaces the row of the process that won.
UpsertDeclared(p, k) ==
    /\ k \in declaring[p]
    /\ setting' = [setting EXCEPT ![k] = Declared[k]]
    /\ declaring' = [declaring EXCEPT ![p] = @ \ {k}]
    /\ UNCHANGED <<edits, up, registered, cronJob, readings, guard, leaked, runVars,
                   faults, crashes>>

\* A unique violation means that another process won.
CreateDeclared(p, k) ==
    /\ k \in declaring[p]
    /\ setting' = [setting EXCEPT ![k] = IF @ = NoRow THEN Declared[k] ELSE @]
    /\ declaring' = [declaring EXCEPT ![p] = @ \ {k}]
    /\ UNCHANGED <<edits, up, registered, cronJob, readings, guard, leaked, runVars,
                   faults, crashes>>

Edit(k, s) ==
    /\ setting[k] # NoRow /\ s # setting[k]
    /\ edits < MaxEdits
    /\ edits' = edits + 1
    /\ setting' = [setting EXCEPT ![k] = s]
    /\ UNCHANGED <<cronVars, guard, leaked, runVars, faults, crashes>>

\* The update of the fields given; the reconciliation it then awaits is a
\* ReadSchedules and an ApplyReading.
UpdateSchedule(k, s) ==
    /\ setting[k] # NoRow
    /\ s.cron # setting[k].cron => s.cron \notin InvalidCrons
    /\ Edit(k, s)

-----------------------------------------------------------------------------
(* Runs *)

Goto(e, l) == runPc' = [runPc EXCEPT ![e] = l]

\* Mutant: the guard is tested but never taken.
GuardForgotten(p, k) == guard

TakeGuard(p, k) == [guard EXCEPT ![p] = @ \union {k}]

\* executeSchedule up to its first await.
ExecuteSchedule(p, k, e) ==
    /\ runPc[e] = "idle"
    /\ owner' = [owner EXCEPT ![e] = p] /\ runKey' = [runKey EXCEPT ![e] = k]
    /\ runRow' = [runRow EXCEPT ![e] = "none"] /\ alarms' = [alarms EXCEPT ![e] = 0]
    /\ IF k \in guard[p] THEN Goto(e, "skip") /\ UNCHANGED guard
       ELSE Goto(e, "insert") /\ guard' = TakeGuard(p, k)
    /\ UNCHANGED <<settingVars, cronVars, leaked, faults, crashes>>

CronFires(p, k, e) == up[p] = "up" /\ cronJob[p][k] # NoCron /\ ExecuteSchedule(p, k, e)

TriggerSchedule(p, k, e) == up[p] = "up" /\ setting[k] # NoRow /\ ExecuteSchedule(p, k, e)

\* What a statement of an execution does to its row; a failing one may have
\* lost its reply.
Statement(e, status) == runRow' = [runRow EXCEPT ![e] = status]

StatementFails(e, status) ==
    /\ faults < MaxFaults /\ faults' = faults + 1
    /\ runRow' \in {runRow, [runRow EXCEPT ![e] = status]}

Recorded(e, status) ==
    \/ Statement(e, status) /\ UNCHANGED faults
    \/ StatementFails(e, status)

\* Mutant: only a handler that returns releases it.
ReleaseOnReturn(e) ==
    IF runPc[e] = "failure" THEN guard ELSE [guard EXCEPT ![owner[e]] = @ \ {runKey[e]}]

ReleaseGuard(e) == [guard EXCEPT ![owner[e]] = @ \ {runKey[e]}]

RecordSkip(e) ==
    /\ runPc[e] = "skip" /\ Goto(e, "idle")
    /\ Recorded(e, "skipped")
    /\ UNCHANGED <<settingVars, cronVars, guard, leaked, owner, runKey, alarms, crashes>>

InsertRun(e) ==
    /\ runPc[e] = "insert" /\ Goto(e, "handle")
    /\ Statement(e, "running")
    /\ UNCHANGED <<settingVars, cronVars, guard, leaked, owner, runKey, alarms,
                   faults, crashes>>

\* The insert throws outside the try: nothing releases the guard.
InsertFails(e) ==
    /\ runPc[e] = "insert" /\ Goto(e, "idle")
    /\ StatementFails(e, "running")
    /\ leaked' = [leaked EXCEPT ![owner[e]] = @ \union {runKey[e]}]
    /\ UNCHANGED <<settingVars, cronVars, guard, owner, runKey, alarms, crashes>>

\* The success update is not awaited: the guard is released before it lands.
HandlerReturns(e) ==
    /\ runPc[e] = "handle" /\ Goto(e, "success")
    /\ guard' = ReleaseGuard(e)
    /\ UNCHANGED <<settingVars, cronVars, leaked, owner, runKey, runRow, alarms,
                   faults, crashes>>

RecordSuccess(e) ==
    /\ runPc[e] = "success" /\ Goto(e, "idle")
    /\ Recorded(e, "success")
    /\ UNCHANGED <<settingVars, cronVars, guard, leaked, owner, runKey, alarms, crashes>>

\* The handler throws, or none is registered under the key.
HandlerThrows(e) ==
    /\ runPc[e] = "handle" /\ Goto(e, "failure")
    /\ UNCHANGED <<settingVars, cronVars, guard, leaked, owner, runKey, runRow,
                   alarms, faults, crashes>>

AlarmOf(persisted) == IF persisted THEN 1 ELSE 0

RecordFailure(e) ==
    /\ runPc[e] = "failure" /\ Goto(e, "idle")
    /\ guard' = ReleaseGuard(e)
    /\ \/ /\ Statement(e, "failed") /\ UNCHANGED faults
          /\ alarms' = [alarms EXCEPT ![e] = AlarmOf(TRUE)]
       \/ /\ StatementFails(e, "failed")
          /\ alarms' = [alarms EXCEPT ![e] = AlarmOf(FALSE)]
    /\ UNCHANGED <<settingVars, cronVars, leaked, owner, runKey, crashes>>

\* The process dies; what its runs wrote stays.
Crash(p) ==
    /\ up[p] # "down" /\ crashes < MaxCrashes /\ crashes' = crashes + 1
    /\ up' = [up EXCEPT ![p] = "down"]
    /\ registered' = [registered EXCEPT ![p] = Nothing]
    /\ cronJob' = [cronJob EXCEPT ![p] = Nothing]
    /\ readings' = [readings EXCEPT ![p] = {}]
    /\ declaring' = [declaring EXCEPT ![p] = {}]
    /\ guard' = [guard EXCEPT ![p] = {}] /\ leaked' = [leaked EXCEPT ![p] = {}]
    /\ runPc' = [e \in Executions |-> IF owner[e] = p THEN "idle" ELSE runPc[e]]
    /\ UNCHANGED <<settingVars, owner, runKey, runRow, alarms, faults>>

-----------------------------------------------------------------------------
Reconciling(p) == \E t \in readings[p] : ApplyReading(p, t)

\* The steps of an execution that is in progress.
Executing(e) ==
    \/ RecordSkip(e) \/ InsertRun(e) \/ InsertFails(e) \/ HandlerReturns(e)
    \/ RecordSuccess(e) \/ HandlerThrows(e) \/ RecordFailure(e)

Scheduling(p, k) ==
    \/ FindDeclared(p, k) \/ CreateDeclared(p, k)
    \/ \E e \in Executions : CronFires(p, k, e) \/ TriggerSchedule(p, k, e)

JobNext ==
    \/ \E p \in Processes : Boot(p) \/ ReadSchedules(p) \/ Reconciling(p) \/ Crash(p)
    \/ \E p \in Processes, k \in Keys : Scheduling(p, k)
    \/ \E k \in Keys :
           \/ \E s \in Settings : UpdateSchedule(k, s)
           \/ \E s \in DatabaseEdits : Edit(k, s)
    \/ \E e \in Executions : Executing(e)

JobSpec == JobInit /\ [][JobNext]_jobVars

-----------------------------------------------------------------------------
(* Properties *)

\* In one process the runs of a schedule never overlap, whatever fires them,
\* until the handler has ended.
RunsExclude ==
    \A p \in Processes, k \in Keys : Cardinality(Holders(p, k)) <= 1

\* A run is skipped because the previous run of its schedule is in progress.
SkipsHaveAReason ==
    [][\A e \in Executions :
           runPc[e] = "idle" /\ runPc'[e] = "skip" =>
               Holders(owner'[e], runKey'[e]) # {}]_jobVars

\* ... which holds for every guard that was not leaked.
SkipsAreExplained ==
    [][\A e \in Executions :
           runPc[e] = "idle" /\ runPc'[e] = "skip" =>
               \/ Holders(owner'[e], runKey'[e]) # {}
               \/ runKey'[e] \in leaked[owner'[e]]]_jobVars

\* A failure is announced once it is persisted and never when it is not, and a
\* row stays running only when its process died or one of its statements failed.
HistoryIsTruthful ==
    \A e \in Executions :
        /\ alarms[e] = 1 => runPc[e] = "idle" /\ runRow[e] = "failed"
        /\ runRow[e] = "running" /\ runPc[e] = "idle" => faults + crashes > 0

\* Once a schedule exists only an operator changes it: no restart and no
\* declaration that lost its race resets a setting.
EditsSurvive ==
    [][\A k \in Keys :
           setting[k] # NoRow /\ setting'[k] # setting[k] => edits' = edits + 1]_jobVars

\* When the edits end, what a process takes to be registered comes to be what
\* the rows ask for, however many readings were in flight; a row that no
\* CronJob can be made of holds up the passes.  Of the cron jobs themselves
\* this holds only as long as no pass has thrown over a registered schedule.
RegistrationConverges ==
    <>[](\A p \in Processes, k \in Keys :
            up[p] = "up" /\ (\A j \in Keys : Wanted(setting, j) \notin InvalidCrons) =>
                registered[p][k] = Wanted(setting, k))

\* A schedule is blocked only for as long as its run lasts, on every path but
\* the failing insert.
GuardsAreReleased ==
    \A p \in Processes, k \in Keys :
        k \in guard[p] ~> k \notin guard[p] \/ k \in leaked[p]

\* The runs of a schedule do not overlap and its history says how they ended.
RunsAreAccounted == RunsExclude /\ HistoryIsTruthful

\* The reentry guard skips a run only while it is held and is given back, by
\* every execution that got as far as its handler.
GuardsAreSound == SkipsAreExplained /\ GuardsAreReleased

\* What an operator sets is kept, and every process comes to follow it.
SchedulesFollowEdits == EditsSurvive /\ RegistrationConverges
=============================================================================
