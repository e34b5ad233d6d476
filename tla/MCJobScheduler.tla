---------------------------- MODULE MCJobScheduler ----------------------------
(* Instances of JobScheduler and of one of the jobs it runs.  A behaviour is *)
(* about one of three things: the rows and the cron jobs of two processes,   *)
(* the runs of one process, or the threshold alerts.                         *)
EXTENDS JobScheduler, ThresholdAlerts

CONSTANTS p1, p2
VARIABLE focus

benchVars == <<jobVars, alertVars, focus>>

\* Key 1 is declared with a cron expression that no CronJob can be made of.
DeclaredSettings ==
    [k \in Keys |-> [cron |-> IF k = 1 THEN "odd" ELSE "hourly", enabled |-> TRUE]]
ValidEdits == {[cron |-> "daily", enabled |-> TRUE], [cron |-> "hourly", enabled |-> FALSE]}

\* The runs of a schedule that nobody edits, in one process.
OneSchedule ==
    /\ up'[p2] = "down" /\ setting'[1] = NoRow /\ 1 \notin declaring'[p1]
    /\ UNCHANGED edits

\* The rows and the cron jobs; the second process is there for the race of the
\* declarations.
TwoProcesses ==
    /\ UNCHANGED <<runPc, faults>>
    /\ Cardinality(readings'[p2]) <= 1 /\ 1 \notin declaring'[p2]
    /\ up[p2] # "down" => up'[p2] # "down"

\* At most one of the mishaps of the alerts happens in a behaviour.
OneMishap == redisFaults' + queryFaults' + evaluatorCrashes' + expiredEarly' <= 1

JobsStep(A) == focus # "alerts" /\ A /\ UNCHANGED <<alertVars, focus>>
AlertsStep(A) == focus = "alerts" /\ A /\ UNCHANGED <<jobVars, focus>>

BenchNext ==
    \/ JobsStep(JobNext /\ IF focus = "rows" THEN TwoProcesses ELSE OneSchedule)
    \/ AlertsStep(AlertsNext /\ OneMishap)

\* The interval reads again and again and a reading is applied; the statements
\* of an execution and its handler end.  SignalsAreEvaluated for the alerts.
JobsProgress ==
    /\ \A p \in Processes :
           /\ WF_benchVars(JobsStep(ReadSchedules(p)))
           /\ WF_benchVars(JobsStep(Reconciling(p)))
    /\ \A e \in Executions : WF_benchVars(JobsStep(Executing(e)))
    /\ \A e \in Evaluators :
           SF_benchVars(AlertsStep(TakeLock(e))) /\ WF_benchVars(AlertsStep(Evaluating(e)))
    /\ WF_benchVars(AlertsStep(LockExpires))

BenchInit == focus \in {"rows", "runs", "alerts"} /\ JobInit /\ AlertsInit

BenchSpec == BenchInit /\ [][BenchNext]_benchVars /\ JobsProgress
=============================================================================
