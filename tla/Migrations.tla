----------------------------- MODULE Migrations -----------------------------
(***************************************************************************)
(* The migration runner of packages/modules/clickhouse                     *)
(* (migration/migration-runner.ts): a run discovers the files of its       *)
(* workspace, reads the applied history, plans, and executes the pending   *)
(* files statement by statement, writing a history row after each file.    *)
(* Nothing keeps two runs (two deployments) apart.                         *)
(***************************************************************************)
EXTENDS Integers, FiniteSets, Sequences, SequencesExt

CONSTANTS
    Versions,               \* a set of numbers: files are ordered by them
    Contents, NoFile,       \* what a file may hold, by its checksum
    Statements,             \* statements in a file
    Runners,
    MaxWorkspaceEdits, MaxRunFaults     \* bounds

ASSUME MigrationsAssumption ==
    /\ Versions \subseteq Nat /\ IsFiniteSet(Versions) /\ NoFile \notin Contents
    /\ Statements \in Nat \ {0} /\ MaxWorkspaceEdits \in Nat /\ MaxRunFaults \in Nat

VARIABLES
    workspace,      \* the file of each version
    history,        \* rows of the history table, as they were inserted
    performed,      \* <<content, n>> pairs executed for each version
    migratePc, files, pending, statement,   \* each run: step, files read, plan, progress
    (* history and bounds *)
    runsOverlapped, workspaceEdits, runFaults

runVars == <<migratePc, files, pending, statement>>
migrationVars == <<workspace, history, performed, runVars, runsOverlapped,
                   workspaceEdits, runFaults>>

Rows == [version : Versions, checksum : Contents]
NoFiles == [v \in Versions |-> NoFile]
Applied == {row.version : row \in ToSet(history)}

MigrationsTypeOK ==
    /\ workspace \in [Versions -> Contents \union {NoFile}]
    /\ history \in Seq(Rows)
    /\ performed \in [Versions -> SUBSET (Contents \X (1 .. Statements))]
    /\ migratePc \in [Runners -> {"idle", "plan", "apply", "insert"}]
    /\ files \in [Runners -> [Versions -> Contents \union {NoFile}]]
    /\ pending \in [Runners -> SUBSET Versions]
    /\ statement \in [Runners -> 1 .. Statements]
    /\ \A r \in Runners : migratePc[r] \in {"apply", "insert"} => pending[r] # {}
    /\ runsOverlapped \in BOOLEAN
    /\ workspaceEdits \in 0 .. MaxWorkspaceEdits /\ runFaults \in 0 .. MaxRunFaults

MigrationsInit ==
    /\ workspace = NoFiles /\ history = << >> /\ performed = [v \in Versions |-> {}]
    /\ migratePc = [r \in Runners |-> "idle"] /\ files = [r \in Runners |-> NoFiles]
    /\ pending = [r \in Runners |-> {}] /\ statement = [r \in Runners |-> 1]
    /\ runsOverlapped = FALSE /\ workspaceEdits = 0 /\ runFaults = 0

-----------------------------------------------------------------------------
\* A migration is written, edited or removed between deployments.
EditWorkspace(v, c) ==
    /\ workspace[v] # c /\ workspace' = [workspace EXCEPT ![v] = c]
    /\ workspaceEdits < MaxWorkspaceEdits /\ workspaceEdits' = workspaceEdits + 1
    /\ UNCHANGED <<history, performed, runVars, runsOverlapped, runFaults>>

\* discoverMigrations.
StartRun(r) ==
    /\ migratePc[r] = "idle" /\ migratePc' = [migratePc EXCEPT ![r] = "plan"]
    /\ files' = [files EXCEPT ![r] = workspace]
    /\ runsOverlapped' = (runsOverlapped \/ \E o \in Runners \ {r} : migratePc[o] # "idle")
    /\ UNCHANGED <<workspace, history, performed, pending, statement, workspaceEdits, runFaults>>

StopRun(r) ==
    /\ migratePc' = [migratePc EXCEPT ![r] = "idle"]
    /\ files' = [files EXCEPT ![r] = NoFiles]
    /\ pending' = [pending EXCEPT ![r] = {}] /\ statement' = [statement EXCEPT ![r] = 1]

\* The file of a row exists and is the one that was applied.
Unchanged(row, f) == f[row.version] = row.checksum

Unapplied(f) == {v \in Versions : f[v] # NoFile /\ v \notin Applied}

\* No pending version is older than the latest applied one.
InOrder(f) == \A v \in Unapplied(f) : \A w \in Applied : v > w

PlanAccepted(f) == (\A row \in ToSet(history) : Unchanged(row, f)) /\ InOrder(f)

\* Mutant: only a fresh database is planned.
PlanWhenFresh(f) == PlanAccepted(f) /\ Unapplied(f) # {} /\ history = << >>

SomethingPlanned(f) == PlanAccepted(f) /\ Unapplied(f) # {}

\* readAppliedMigrations and planMigrations: a plan that is refused throws.
PlanRun(r) ==
    /\ migratePc[r] = "plan"
    /\ IF SomethingPlanned(files[r])
       THEN /\ pending' = [pending EXCEPT ![r] = Unapplied(files[r])]
            /\ migratePc' = [migratePc EXCEPT ![r] = "apply"]
            /\ UNCHANGED <<files, statement>>
       ELSE StopRun(r)
    /\ UNCHANGED <<workspace, history, performed, runsOverlapped, workspaceEdits, runFaults>>

\* Mutant: the history row is written before the last statement.
EndsEarly(n) == n + 1 >= Statements

LastStatement(n) == n = Statements

\* A plan is executed in the order of the versions.
CurrentVersion(r) == Min(pending[r])

\* One statement of the file that is next in the plan.
ExecuteStatement(r) ==
    LET v == CurrentVersion(r)
    IN  /\ migratePc[r] = "apply"
        /\ performed' = [performed EXCEPT ![v] = @ \union {<<files[r][v], statement[r]>>}]
        /\ IF LastStatement(statement[r])
           THEN /\ migratePc' = [migratePc EXCEPT ![r] = "insert"]
                /\ statement' = [statement EXCEPT ![r] = 1]
           ELSE statement' = [statement EXCEPT ![r] = @ + 1] /\ UNCHANGED migratePc
        /\ UNCHANGED <<workspace, history, files, pending, runsOverlapped, workspaceEdits,
                       runFaults>>

InsertHistory(r) ==
    LET v == CurrentVersion(r)
        rest == pending[r] \ {v}
    IN  /\ migratePc[r] = "insert"
        /\ history' = Append(history, [version |-> v, checksum |-> files[r][v]])
        /\ IF rest = {}
           THEN StopRun(r)
           ELSE /\ pending' = [pending EXCEPT ![r] = rest]
                /\ migratePc' = [migratePc EXCEPT ![r] = "apply"]
                /\ UNCHANGED <<files, statement>>
        /\ UNCHANGED <<workspace, performed, runsOverlapped, workspaceEdits, runFaults>>

\* A command fails, or the process is killed, before the step takes effect.
RunFails(r) ==
    /\ migratePc[r] # "idle" /\ runFaults < MaxRunFaults /\ runFaults' = runFaults + 1
    /\ StopRun(r)
    /\ UNCHANGED <<workspace, history, performed, runsOverlapped, workspaceEdits>>

Migrating(r) == StartRun(r) \/ PlanRun(r) \/ ExecuteStatement(r) \/ InsertHistory(r)

MigrationsNext ==
    \/ \E v \in Versions : \E c \in Contents \union {NoFile} : EditWorkspace(v, c)
    \/ \E r \in Runners : Migrating(r) \/ RunFails(r)

MigrationsSpec == MigrationsInit /\ [][MigrationsNext]_migrationVars

\* Deployments go on.
Deploying == \A r \in Runners : WF_migrationVars(Migrating(r))

-----------------------------------------------------------------------------
(* Properties *)

\* "The history row is written only after the whole file succeeds": whatever
\* failed, was run again or ran at the same time, every row stands for a file all
\* of whose statements were executed with that content.
HistoryIsEarned ==
    \A row \in ToSet(history) :
        \A n \in 1 .. Statements : <<row.checksum, n>> \in performed[row.version]

\* "Applied migrations are immutable": unless two runs overlapped, each version
\* is recorded once, in the order of the versions, and no statement of a recorded
\* version is executed again.
HistoryIsOrdered ==
    ~runsOverlapped =>
        /\ \A i, j \in DOMAIN history : i < j => history[i].version < history[j].version
        /\ \A r \in Runners :
               migratePc[r] = "apply" => CurrentVersion(r) \notin Applied

\* An applied file that was changed or removed stops every later run before it
\* executes anything.
ChangedFilesStopRuns ==
    ~runsOverlapped =>
        \A r \in Runners : migratePc[r] \in {"apply", "insert"} =>
            \A row \in ToSet(history) : files[r][row.version] = row.checksum

\* A workspace that goes on to be acceptable is applied completely.
WorkspaceIsApplied ==
    (<>[]PlanAccepted(workspace)) =>
        <>[](\A v \in Versions : workspace[v] # NoFile => v \in Applied)

\* The history says what was executed, in order, and no run goes on over a file
\* that is not the one it recorded.
HistoryIsSound == HistoryIsEarned /\ HistoryIsOrdered /\ ChangedFilesStopRuns
=============================================================================
