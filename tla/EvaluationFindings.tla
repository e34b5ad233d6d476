------------------------- MODULE EvaluationFindings -------------------------
(***************************************************************************)
(* The finding lifecycle of packages/modules/evaluation                    *)
(* (evaluation-finding.service.ts) for one subject: runs of several        *)
(* criteria versions record what they observed and close what they did     *)
(* not, while humans suppress and reopen.  Every database statement is one *)
(* action; a compare-and-set is a guard on the row at the time of the      *)
(* write, and what was read earlier is held in the variables of the run.   *)
(*                                                                         *)
(* A member of Findings is one row identity (subject, evaluationKey,       *)
(* fingerprint).  The run rows themselves are those of EvaluationRuns; a   *)
(* run may stop between any two statements (crash, fence, rejection).      *)
(***************************************************************************)
EXTENDS Naturals, FiniteSets

CONSTANTS
    Runs,          \* executions; concurrent ones run different versions
    Findings,      \* finding identities
    Keys,          \* evaluationKeys
    KeyOf,         \* the evaluationKey of each run and of each finding
    NoRun, NoFinding,
    MaxDecisions   \* bound: human suppressions and reopenings

ASSUME KeyAssumption == KeyOf \in [Runs \union Findings -> Keys]
ASSUME FindingNullAssumption == NoRun \notin Runs /\ NoFinding \notin Findings
ASSUME RunsFinite == IsFiniteSet(Runs)
ASSUME DecisionsAssumption == MaxDecisions \in Nat

VARIABLES
    (* columns of the EvaluationFinding row *)
    fstatus, seenAt, seenBy,
    resolvedAt,    \* resolvedAt is set
    note,          \* suppressionNote and suppressedByRef are set
    (* each run: its start (the finding cutoff) and its judgment *)
    clock, startedAt, seen,
    (* local variables of recordFindings and resolveAbsentFindings *)
    pc, todo, current, held, listed,
    (* humans *)
    decisions,
    (* history *)
    reobserved,    \* observed by someone else since the run made its listing
    decided,       \* decided by a human since the last run of the key began
    overlapped     \* keys two of whose runs were in progress at once

rowVars == <<fstatus, seenAt, seenBy, resolvedAt, note>>
runVars == <<clock, startedAt, seen>>
execVars == <<pc, todo, current, held, listed>>
vars == <<rowVars, runVars, execVars, decisions, reobserved, decided, overlapped>>

FindingStatuses == {"absent", "OPEN", "RESOLVED", "SUPPRESSED"}
Steps == {"idle", "recording", "writing", "refreshing", "listing", "resolving",
          "done", "stopped"}
Times == 0 .. Cardinality(Runs)

FindingsTypeOK ==
    /\ fstatus \in [Findings -> FindingStatuses]
    /\ seenAt \in [Findings -> Times]
    /\ seenBy \in [Findings -> Runs \union {NoRun}]
    /\ resolvedAt \in [Findings -> BOOLEAN]
    /\ note \in [Findings -> BOOLEAN]
    /\ clock \in Times
    /\ startedAt \in [Runs -> Times]
    /\ seen \in [Runs -> SUBSET Findings]
    /\ pc \in [Runs -> Steps]
    /\ todo \in [Runs -> SUBSET Findings]
    /\ current \in [Runs -> Findings \union {NoFinding}]
    /\ held \in [Runs -> FindingStatuses]
    /\ listed \in [Runs -> SUBSET (Findings \X Times)]
    /\ decisions \in 0 .. MaxDecisions
    /\ reobserved \in [Runs -> SUBSET Findings]
    /\ decided \in SUBSET Findings
    /\ overlapped \in SUBSET Keys

\* A finding may be new, or left behind by earlier runs and decisions.
Init ==
    /\ fstatus \in [Findings -> FindingStatuses]
    /\ seenAt = [f \in Findings |-> 0]
    /\ seenBy = [f \in Findings |-> NoRun]
    /\ resolvedAt = [f \in Findings |-> fstatus[f] = "RESOLVED"]
    /\ note = [f \in Findings |-> fstatus[f] = "SUPPRESSED"]
    /\ clock = 0
    /\ startedAt = [r \in Runs |-> 0]
    /\ seen = [r \in Runs |-> {}]
    /\ pc = [r \in Runs |-> "idle"]
    /\ todo = [r \in Runs |-> {}]
    /\ current = [r \in Runs |-> NoFinding]
    /\ held = [r \in Runs |-> "absent"]
    /\ listed = [r \in Runs |-> {}]
    /\ decisions = 0
    /\ reobserved = [r \in Runs |-> {}]
    /\ decided = {}
    /\ overlapped = {}

-----------------------------------------------------------------------------
OfKey(k) == {f \in Findings : KeyOf[f] = k}
InProgress(r) == pc[r] \notin {"idle", "done", "stopped"}
Exists(f) == fstatus[f] # "absent"
Goto(r, s) == pc' = [pc EXCEPT ![r] = s]

\* markRunning stamps startedAt, the judgment fixes the candidates.  Two runs
\* never share a millisecond here.
Begin(r, candidates) ==
    /\ pc[r] = "idle"
    /\ overlapped' = IF \E q \in Runs : KeyOf[q] = KeyOf[r] /\ InProgress(q)
                     THEN overlapped \union {KeyOf[r]} ELSE overlapped
    /\ clock' = clock + 1
    /\ startedAt' = [startedAt EXCEPT ![r] = clock + 1]
    /\ seen' = [seen EXCEPT ![r] = candidates]
    /\ todo' = [todo EXCEPT ![r] = candidates]
    /\ decided' = decided \ OfKey(KeyOf[r])
    /\ Goto(r, IF candidates = {} THEN "listing" ELSE "recording")
    /\ UNCHANGED <<rowVars, current, held, listed, decisions, reobserved>>

\* The process dies, the fence rejects the run, or a statement throws.
Stop(r) ==
    /\ InProgress(r)
    /\ Goto(r, "stopped")
    /\ UNCHANGED <<rowVars, runVars, todo, current, held, listed, decisions,
                   reobserved, decided, overlapped>>

-----------------------------------------------------------------------------
(* recordFindings: observe() for each candidate *)

\* findByFingerprint.
ObserveRead(r, f) ==
    /\ pc[r] = "recording" /\ f \in todo[r]
    /\ current' = [current EXCEPT ![r] = f]
    /\ held' = [held EXCEPT ![r] = fstatus[f]]
    /\ Goto(r, "writing")
    /\ UNCHANGED <<rowVars, runVars, todo, listed, decisions, reobserved, decided, overlapped>>

\* The observation columns; every write of them moves lastSeenAt.
StampObservation(r, f) ==
    /\ seenAt' = [seenAt EXCEPT ![f] = startedAt[r]]
    /\ seenBy' = [seenBy EXCEPT ![f] = r]
    /\ reobserved' = [q \in Runs |-> IF q # r THEN reobserved[q] \union {f}
                                              ELSE reobserved[q]]

CandidateDone(r) ==
    /\ todo' = [todo EXCEPT ![r] = @ \ {current[r]}]
    /\ current' = [current EXCEPT ![r] = NoFinding]
    /\ held' = [held EXCEPT ![r] = "absent"]
    /\ Goto(r, IF todo[r] = {current[r]} THEN "listing" ELSE "recording")

\* createFinding; on the unique violation it re-reads and updates instead.
CreateFinding(r) ==
    LET f == current[r] IN
    /\ pc[r] = "writing" /\ held[r] = "absent"
    /\ IF Exists(f)
       THEN /\ held' = [held EXCEPT ![r] = fstatus[f]]
            /\ UNCHANGED <<rowVars, pc, todo, current, reobserved>>
       ELSE /\ fstatus' = [fstatus EXCEPT ![f] = "OPEN"]
            /\ StampObservation(r, f)
            /\ CandidateDone(r)
            /\ UNCHANGED <<resolvedAt, note>>
    /\ UNCHANGED <<runVars, listed, decisions, decided, overlapped>>

\* Mutants: the update is not conditional on the status; a RESOLVED finding is
\* not reopened.
StatusIgnored(r) == TRUE

UpdateWithoutReopening(r) ==
    /\ pc[r] = "writing" /\ held[r] # "absent"
    /\ StampObservation(r, current[r])
    /\ CandidateDone(r)
    /\ UNCHANGED <<fstatus, resolvedAt, note, runVars, listed, decisions, decided, overlapped>>

\* updateFinding: a compare-and-set on the status that was read; observing a
\* RESOLVED finding reopens it and clears the suppression columns.
StatusMatches(r) == fstatus[current[r]] = held[r]

UpdateFinding(r) ==
    LET f == current[r] IN
    /\ pc[r] = "writing" /\ held[r] # "absent"
    /\ IF StatusMatches(r)
       THEN /\ StampObservation(r, f)
            /\ IF held[r] = "RESOLVED"
               THEN /\ fstatus' = [fstatus EXCEPT ![f] = "OPEN"]
                    /\ resolvedAt' = [resolvedAt EXCEPT ![f] = FALSE]
                    /\ note' = [note EXCEPT ![f] = FALSE]
               ELSE UNCHANGED <<fstatus, resolvedAt, note>>
            /\ CandidateDone(r)
       ELSE /\ Goto(r, "refreshing")
            /\ UNCHANGED <<rowVars, todo, current, held, reobserved>>
    /\ UNCHANGED <<runVars, listed, decisions, decided, overlapped>>

\* The status changed since the read: the observation columns only.
RefreshObservation(r) ==
    /\ pc[r] = "refreshing"
    /\ StampObservation(r, current[r])
    /\ CandidateDone(r)
    /\ UNCHANGED <<fstatus, resolvedAt, note, runVars, listed, decisions, decided, overlapped>>

-----------------------------------------------------------------------------
(* resolveAbsentFindings *)

Absent(r) ==
    {f \in OfKey(KeyOf[r]) :
        /\ fstatus[f] = "OPEN"
        /\ seenAt[f] < startedAt[r]
        /\ seenBy[f] # r}

ListAbsent(r) ==
    /\ pc[r] = "listing"
    /\ listed' = [listed EXCEPT ![r] = {<<f, seenAt[f]>> : f \in Absent(r)}]
    /\ reobserved' = [reobserved EXCEPT ![r] = {}]
    /\ Goto(r, "resolving")
    /\ UNCHANGED <<rowVars, runVars, todo, current, held, decisions, decided, overlapped>>

\* Mutant: the update does not match the listed lastSeenAt.
StillOpen(f, at) == fstatus[f] = "OPEN"

StillAbsent(f, at) == fstatus[f] = "OPEN" /\ seenAt[f] = at

ResolveAbsent(r, f, at) ==
    /\ pc[r] = "resolving" /\ <<f, at>> \in listed[r]
    /\ IF StillAbsent(f, at)
       THEN /\ fstatus' = [fstatus EXCEPT ![f] = "RESOLVED"]
            /\ resolvedAt' = [resolvedAt EXCEPT ![f] = TRUE]
       ELSE UNCHANGED <<fstatus, resolvedAt>>
    /\ listed' = [listed EXCEPT ![r] = @ \ {<<f, at>>}]
    /\ UNCHANGED <<seenAt, seenBy, note, runVars, pc, todo, current, held,
                   decisions, reobserved, decided, overlapped>>

Finish(r) ==
    /\ pc[r] = "resolving" /\ listed[r] = {}
    /\ Goto(r, "done")
    /\ UNCHANGED <<rowVars, runVars, todo, current, held, listed, decisions,
                   reobserved, decided, overlapped>>

-----------------------------------------------------------------------------
(* Human decisions; both take any existing finding, whatever its status. *)

Decide(f) ==
    /\ Exists(f) /\ decisions < MaxDecisions
    /\ decisions' = decisions + 1
    /\ decided' = decided \union {f}
    /\ UNCHANGED <<seenAt, seenBy, runVars, execVars, reobserved, overlapped>>

\* Mutant: suppression leaves resolvedAt in place.
SuppressKeepsResolvedAt(f) ==
    /\ Decide(f)
    /\ fstatus' = [fstatus EXCEPT ![f] = "SUPPRESSED"]
    /\ note' = [note EXCEPT ![f] = TRUE]
    /\ UNCHANGED resolvedAt

SuppressFinding(f) ==
    /\ Decide(f)
    /\ fstatus' = [fstatus EXCEPT ![f] = "SUPPRESSED"]
    /\ note' = [note EXCEPT ![f] = TRUE]
    /\ resolvedAt' = [resolvedAt EXCEPT ![f] = FALSE]

ReopenFinding(f) ==
    /\ Decide(f)
    /\ fstatus' = [fstatus EXCEPT ![f] = "OPEN"]
    /\ note' = [note EXCEPT ![f] = FALSE]
    /\ resolvedAt' = [resolvedAt EXCEPT ![f] = FALSE]

-----------------------------------------------------------------------------
RunStep(r) ==
    \/ \E candidates \in SUBSET OfKey(KeyOf[r]) : Begin(r, candidates)
    \/ \E f \in Findings : ObserveRead(r, f)
    \/ CreateFinding(r) \/ UpdateFinding(r) \/ RefreshObservation(r)
    \/ ListAbsent(r) \/ Finish(r) \/ Stop(r)
    \/ \E f \in Findings, at \in Times : ResolveAbsent(r, f, at)

Next ==
    \/ \E r \in Runs : RunStep(r)
    \/ \E f \in Findings : SuppressFinding(f) \/ ReopenFinding(f)

Spec == Init /\ [][Next]_vars

-----------------------------------------------------------------------------
(* Properties *)

\* A suppression is lifted by a human only: a run that read the finding before
\* it was suppressed neither reopens nor resolves it.
SuppressionIsHuman ==
    [][\A f \in Findings :
           fstatus[f] = "SUPPRESSED" /\ fstatus'[f] # "SUPPRESSED"
               => decisions' = decisions + 1]_vars

\* The status and its companion columns move together through every
\* interleaving of partial updates.
ColumnsAgreeWithStatus ==
    \A f \in Findings :
        /\ resolvedAt[f] <=> fstatus[f] = "RESOLVED"
        /\ note[f] <=> fstatus[f] = "SUPPRESSED"

Resolves(r, f) ==
    /\ fstatus[f] = "OPEN" /\ fstatus'[f] = "RESOLVED"
    /\ listed'[r] # listed[r]

\* A finding another run re-observed after the listing is not resolved from it.
ReobservationWins ==
    [][\A r \in Runs, f \in Findings : Resolves(r, f) => f \notin reobserved[r]]_vars

\* A run resolves findings of its own evaluationKey only.
KeysAreIsolated ==
    [][\A r \in Runs, f \in Findings : Resolves(r, f) => KeyOf[f] = KeyOf[r]]_vars

\* When the runs of a key have not overlapped, resolveAbsentFindings closes
\* only findings the run did not observe.
ResolvesOnlyUnseen ==
    [][\A r \in Runs, f \in Findings :
           Resolves(r, f) /\ KeyOf[r] \notin overlapped => f \notin seen[r]]_vars

Latest(r) == \A q \in Runs : KeyOf[q] = KeyOf[r] => startedAt[q] <= startedAt[r]

\* When the runs of a key have not overlapped, the latest completed run decides:
\* what it observed is not closed, and what it did not observe is not open,
\* human decisions taken since it began excepted.
LatestRunDecides ==
    \A r \in Runs : pc[r] = "done" /\ Latest(r) /\ KeyOf[r] \notin overlapped =>
        \A f \in OfKey(KeyOf[r]) \ decided :
            /\ f \in seen[r] => fstatus[f] \in {"OPEN", "SUPPRESSED"}
            /\ f \notin seen[r] => fstatus[f] # "OPEN"

\* A run resolves a finding only where it may speak of it: of its key, not seen
\* by itself, and not observed by another run since it listed what is absent.
ResolutionsAreSound == ReobservationWins /\ KeysAreIsolated /\ ResolvesOnlyUnseen
=============================================================================
