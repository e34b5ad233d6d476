----------------------- MODULE EvaluationServicesProofs -----------------------
(***************************************************************************)
(* Safety of the services that MCEvaluationServices composes: work         *)
(* periods, remediation plans, the coverage of a result, and that each     *)
(* service of a behaviour of the composition behaves as its own            *)
(* specification says, so that what is proved of a service holds in the    *)
(* composition (EvaluationFindingsProofs has the findings).                *)
(***************************************************************************)
EXTENDS MCEvaluationServices, EvaluationFindingsProofs, SequenceTheorems,
        WellFoundedInduction

-----------------------------------------------------------------------------
(* Work periods.  The overlap and rubric conditions are those of the rows; *)
(* that a request never inserts an empty or too early period rests on what *)
(* it validated before (AskedIsValid), and that a row only moves forward   *)
(* on what its transition validated (MovesAreAllowed).                     *)

AskedIsValid == \A c \in Planners : planPhase[c] = "inserting" => ValidSpan(asked[c])

MovesAreAllowed ==
    \A c \in Planners :
        planPhase[c] = "moving" => moving[c].to \in AllowedTransitions[moving[c].from]

PeriodInv == PeriodsTypeOK /\ PeriodsDisjoint /\ AskedIsValid /\ MovesAreAllowed

LEMMA DefaultsAreTyped == AnySpan \in Spans /\ AnyMove \in Moves
  <1>1. \E s \in Spans : TRUE
    <2>1. PICK t \in PeriodTypes : TRUE
      BY HorizonAssumption
    <2>2. [type |-> t, start |-> 0, end |-> 0] \in Spans
      BY HorizonAssumption DEF Spans, Dates
    <2>3. QED
      BY <2>2
  <1>2. \E m \in Moves : TRUE
    <2>1. PICK p \in Periods : TRUE
      BY HorizonAssumption
    <2>2. [id |-> p, from |-> "absent", to |-> "absent"] \in Moves
      BY DEF Moves, PeriodStatuses
    <2>3. QED
      BY <2>2
  <1>3. QED
    BY <1>1, <1>2 DEF AnySpan, AnyMove

LEMMA PeriodInitEstablishes == PeriodInit => PeriodInv
  BY DefaultsAreTyped
  DEF PeriodInit, PeriodInv, PeriodsTypeOK, PeriodsDisjoint, AskedIsValid, MovesAreAllowed,
      PeriodStatuses

\* Where a transition may lead from, and that no row is ever unmade by one.
LEMMA Transitions ==
    /\ AllowedTransitions["absent"] = {} /\ AllowedTransitions["CLOSED"] = {}
    /\ AllowedTransitions["UPCOMING"] = {"ACTIVE", "CLOSED"}
    /\ AllowedTransitions["ACTIVE"] = {"CLOSED"}
  BY DEF AllowedTransitions, PeriodStatuses

\* The request that ends keeps no claim on what it validated.
LEMMA DoneKeepsClaims ==
    ASSUME PeriodInv, NEW c \in Planners, Done(c)
    PROVE  /\ planPhase' \in [Planners -> {"idle", "inserting", "moving"}]
           /\ asked' \in [Planners -> Spans] /\ moving' \in [Planners -> Moves]
           /\ AskedIsValid' /\ MovesAreAllowed'
  BY DefaultsAreTyped DEF PeriodInv, PeriodsTypeOK, Done, AskedIsValid, MovesAreAllowed, ValidSpan

LEMMA CreateReadPreserves ==
    ASSUME PeriodInv, NEW c \in Planners, NEW s \in Spans, CreateRead(c, s)
    PROVE  PeriodInv'
  <1>1. PeriodsTypeOK'
    BY DEF PeriodInv, PeriodsTypeOK, CreateRead
  <1>2. PeriodsDisjoint'
    BY DEF PeriodInv, PeriodsDisjoint, CreateRead, Overlaps
  <1>3. AskedIsValid' /\ MovesAreAllowed'
    BY DEF PeriodInv, PeriodsTypeOK, AskedIsValid, MovesAreAllowed, CreateRead, ValidSpan
  <1>4. QED
    BY <1>1, <1>2, <1>3 DEF PeriodInv

\* The new row overlaps none of those the transaction looked at, and the
\* relation is symmetric.
LEMMA CreateCommitPreserves ==
    ASSUME PeriodInv, NEW c \in Planners, NEW p \in Periods, CreateCommit(c, p)
    PROVE  PeriodInv'
  <1>1. /\ \A q \in Periods : /\ span'[q] = IF q = p THEN asked[c] ELSE span[q]
                              /\ periodStatus'[q] = IF q = p THEN "UPCOMING" ELSE periodStatus[q]
        /\ asked[c] \in Spans /\ ValidSpan(asked[c])
    BY DEF PeriodInv, PeriodsTypeOK, CreateCommit, AskedIsValid
  <1>2. span' \in [Periods -> Spans] /\ periodStatus' \in [Periods -> PeriodStatuses]
    BY DEF PeriodInv, PeriodsTypeOK, CreateCommit, PeriodStatuses
  <1>3. PeriodsTypeOK'
    BY <1>1, <1>2, DoneKeepsClaims DEF PeriodInv, PeriodsTypeOK, CreateCommit, ValidSpan
  <1>4. PeriodsDisjoint'
    <2>1. \A q \in Periods : periodStatus[q] # "absent" =>
              ~Overlaps(span[q], asked[c]) /\ ~Overlaps(asked[c], span[q])
      BY DEF CreateCommit, Taken, Overlaps
    <2>2. QED
      BY <1>1, <2>1 DEF PeriodInv, PeriodsDisjoint, ValidSpan, Overlaps
  <1>5. QED
    BY <1>3, <1>4, DoneKeepsClaims DEF PeriodInv, CreateCommit

LEMMA AbortPreserves ==
    ASSUME PeriodInv, NEW c \in Planners, CreateAborted(c)
    PROVE  PeriodInv'
  BY DoneKeepsClaims DEF PeriodInv, PeriodsTypeOK, PeriodsDisjoint, CreateAborted, Overlaps

LEMMA TransitionReadPreserves ==
    ASSUME PeriodInv, NEW c \in Planners, NEW p \in Periods, NEW to \in PeriodStatuses,
           TransitionRead(c, p, to)
    PROVE  PeriodInv'
  <1>1. [id |-> p, from |-> periodStatus[p], to |-> to] \in Moves
    BY DEF PeriodInv, PeriodsTypeOK, Moves
  <1>2. PeriodsTypeOK'
    BY <1>1 DEF PeriodInv, PeriodsTypeOK, TransitionRead
  <1>3. PeriodsDisjoint'
    BY DEF PeriodInv, PeriodsDisjoint, TransitionRead, Overlaps
  <1>4. AskedIsValid' /\ MovesAreAllowed'
    BY DEF PeriodInv, PeriodsTypeOK, AskedIsValid, MovesAreAllowed, TransitionRead, ValidSpan
  <1>5. QED
    BY <1>2, <1>3, <1>4 DEF PeriodInv

\* What a transition writes: nothing, or an allowed status over the one it read.
LEMMA WriteMovesForward ==
    ASSUME PeriodInv, NEW c \in Planners, TransitionWrite(c)
    PROVE  /\ periodStatus' \in [Periods -> PeriodStatuses]
           /\ \A p \in Periods : \/ periodStatus'[p] = periodStatus[p]
                                 \/ periodStatus'[p] \in AllowedTransitions[periodStatus[p]]
  BY DEF PeriodInv, PeriodsTypeOK, MovesAreAllowed, TransitionWrite, StatusStillHeld, Moves

LEMMA TransitionWritePreserves ==
    ASSUME PeriodInv, NEW c \in Planners, TransitionWrite(c)
    PROVE  PeriodInv'
  <1>1. \A p \in Periods : periodStatus'[p] # "absent" => periodStatus[p] # "absent"
    BY WriteMovesForward, Transitions DEF PeriodInv, PeriodsTypeOK
  <1>2. span' = span /\ Done(c)
    BY DEF TransitionWrite
  <1>3. PeriodsTypeOK'
    BY <1>1, <1>2, WriteMovesForward, DoneKeepsClaims DEF PeriodInv, PeriodsTypeOK
  <1>4. PeriodsDisjoint'
    BY <1>1, <1>2 DEF PeriodInv, PeriodsDisjoint, Overlaps
  <1>5. QED
    BY <1>2, <1>3, <1>4, DoneKeepsClaims DEF PeriodInv

LEMMA PeriodStepPreserves == PeriodInv /\ [PeriodNext]_periodVars => PeriodInv'
  <1> SUFFICES ASSUME PeriodInv, [PeriodNext]_periodVars PROVE PeriodInv'
    OBVIOUS
  <1>1. CASE PeriodNext
    BY <1>1, CreateReadPreserves, CreateCommitPreserves, AbortPreserves, TransitionReadPreserves,
       TransitionWritePreserves DEF PeriodNext
  <1>2. CASE UNCHANGED periodVars
    BY <1>2 DEF periodVars, PeriodInv, PeriodsTypeOK, PeriodsDisjoint, AskedIsValid,
                MovesAreAllowed, Overlaps
  <1>3. QED
    BY <1>1, <1>2

-----------------------------------------------------------------------------
\* Every row keeps its shape and none is empty.
THEOREM PeriodsAreTyped == PeriodSpec => []PeriodsTypeOK
  <1>1. PeriodInv => PeriodsTypeOK
    BY DEF PeriodInv
  <1>2. QED
    BY <1>1, PeriodInitEstablishes, PeriodStepPreserves, PTL DEF PeriodSpec

\* No two periods of a type overlap, however many requests create them at once.
THEOREM PeriodsNeverOverlap == PeriodSpec => []PeriodsDisjoint
  <1>1. PeriodInv => PeriodsDisjoint
    BY DEF PeriodInv
  <1>2. QED
    BY <1>1, PeriodInitEstablishes, PeriodStepPreserves, PTL DEF PeriodSpec

LEMMA StepsMoveForward == PeriodInv /\ [PeriodNext]_periodVars => MovesForward
  <1> SUFFICES ASSUME PeriodInv, [PeriodNext]_periodVars,
                      NEW p \in Periods, periodStatus'[p] # periodStatus[p]
               PROVE  \/ periodStatus[p] = "absent"
                      \/ periodStatus'[p] \in AllowedTransitions[periodStatus[p]]
    BY DEF MovesForward
  <1>1. CASE \E c \in Planners, q \in Periods : CreateCommit(c, q)
    BY <1>1 DEF CreateCommit, PeriodInv, PeriodsTypeOK
  <1>2. CASE \E c \in Planners : TransitionWrite(c)
    BY <1>2, WriteMovesForward
  <1>3. CASE periodStatus' = periodStatus
    BY <1>3
  <1>4. QED
    BY <1>1, <1>2, <1>3 DEF PeriodNext, periodVars, CreateRead, CreateAborted, TransitionRead

\* No stale transition moves a period back or reopens it.
THEOREM PeriodsOnlyMoveForward == PeriodSpec => PeriodsMoveForward
  <1>1. PeriodInv /\ [PeriodNext]_periodVars => [MovesForward]_periodVars
    BY StepsMoveForward
  <1>2. QED
    BY <1>1, PeriodInitEstablishes, PeriodStepPreserves, PTL DEF PeriodSpec, PeriodsMoveForward

\* Racing requests neither make two periods overlap nor move one back.
THEOREM PeriodsStaySound == PeriodSpec => PeriodsAreSound
  <1>1. PeriodInv /\ PeriodInv' /\ [PeriodNext]_periodVars =>
            [PeriodsDisjoint' /\ MovesForward]_periodVars
    BY StepsMoveForward DEF PeriodInv
  <1>2. QED
    BY <1>1, PeriodInitEstablishes, PeriodStepPreserves, PTL DEF PeriodSpec, PeriodsAreSound

-----------------------------------------------------------------------------
(* Remediation plans *)

LEMMA PlanInitIsTyped == PlanInit => PlanTypeOK
  <1> SUFFICES ASSUME PlanInit PROVE PlanTypeOK
    OBVIOUS
  <1>1. AllPlanned \in [Checkpoints -> CheckpointStatuses]
    BY DEF AllPlanned, CheckpointStatuses
  <1>2. DOMAIN index = Requests /\ value \in [Requests -> CheckpointStatuses]
    BY DEF PlanInit, CheckpointStatuses
  <1>3. snapshot \in [Requests -> [Checkpoints -> CheckpointStatuses]]
    BY <1>1 DEF PlanInit
  <1>4. QED
    BY <1>1, <1>2, <1>3 DEF PlanInit, PlanTypeOK, Decisions

LEMMA PlanStepIsTyped == PlanTypeOK /\ [PlanNext]_remediationVars => PlanTypeOK'
  <1> SUFFICES ASSUME PlanTypeOK, [PlanNext]_remediationVars PROVE PlanTypeOK'
    OBVIOUS
  <1>1. ASSUME NEW refs \in SUBSET Refs, CreatePlan(refs) PROVE PlanTypeOK'
    BY <1>1 DEF CreatePlan, requestVars, PlanTypeOK, Decisions
  <1>2. ASSUME NEW c \in Requests, NEW decision \in Decisions, DecidePlan(c, decision)
        PROVE  PlanTypeOK'
    BY <1>2 DEF DecidePlan, requestVars, PlanTypeOK, Decisions
  <1>3. ASSUME NEW c \in Requests, NEW i \in Checkpoints, NEW v \in Progress, ReadPlan(c, i, v)
        PROVE  PlanTypeOK'
    BY <1>3 DEF ReadPlan, planVars, PlanTypeOK, CheckpointStatuses
  <1>4. ASSUME NEW c \in Requests, WriteCheckpoint(c) PROVE PlanTypeOK'
    <2>1. /\ [snapshot[c] EXCEPT ![index[c]] = value[c]] \in [Checkpoints -> CheckpointStatuses]
          /\ [acked EXCEPT ![index[c]] = value[c]] \in [Checkpoints -> CheckpointStatuses]
      BY <1>4 DEF WriteCheckpoint, PlanTypeOK
    <2>2. /\ checkpoints' \in [Checkpoints -> CheckpointStatuses]
          /\ acked' \in [Checkpoints -> CheckpointStatuses]
      BY <1>4, <2>1 DEF WriteCheckpoint, PlanTypeOK
    <2>3. QED
      BY <1>4, <2>2 DEF WriteCheckpoint, PlanTypeOK
  <1>5. ASSUME NEW c \in Requests, Abandon(c) PROVE PlanTypeOK'
    BY <1>5 DEF Abandon, planVars, PlanTypeOK
  <1>6. CASE UNCHANGED remediationVars
    BY <1>6 DEF remediationVars, planVars, requestVars, PlanTypeOK
  <1>7. QED
    BY <1>1, <1>2, <1>3, <1>4, <1>5, <1>6 DEF PlanNext

\* A plan is typed, and decided exactly when it records who decided.
THEOREM PlansAreTyped == PlanSpec => []PlanTypeOK
  BY PlanInitIsTyped, PlanStepIsTyped, PTL DEF PlanSpec

\* A completed or cancelled plan is frozen: neither a second decision nor the
\* checkpoint update of a request that read the plan while it was open, in any
\* interleaving, changes a column of it.
THEOREM DecidedPlansAreFrozen == PlanSpec => DecisionIsFinal
  <1>1. [PlanNext]_remediationVars
          => [(planStatus \in Decisions) => UNCHANGED planVars]_remediationVars
    <2> SUFFICES ASSUME PlanNext, planStatus \in Decisions PROVE UNCHANGED planVars
      OBVIOUS
    <2>1. planStatus \notin {"absent", "OPEN"}
      BY DEF Decisions
    <2>2. QED
      BY <2>1 DEF PlanNext, CreatePlan, DecidePlan, ReadPlan, WriteCheckpoint, Abandon, planVars
  <1>2. QED
    BY <1>1, PTL DEF PlanSpec, DecisionIsFinal

-----------------------------------------------------------------------------
(* Sums over finite sets.  No theorem of the library is about a fold, so    *)
(* they are done from the definition: what MapThenFoldSet chooses exists    *)
(* (by least counterexample), is unique, and adds up.                       *)

LEMMA LeastInSet ==
    ASSUME NEW S \in SUBSET Nat, S # {}
    PROVE  \E m \in S : \A n \in S : m <= n
  <1>1. PICK m \in S : \A n \in S : <<n, m>> \notin OpToRel(<, Nat)
    BY NatLessThanWellFounded, WFMin
  <1>2. \A n \in S : m <= n
    <2>1. \A n \in S : n \in Nat /\ m \in Nat
      OBVIOUS
    <2>2. \A n \in S : ~(n < m)
      BY <1>1, <2>1 DEF OpToRel
    <2>3. QED
      BY <2>1, <2>2
  <1>3. QED
    BY <1>2

\* A set of subsets of S that has the empty set, and every set all of whose
\* parts it has, has them all.
LEMMA PartsInduction ==
    ASSUME NEW S, IsFiniteSet(S), NEW H \in SUBSET (SUBSET S), {} \in H,
           \A s \in SUBSET S : s # {} /\ (\A x \in s : s \ {x} \in H) => s \in H
    PROVE  H = SUBSET S
  <1> SUFFICES ASSUME NEW bad \in SUBSET S, bad \notin H PROVE FALSE
    OBVIOUS
  <1> DEFINE sizes == {Cardinality(s) : s \in (SUBSET S) \ H}
  <1>1. \A s \in SUBSET S : IsFiniteSet(s) /\ Cardinality(s) \in Nat
    BY FS_Subset, FS_CardinalityType
  <1>2. PICK s \in (SUBSET S) \ H : \A t \in (SUBSET S) \ H : Cardinality(s) <= Cardinality(t)
    <2>1. sizes \in SUBSET Nat /\ sizes # {}
      BY <1>1
    <2>2. PICK n \in sizes : \A m \in sizes : n <= m
      BY <2>1, LeastInSet
    <2>3. QED
      BY <2>2
  <1>3. s # {} /\ s \in SUBSET S
    BY <1>2
  <1>4. ASSUME NEW x \in s PROVE s \ {x} \in H
    <2>1. Cardinality(s \ {x}) = Cardinality(s) - 1
      BY <1>1, <1>3, FS_RemoveElement
    <2>2. ~(Cardinality(s) <= Cardinality(s \ {x})) /\ s \ {x} \in SUBSET S
      BY <1>1, <1>3, <2>1
    <2>3. QED
      BY <1>2, <2>2
  <1>5. QED
    BY <1>2, <1>3, <1>4

Pick(s) == CHOOSE x \in s : TRUE

\* The recursive function of SumFunctionOnSet.
Sums(f, S, it) ==
    it = [s \in SUBSET S |-> IF s = {} THEN 0 ELSE f[Pick(s)] + it[s \ {Pick(s)}]]

LEMMA SumIsLast ==
    ASSUME NEW f, NEW S, \E it : Sums(f, S, it)
    PROVE  \E it : Sums(f, S, it) /\ SumFunctionOnSet(f, S) = it[S]
  <1> DEFINE last == CHOOSE it : Sums(f, S, it)
  <1>1. Sums(f, S, last)
    OBVIOUS
  <1>2. SumFunctionOnSet(f, S) = last[S]
    BY DEF SumFunctionOnSet, FoldFunctionOnSet, MapThenFoldSet, Sums, Pick
  <1>3. QED
    BY <1>1, <1>2

LEMMA NumbersInduction ==
    ASSUME NEW H \in SUBSET Nat, 0 \in H, \A n \in H : n + 1 \in H
    PROVE  H = Nat
  <1> SUFFICES ASSUME Nat \ H # {} PROVE FALSE
    OBVIOUS
  <1>1. PICK n \in Nat \ H : \A m \in Nat \ H : n <= m
    <2>1. Nat \ H \in SUBSET Nat
      OBVIOUS
    <2>2. QED
      BY <2>1, LeastInSet
  <1>2. n # 0
    BY <1>1
  <1>3. n - 1 \in Nat /\ (n - 1) + 1 = n /\ ~(n <= n - 1)
    BY <1>1, <1>2
  <1>4. n - 1 \in H
    BY <1>1, <1>3
  <1>5. QED
    BY <1>1, <1>3, <1>4

Summable(f, S) == IsFiniteSet(S) /\ \A x \in S : f[x] \in Nat

LEMMA SumsExist ==
    ASSUME NEW S, NEW f, Summable(f, S)
    PROVE  \E it \in [SUBSET S -> Nat] : Sums(f, S, it)
  <1> USE DEF Summable
  <1> DEFINE next(it) == [s \in SUBSET S |-> IF s = {} THEN 0 ELSE f[Pick(s)] + it[s \ {Pick(s)}]]
             upTo(n, it) == \A s \in SUBSET S : Cardinality(s) <= n => it[s] = next(it)[s]
             H == {n \in Nat : \E it \in [SUBSET S -> Nat] : upTo(n, it)}
  <1>1. \A s \in SUBSET S : IsFiniteSet(s) /\ Cardinality(s) \in Nat
    BY FS_Subset, FS_CardinalityType
  <1>2. \A s \in SUBSET S : s # {} => /\ Pick(s) \in s /\ s \ {Pick(s)} \in SUBSET S
                                      /\ Cardinality(s \ {Pick(s)}) = Cardinality(s) - 1
    <2> SUFFICES ASSUME NEW s \in SUBSET S, s # {}
                 PROVE  Pick(s) \in s /\ Cardinality(s \ {Pick(s)}) = Cardinality(s) - 1
      OBVIOUS
    <2>1. Pick(s) \in s
      BY DEF Pick
    <2>2. QED
      BY <1>1, <2>1, FS_RemoveElement
  <1>3. \A it \in [SUBSET S -> Nat] : next(it) \in [SUBSET S -> Nat]
    <2> SUFFICES ASSUME NEW it \in [SUBSET S -> Nat], NEW s \in SUBSET S
                 PROVE  (IF s = {} THEN 0 ELSE f[Pick(s)] + it[s \ {Pick(s)}]) \in Nat
      OBVIOUS
    <2>1. CASE s # {}
      <3>1. f[Pick(s)] \in Nat /\ it[s \ {Pick(s)}] \in Nat
        BY <1>2, <2>1
      <3>2. QED
        BY <2>1, <3>1
    <2>2. QED
      BY <2>1
  <1>4. 0 \in H
    <2> DEFINE zero == [s \in SUBSET S |-> 0]
    <2>1. zero \in [SUBSET S -> Nat]
      OBVIOUS
    <2>2. upTo(0, zero)
      <3> SUFFICES ASSUME NEW s \in SUBSET S, Cardinality(s) <= 0
                   PROVE  zero[s] = next(zero)[s]
        OBVIOUS
      <3>1. s = {}
        BY <1>1, FS_EmptySet
      <3>2. QED
        BY <3>1
    <2>3. QED
      BY <2>1, <2>2
  <1>5. ASSUME NEW n \in H PROVE n + 1 \in H
    <2>1. PICK it \in [SUBSET S -> Nat] : upTo(n, it)
      OBVIOUS
    <2>2. upTo(n + 1, next(it))
      <3> SUFFICES ASSUME NEW s \in SUBSET S, Cardinality(s) <= n + 1
                   PROVE  next(it)[s] = next(next(it))[s]
        OBVIOUS
      <3>1. CASE s = {}
        BY <3>1
      <3>2. CASE s # {}
        <4> DEFINE rest == s \ {Pick(s)}
        <4>1. rest \in SUBSET S /\ Cardinality(rest) <= n
          BY <1>1, <1>2, <3>2
        <4>2. it[rest] = next(it)[rest]
          BY <2>1, <4>1
        <4>3. next(it)[s] = f[Pick(s)] + it[rest]
          BY <3>2
        <4>4. next(next(it))[s] = f[Pick(s)] + next(it)[rest]
          BY <3>2
        <4> HIDE DEF next, rest
        <4>5. QED
          BY <4>2, <4>3, <4>4
      <3>3. QED
        BY <3>1, <3>2
    <2>3. next(it) \in [SUBSET S -> Nat]
      BY <1>3
    <2> HIDE DEF next, upTo
    <2>4. n + 1 \in Nat
      OBVIOUS
    <2>5. QED
      BY <2>2, <2>3, <2>4
  <1> HIDE DEF upTo
  <1>6. H \in SUBSET Nat
    OBVIOUS
  <1>7. Cardinality(S) \in H
    <2> HIDE DEF H
    <2>1. H = Nat
      BY <1>4, <1>5, <1>6, NumbersInduction
    <2>2. QED
      BY <1>1, <2>1
  <1>8. PICK it \in [SUBSET S -> Nat] : upTo(Cardinality(S), it)
    BY <1>7
  <1>9. \A s \in SUBSET S : it[s] = next(it)[s]
    <2>1. \A s \in SUBSET S : Cardinality(s) <= Cardinality(S)
      BY FS_Subset
    <2>2. QED
      BY <1>8, <2>1 DEF upTo
  <1>10. it = next(it)
    <2>1. next(it) \in [SUBSET S -> Nat]
      BY <1>3
    <2> HIDE DEF next
    <2>2. QED
      BY <1>9, <2>1
  <1>11. QED
    BY <1>10 DEF Sums

\* The sums over the parts of S, whatever element is taken first.
SumTable(f, S, it) ==
    /\ it \in [SUBSET S -> Nat] /\ it[{}] = 0
    /\ \A s \in SUBSET S : \A x \in s : it[s] = f[x] + it[s \ {x}]

LEMMA SumSteps ==
    ASSUME NEW S, NEW f, Summable(f, S),
           NEW it \in [SUBSET S -> Nat], Sums(f, S, it)
    PROVE  SumTable(f, S, it)
  <1> USE DEF Summable
  <1> DEFINE H == {s \in SUBSET S : \A x \in s : it[s] = f[x] + it[s \ {x}]}
  <1>1. \A s \in SUBSET S :
            it[s] = IF s = {} THEN 0 ELSE f[Pick(s)] + it[s \ {Pick(s)}]
    BY DEF Sums
  <1>2. {} \in H
    OBVIOUS
  <1>3. ASSUME NEW s \in SUBSET S, s # {}, \A x \in s : s \ {x} \in H, NEW x \in s
        PROVE  it[s] = f[x] + it[s \ {x}]
    <2> DEFINE y == Pick(s)
    <2>1. y \in s /\ it[s] = f[y] + it[s \ {y}]
      BY <1>1, <1>3 DEF Pick
    <2> HIDE DEF y
    <2>2. CASE x = y
      BY <2>1, <2>2
    <2>3. CASE x # y
      <3> DEFINE rest == (s \ {y}) \ {x}
      <3>1. rest = (s \ {x}) \ {y} /\ x \in s \ {y} /\ y \in s \ {x} /\ rest \in SUBSET S
        BY <2>1, <2>3
      <3>2. it[s \ {y}] = f[x] + it[rest]
        BY <1>3, <2>1, <3>1
      <3>3. it[s \ {x}] = f[y] + it[rest]
        BY <1>3, <3>1
      <3>4. it[rest] \in Nat /\ f[x] \in Nat /\ f[y] \in Nat
        BY <2>1, <3>1
      <3> HIDE DEF rest
      <3>5. QED
        BY <2>1, <3>2, <3>3, <3>4
    <2>4. QED
      BY <2>2, <2>3
  <1>4. H = SUBSET S
    <2>1. H \in SUBSET (SUBSET S)
      OBVIOUS
    <2>2. \A s \in SUBSET S : s # {} /\ (\A x \in s : s \ {x} \in H) => s \in H
      BY <1>3
    <2> HIDE DEF H
    <2>3. QED
      BY <1>2, <2>1, <2>2, PartsInduction
  <1>5. QED
    BY <1>1, <1>4 DEF SumTable

\* The sum over a set is given by such a table.
LEMMA SumsAreTabled ==
    ASSUME NEW S, NEW f, Summable(f, S)
    PROVE  \E it : SumTable(f, S, it) /\ SumFunctionOnSet(f, S) = it[S]
  <1> USE DEF Summable
  <1>1. PICK it : Sums(f, S, it) /\ SumFunctionOnSet(f, S) = it[S]
    BY SumsExist, SumIsLast
  <1>2. it \in [SUBSET S -> Nat]
    <2> DEFINE H == {s \in SUBSET S : it[s] \in Nat}
    <2>1. \A s \in SUBSET S :
              it[s] = IF s = {} THEN 0 ELSE f[Pick(s)] + it[s \ {Pick(s)}]
      BY <1>1 DEF Sums
    <2>2. H \in SUBSET (SUBSET S) /\ {} \in H
      <3>1. {} \in SUBSET S /\ it[{}] = 0 /\ 0 \in Nat
        BY <2>1
      <3>2. QED
        BY <3>1
    <2>3. ASSUME NEW s \in SUBSET S, s # {}, \A x \in s : s \ {x} \in H
          PROVE  s \in H
      <3>1. Pick(s) \in s
        BY <2>3 DEF Pick
      <3>2. it[s] = f[Pick(s)] + it[s \ {Pick(s)}]
        BY <2>1, <2>3
      <3>3. f[Pick(s)] \in Nat /\ it[s \ {Pick(s)}] \in Nat
        BY <2>3, <3>1
      <3>4. QED
        BY <3>2, <3>3
    <2>4. H = SUBSET S
      <3> HIDE DEF H
      <3>1. QED
        BY <2>2, <2>3, PartsInduction
    <2>5. it = [s \in SUBSET S |-> it[s]]
      BY <1>1 DEF Sums
    <2>6. QED
      BY <2>4, <2>5
  <1>3. SumTable(f, S, it)
    <2> HIDE DEF Summable
    <2>1. QED
      BY <1>1, <1>2, SumSteps
  <1>4. QED
    BY <1>1, <1>2, <1>3

\* The sum of two functions that need not have the same arguments.
LEMMA SumsAdd ==
    ASSUME NEW S, NEW f, Summable(f, S), NEW A \in SUBSET S, NEW g, Summable(g, A),
           NEW B \in SUBSET S, NEW h, Summable(h, B),
           \A x \in S : f[x] = (IF x \in A THEN g[x] ELSE 0) + (IF x \in B THEN h[x] ELSE 0)
    PROVE  SumFunctionOnSet(f, S) = SumFunctionOnSet(g, A) + SumFunctionOnSet(h, B)
  <1>1. PICK fs : SumTable(f, S, fs) /\ SumFunctionOnSet(f, S) = fs[S]
    BY SumsAreTabled
  <1>2. PICK gs : SumTable(g, A, gs) /\ SumFunctionOnSet(g, A) = gs[A]
    BY SumsAreTabled
  <1>3. PICK hs : SumTable(h, B, hs) /\ SumFunctionOnSet(h, B) = hs[B]
    BY SumsAreTabled
  <1> DEFINE H == {s \in SUBSET S : fs[s] = gs[s \intersect A] + hs[s \intersect B]}
  <1>4. H \in SUBSET (SUBSET S) /\ {} \in H
    <2>1. fs[{}] = 0 /\ gs[{}] = 0 /\ hs[{}] = 0
      BY <1>1, <1>2, <1>3 DEF SumTable
    <2>2. {} \intersect A = {} /\ {} \intersect B = {} /\ {} \in SUBSET S
      OBVIOUS
    <2>3. fs[{}] = gs[{} \intersect A] + hs[{} \intersect B]
      BY <2>1, <2>2
    <2>4. QED
      BY <2>2, <2>3
  <1>5. ASSUME NEW s \in SUBSET S, s # {}, \A x \in s : s \ {x} \in H
        PROVE  s \in H
    <2>1. PICK x \in s : x \in S
      BY <1>5
    <2> DEFINE rest == s \ {x}
    <2>2. fs[s] = f[x] + fs[rest]
      BY <1>1 DEF SumTable
    <2>3. rest \in SUBSET S /\ fs[rest] = gs[rest \intersect A] + hs[rest \intersect B]
      BY <1>5
    <2>4. gs[s \intersect A] = (IF x \in A THEN g[x] ELSE 0) + gs[rest \intersect A]
          /\ gs[rest \intersect A] \in Nat
      <3>1. rest \intersect A \in SUBSET A /\ s \intersect A \in SUBSET A
        OBVIOUS
      <3>2. gs[rest \intersect A] \in Nat
        BY <1>2, <3>1 DEF SumTable
      <3>3. CASE x \in A
        <4>1. x \in s \intersect A /\ (s \intersect A) \ {x} = rest \intersect A
          BY <3>3
        <4>2. gs[s \intersect A] = g[x] + gs[(s \intersect A) \ {x}]
          BY <1>2, <3>1, <4>1 DEF SumTable
        <4>3. QED
          BY <3>2, <3>3, <4>1, <4>2
      <3>4. CASE x \notin A
        <4>1. s \intersect A = rest \intersect A
          BY <3>4
        <4>2. QED
          BY <3>2, <3>4, <4>1
      <3>5. QED
        BY <3>2, <3>3, <3>4
    <2>5. hs[s \intersect B] = (IF x \in B THEN h[x] ELSE 0) + hs[rest \intersect B]
          /\ hs[rest \intersect B] \in Nat
      <3>1. rest \intersect B \in SUBSET B /\ s \intersect B \in SUBSET B
        OBVIOUS
      <3>2. hs[rest \intersect B] \in Nat
        BY <1>3, <3>1 DEF SumTable
      <3>3. CASE x \in B
        <4>1. x \in s \intersect B /\ (s \intersect B) \ {x} = rest \intersect B
          BY <3>3
        <4>2. hs[s \intersect B] = h[x] + hs[(s \intersect B) \ {x}]
          BY <1>3, <3>1, <4>1 DEF SumTable
        <4>3. QED
          BY <3>2, <3>3, <4>1, <4>2
      <3>4. CASE x \notin B
        <4>1. s \intersect B = rest \intersect B
          BY <3>4
        <4>2. QED
          BY <3>2, <3>4, <4>1
      <3>5. QED
        BY <3>2, <3>3, <3>4
    <2>6. (x \in A => g[x] \in Nat) /\ (x \in B => h[x] \in Nat)
      BY DEF Summable
    <2>7. f[x] = (IF x \in A THEN g[x] ELSE 0) + (IF x \in B THEN h[x] ELSE 0)
      BY <2>1
    <2> HIDE DEF rest
    <2>8. fs[s] = gs[s \intersect A] + hs[s \intersect B]
      BY <2>2, <2>3, <2>4, <2>5, <2>6, <2>7
    <2>9. QED
      BY <2>8
  <1>6. H = SUBSET S
    <2>1. IsFiniteSet(S)
      BY DEF Summable
    <2> HIDE DEF H
    <2>2. QED
      BY <1>4, <1>5, <2>1, PartsInduction
  <1>7. fs[S] = gs[S \intersect A] + hs[S \intersect B] /\ S \intersect A = A /\ S \intersect B = B
    BY <1>6
  <1>8. QED
    BY <1>1, <1>2, <1>3, <1>7

LEMMA SumIsNumber ==
    ASSUME NEW S, NEW f, Summable(f, S)
    PROVE  SumFunctionOnSet(f, S) \in Nat /\ (S = {} => SumFunctionOnSet(f, S) = 0)
  <1>1. PICK it : SumTable(f, S, it) /\ SumFunctionOnSet(f, S) = it[S]
    BY SumsAreTabled
  <1>2. QED
    BY <1>1 DEF SumTable

\* The sums of one and of two numbers.
LEMMA SumOfOne ==
    ASSUME NEW f, NEW x, f[x] \in Nat
    PROVE  SumFunctionOnSet(f, {x}) = f[x]
  <1>1. Summable(f, {x})
    BY FS_Singleton DEF Summable
  <1>2. PICK it : SumTable(f, {x}, it) /\ SumFunctionOnSet(f, {x}) = it[{x}]
    BY <1>1, SumsAreTabled
  <1>3. {x} \ {x} = {} /\ {x} \in SUBSET {x} /\ x \in {x}
    OBVIOUS
  <1>4. it[{x}] = f[x] + it[{x} \ {x}] /\ it[{}] = 0
    BY <1>2, <1>3 DEF SumTable
  <1>5. it[{x}] = f[x] + it[{}]
    BY <1>3, <1>4
  <1>6. QED
    BY <1>2, <1>4, <1>5

LEMMA SumOfTwo ==
    ASSUME NEW f, f[1] \in Nat, f[2] \in Nat
    PROVE  SumFunctionOnSet(f, {1, 2}) = f[1] + f[2]
  <1>1. IsFiniteSet({1, 2})
    <2>1. IsFiniteSet({1}) /\ {1, 2} = {1} \union {2}
      BY FS_Singleton
    <2>2. IsFiniteSet({1} \union {2})
      BY <2>1, FS_AddElement
    <2>3. QED
      BY <2>1, <2>2
  <1>2. Summable(f, {1, 2})
    BY <1>1 DEF Summable
  <1>3. PICK it : SumTable(f, {1, 2}, it) /\ SumFunctionOnSet(f, {1, 2}) = it[{1, 2}]
    BY <1>2, SumsAreTabled
  <1>4. /\ {1, 2} \ {1} = {2} /\ {2} \ {2} = {}
        /\ {1, 2} \in SUBSET {1, 2} /\ {2} \in SUBSET {1, 2} /\ 1 \in {1, 2} /\ 2 \in {2}
    OBVIOUS
  <1>5. /\ it[{1, 2}] = f[1] + it[{1, 2} \ {1}]
        /\ it[{2}] = f[2] + it[{2} \ {2}]
        /\ it[{}] = 0
    BY <1>3, <1>4 DEF SumTable
  <1>6. it[{1, 2}] = f[1] + it[{2}] /\ it[{2}] = f[2] + it[{}]
    BY <1>4, <1>5
  <1>7. it[{2}] = f[2]
    BY <1>5, <1>6
  <1>8. QED
    BY <1>3, <1>6, <1>7

-----------------------------------------------------------------------------
(* The coverage of a result *)

\* The counts by source add up to the number of ids.
LEMMA CountsAddUp ==
    ASSUME NEW ids, IsFiniteSet(ids)
    PROVE  SumFunction(CountBySource(ids)) = Cardinality(ids)
  <1> DEFINE sources == {SourceOf[i] : i \in ids}
             of(t) == {i \in ids : SourceOf[i] \in t}
             count == CountBySource(ids)
  <1>1. DOMAIN count = sources /\ \A x \in sources : count[x] = Cardinality({i \in ids : SourceOf[i] = x})
    BY DEF CountBySource
  <1>2. \A ps \in SUBSET ids : IsFiniteSet(ps) /\ Cardinality(ps) \in Nat
    BY FS_Subset, FS_CardinalityType
  <1>3. Summable(count, sources)
    <2>1. IsFiniteSet(sources)
      <3> DEFINE source == [i \in ids |-> SourceOf[i]]
      <3>1. source \in Surjection(ids, sources)
        BY DEF Surjection
      <3> HIDE DEF source, sources
      <3>2. QED
        BY <3>1, FS_Surjection
    <2>2. \A x \in sources : {i \in ids : SourceOf[i] = x} \in SUBSET ids
      OBVIOUS
    <2> HIDE DEF count, sources
    <2>3. QED
      BY <1>1, <1>2, <2>1, <2>2 DEF Summable
  <1> HIDE DEF count
  <1>4. PICK it : SumTable(count, sources, it) /\ SumFunctionOnSet(count, sources) = it[sources]
    BY <1>3, SumsAreTabled
  <1> DEFINE H == {t \in SUBSET sources : it[t] = Cardinality(of(t))}
  <1>5. H \in SUBSET (SUBSET sources) /\ {} \in H
    <2>1. it[{}] = 0 /\ of({}) = {} /\ Cardinality({}) = 0
      BY <1>4, FS_EmptySet DEF SumTable
    <2>2. QED
      BY <2>1
  <1>6. ASSUME NEW t \in SUBSET sources, t # {}, \A x \in t : t \ {x} \in H
        PROVE  t \in H
    <2>1. PICK x \in t : x \in sources
      BY <1>6
    <2> DEFINE rest == of(t \ {x})
               own == {i \in ids : SourceOf[i] = x}
    <2>2. /\ of(t) = rest \union own /\ rest \intersect own = {}
          /\ rest \in SUBSET ids /\ own \in SUBSET ids
      BY <2>1
    <2>3. Cardinality(of(t)) = Cardinality(rest) + Cardinality(own)
      <3> HIDE DEF rest, own
      <3>1. /\ IsFiniteSet(rest) /\ IsFiniteSet(own)
            /\ Cardinality(rest) \in Nat /\ Cardinality(own) \in Nat
            /\ Cardinality(rest \intersect own) = 0
        BY <1>2, <2>2, FS_EmptySet
      <3>2. Cardinality(rest \union own)
                = Cardinality(rest) + Cardinality(own) - Cardinality(rest \intersect own)
        BY <3>1, FS_Union
      <3> HIDE DEF of
      <3>3. QED
        BY <2>2, <3>1, <3>2
    <2>4. it[t] = count[x] + it[t \ {x}]
      BY <1>4 DEF SumTable
    <2>5. count[x] = Cardinality(own) /\ it[t \ {x}] = Cardinality(rest)
      BY <1>1, <1>6, <2>1
    <2>6. Cardinality(rest) \in Nat /\ Cardinality(own) \in Nat
      BY <1>2, <2>2
    <2> HIDE DEF of, rest, own
    <2>7. it[t] = Cardinality(of(t))
      BY <2>3, <2>4, <2>5, <2>6
    <2>8. QED
      BY <2>7
  <1>7. H = SUBSET sources
    <2>1. IsFiniteSet(sources)
      BY <1>3 DEF Summable
    <2> HIDE DEF H, sources
    <2>2. QED
      BY <1>5, <1>6, <2>1, PartsInduction
  <1>8. of(sources) = ids
    OBVIOUS
  <1>9. it[sources] = Cardinality(of(sources))
    BY <1>7
  <1>10. SumFunction(count) = SumFunctionOnSet(count, sources)
    BY <1>1 DEF SumFunction
  <1> HIDE DEF of, sources
  <1>11. QED
    BY <1>4, <1>8, <1>9, <1>10 DEF count

\* A bucket of a report.
Reported(b) ==
    /\ b.total \in Nat /\ b.note \in BOOLEAN /\ b.items \in Seq(Items \union Phantoms)
    /\ b.bySource = NoBreakdown \/ Breakdown(b.bySource)

\* The buckets of the ports: the collector's and the judgment's, if any.
Reports(bs) == (bs = <<bs[1]>> \/ bs = <<bs[1], bs[2]>>) /\ \A n \in DOMAIN bs : Reported(bs[n])

\* What a bucket counts by source, and on which sources.
Named(b) == IF b.bySource = NoBreakdown THEN {} ELSE DOMAIN b.bySource
Given(b) == IF b.bySource = NoBreakdown THEN 0 ELSE SumFunction(b.bySource)

LEMMA GivenSum ==
    ASSUME NEW b, Reported(b)
    PROVE  /\ Summable(b.bySource, Named(b))
           /\ SumFunctionOnSet(b.bySource, Named(b)) = Given(b)
  <1>1. CASE b.bySource = NoBreakdown
    <2>1. Named(b) = {} /\ Given(b) = 0
      BY <1>1 DEF Named, Given
    <2>2. Summable(b.bySource, {})
      BY FS_EmptySet DEF Summable
    <2>3. QED
      BY <2>1, <2>2, SumIsNumber
  <1>2. CASE b.bySource # NoBreakdown
    BY <1>2 DEF Reported, Breakdown, Named, Given, Summable, SumFunction
  <1>3. QED
    BY <1>1, <1>2

\* The count of a source in the merged breakdown.
CountIn(bs, s) ==
    SumFunction([n \in {m \in {k \in DOMAIN bs : bs[k].bySource # NoBreakdown} :
                            s \in DOMAIN bs[m].bySource} |-> bs[n].bySource[s]])

LEMMA BreakdownIs ==
    ASSUME NEW bs
    PROVE  LET named == UNION {Named(bs[n]) : n \in DOMAIN bs}
           IN  BreakdownOf(bs) = IF named = {} THEN NoBreakdown
                                 ELSE [s \in named |-> CountIn(bs, s)]
  <1>1. UNION {DOMAIN bs[n].bySource : n \in {k \in DOMAIN bs : bs[k].bySource # NoBreakdown}}
            = UNION {Named(bs[n]) : n \in DOMAIN bs}
    BY DEF Named
  <1>2. QED
    BY <1>1 DEF BreakdownOf, CountIn

LEMMA CountOfOne ==
    ASSUME NEW a, Reported(a), NEW s
    PROVE  CountIn(<<a>>, s) = IF s \in Named(a) THEN a.bySource[s] ELSE 0
  <1> DEFINE at == {m \in {k \in DOMAIN <<a>> : <<a>>[k].bySource # NoBreakdown} :
                      s \in DOMAIN <<a>>[m].bySource}
             f == [n \in at |-> <<a>>[n].bySource[s]]
  <1>1. at = IF s \in Named(a) THEN {1} ELSE {}
    BY DEF Named
  <1>2. CountIn(<<a>>, s) = SumFunctionOnSet(f, at)
    BY DEF CountIn, SumFunction
  <1>3. CASE s \in Named(a)
    <2>1. f[1] = a.bySource[s] /\ a.bySource[s] \in Nat
      BY <1>1, <1>3 DEF Named, Reported, Breakdown
    <2> HIDE DEF f, at
    <2>2. QED
      BY <1>1, <1>2, <1>3, <2>1, SumOfOne
  <1>4. CASE s \notin Named(a)
    <2> HIDE DEF f
    <2>1. at = {} /\ Summable(f, {})
      BY <1>1, <1>4, FS_EmptySet DEF Summable
    <2> HIDE DEF at
    <2>2. QED
      BY <1>2, <1>4, <2>1, SumIsNumber
  <1>5. QED
    BY <1>3, <1>4

LEMMA CountOfTwo ==
    ASSUME NEW a, Reported(a), NEW b, Reported(b), NEW s
    PROVE  CountIn(<<a, b>>, s) = (IF s \in Named(a) THEN a.bySource[s] ELSE 0)
                                     + (IF s \in Named(b) THEN b.bySource[s] ELSE 0)
  <1> DEFINE at == {m \in {k \in DOMAIN <<a, b>> : <<a, b>>[k].bySource # NoBreakdown} :
                      s \in DOMAIN <<a, b>>[m].bySource}
             f == [n \in at |-> <<a, b>>[n].bySource[s]]
  <1>1. /\ at \subseteq {1, 2}
        /\ 1 \in at <=> s \in Named(a)
        /\ 2 \in at <=> s \in Named(b)
    BY DEF Named
  <1>2. CountIn(<<a, b>>, s) = SumFunctionOnSet(f, at)
    BY DEF CountIn, SumFunction
  <1>3. /\ s \in Named(a) => f[1] = a.bySource[s] /\ a.bySource[s] \in Nat
        /\ s \in Named(b) => f[2] = b.bySource[s] /\ b.bySource[s] \in Nat
    BY <1>1 DEF Named, Reported, Breakdown
  <1> HIDE DEF f, at
  <1>4. CASE s \in Named(a) /\ s \in Named(b)
    <2>1. at = {1, 2}
      BY <1>1, <1>4
    <2>2. QED
      BY <1>2, <1>3, <1>4, <2>1, SumOfTwo
  <1>5. CASE s \in Named(a) /\ s \notin Named(b)
    <2>1. at = {1}
      BY <1>1, <1>5
    <2>2. QED
      BY <1>2, <1>3, <1>5, <2>1, SumOfOne
  <1>6. CASE s \notin Named(a) /\ s \in Named(b)
    <2>1. at = {2}
      BY <1>1, <1>6
    <2>2. QED
      BY <1>2, <1>3, <1>6, <2>1, SumOfOne
  <1>7. CASE s \notin Named(a) /\ s \notin Named(b)
    <2>1. at = {} /\ Summable(f, {})
      BY <1>1, <1>7, FS_EmptySet DEF Summable
    <2>2. QED
      BY <1>2, <1>7, <2>1, SumIsNumber
  <1>8. QED
    BY <1>4, <1>5, <1>6, <1>7

LEMMA MergedSumOfOne ==
    ASSUME NEW a, Reported(a)
    PROVE  LET merged == BreakdownOf(<<a>>)
           IN  merged = NoBreakdown \/ SumFunction(merged) = Given(a)
  <1> DEFINE merged == [s \in Named(a) |-> CountIn(<<a>>, s)]
  <1>1. UNION {Named(<<a>>[n]) : n \in DOMAIN <<a>>} = Named(a)
    OBVIOUS
  <1>2. BreakdownOf(<<a>>) \in {NoBreakdown, merged}
    BY <1>1, BreakdownIs
  <1>3. \A s \in Named(a) : merged[s] = a.bySource[s] /\ a.bySource[s] \in Nat
    BY CountOfOne, GivenSum DEF Summable
  <1>4. Summable(merged, Named(a)) /\ DOMAIN merged = Named(a)
    BY <1>3, GivenSum DEF Summable
  <1> HIDE DEF merged
  <1>5. \A s \in Named(a) :
            merged[s] = (IF s \in Named(a) THEN a.bySource[s] ELSE 0)
                            + (IF s \in {} THEN a.bySource[s] ELSE 0)
    BY <1>3
  <1>6. Summable(a.bySource, {}) /\ {} \in SUBSET Named(a)
    BY FS_EmptySet DEF Summable
  <1>7. SumFunctionOnSet(merged, Named(a)) = Given(a) + 0
    <2>1. SumFunctionOnSet(a.bySource, {}) = 0
      BY <1>6, SumIsNumber
    <2>2. Summable(a.bySource, Named(a)) /\ Named(a) \in SUBSET Named(a)
          /\ SumFunctionOnSet(a.bySource, Named(a)) = Given(a)
      BY GivenSum
    <2>3. SumFunctionOnSet(merged, Named(a))
              = SumFunctionOnSet(a.bySource, Named(a)) + SumFunctionOnSet(a.bySource, {})
      BY <1>4, <1>5, <1>6, <2>2, SumsAdd
    <2>4. QED
      BY <2>1, <2>2, <2>3
  <1>8. Given(a) \in Nat
    BY GivenSum, SumIsNumber
  <1>9. QED
    BY <1>2, <1>4, <1>7, <1>8 DEF SumFunction

LEMMA MergedSumOfTwo ==
    ASSUME NEW a, Reported(a), NEW b, Reported(b)
    PROVE  LET merged == BreakdownOf(<<a, b>>)
           IN  merged = NoBreakdown \/ SumFunction(merged) = Given(a) + Given(b)
  <1> DEFINE named == Named(a) \union Named(b)
             merged == [s \in named |-> CountIn(<<a, b>>, s)]
  <1>1. UNION {Named(<<a, b>>[n]) : n \in DOMAIN <<a, b>>} = named
    <2>1. DOMAIN <<a, b>> = {1, 2} /\ <<a, b>>[1] = a /\ <<a, b>>[2] = b
      OBVIOUS
    <2>2. QED
      BY <2>1
  <1>2. BreakdownOf(<<a, b>>) \in {NoBreakdown, merged}
    BY <1>1, BreakdownIs
  <1>3. /\ Summable(a.bySource, Named(a)) /\ SumFunctionOnSet(a.bySource, Named(a)) = Given(a)
        /\ Summable(b.bySource, Named(b)) /\ SumFunctionOnSet(b.bySource, Named(b)) = Given(b)
    BY GivenSum
  <1>4. \A s \in named :
            merged[s] = (IF s \in Named(a) THEN a.bySource[s] ELSE 0)
                            + (IF s \in Named(b) THEN b.bySource[s] ELSE 0)
    BY CountOfTwo
  <1>5. DOMAIN merged = named
    OBVIOUS
  <1> HIDE DEF merged
  <1>6. Summable(merged, named)
    <2>1. IsFiniteSet(named)
      BY <1>3, FS_Union DEF Summable
    <2>2. \A s \in named : merged[s] \in Nat
      BY <1>3, <1>4 DEF Summable
    <2>3. QED
      BY <2>1, <2>2 DEF Summable
  <1>7. Named(a) \in SUBSET named /\ Named(b) \in SUBSET named
    OBVIOUS
  <1>8. SumFunctionOnSet(merged, named)
            = SumFunctionOnSet(a.bySource, Named(a)) + SumFunctionOnSet(b.bySource, Named(b))
    <2> HIDE DEF named
    <2>1. QED
      BY <1>3, <1>4, <1>6, <1>7, SumsAdd
  <1>9. QED
    BY <1>2, <1>3, <1>5, <1>8 DEF SumFunction

\* The other fields of the merged bucket.
LEMMA MergedFieldsOfOne ==
    ASSUME NEW a, Reported(a)
    PROVE  TotalOf(<<a>>) = a.total /\ NoteOf(<<a>>) = a.note /\ ItemsOf(<<a>>) = a.items
  <1>1. TotalOf(<<a>>) = a.total
    <2> DEFINE f == [n \in DOMAIN <<a>> |-> <<a>>[n].total]
    <2>1. DOMAIN f = {1} /\ f[1] = a.total /\ a.total \in Nat
      BY DEF Reported
    <2>2. TotalOf(<<a>>) = SumFunctionOnSet(f, DOMAIN f)
      BY DEF TotalOf, SumFunction
    <2> HIDE DEF f
    <2>3. QED
      BY <2>1, <2>2, SumOfOne
  <1>2. NoteOf(<<a>>) = a.note
    <2>1. DOMAIN <<a>> = {1} /\ <<a>>[1] = a
      OBVIOUS
    <2>2. QED
      BY <2>1 DEF NoteOf, Reported
  <1>3. ItemsOf(<<a>>) = a.items
    <2> DEFINE lists == [n \in DOMAIN <<a>> |-> <<a>>[n].items]
               Is(f) == f = [i \in 1 .. Len(lists) |-> IF i = 1 THEN lists[i] ELSE f[i-1] \o lists[i]]
    <2>1. lists = <<a.items>> /\ Len(lists) = 1
      OBVIOUS
    <2>2. Is([i \in 1 .. 1 |-> a.items])
      BY <2>1
    <2>3. Is(CHOOSE f : Is(f))
      BY <2>2
    <2>4. ItemsOf(<<a>>) = (CHOOSE f : Is(f))[1]
      BY <2>1 DEF ItemsOf, FlattenSeq
    <2>5. QED
      BY <2>1, <2>3, <2>4
  <1>4. QED
    BY <1>1, <1>2, <1>3

LEMMA MergedFieldsOfTwo ==
    ASSUME NEW a, Reported(a), NEW b, Reported(b)
    PROVE  /\ TotalOf(<<a, b>>) = a.total + b.total
           /\ NoteOf(<<a, b>>) = (a.note \/ b.note)
           /\ ItemsOf(<<a, b>>) = a.items \o b.items
  <1>1. TotalOf(<<a, b>>) = a.total + b.total
    <2> DEFINE f == [n \in DOMAIN <<a, b>> |-> <<a, b>>[n].total]
    <2>1. DOMAIN f = {1, 2} /\ f[1] = a.total /\ a.total \in Nat /\ f[2] = b.total /\ b.total \in Nat
      BY DEF Reported
    <2>2. TotalOf(<<a, b>>) = SumFunctionOnSet(f, DOMAIN f)
      BY DEF TotalOf, SumFunction
    <2> HIDE DEF f
    <2>3. QED
      BY <2>1, <2>2, SumOfTwo
  <1>2. NoteOf(<<a, b>>) = (a.note \/ b.note)
    <2>1. DOMAIN <<a, b>> = {1, 2} /\ <<a, b>>[1] = a /\ <<a, b>>[2] = b
      OBVIOUS
    <2>2. QED
      BY <2>1 DEF NoteOf, Reported
  <1>3. ItemsOf(<<a, b>>) = a.items \o b.items
    <2> DEFINE lists == [n \in DOMAIN <<a, b>> |-> <<a, b>>[n].items]
               join(x, y) == x \o y
               Is(f) == f = [i \in 1 .. Len(lists) |-> IF i = 1 THEN lists[i] ELSE join(f[i-1], lists[i])]
    <2>1. lists = <<a.items, b.items>> /\ Len(lists) = 2 /\ lists[1] = a.items /\ lists[2] = b.items
      OBVIOUS
    <2> HIDE DEF join
    <2>2. Is([i \in 1 .. 2 |-> IF i = 1 THEN a.items ELSE join(a.items, b.items)])
      <3> DEFINE g == [i \in 1 .. 2 |-> IF i = 1 THEN a.items ELSE join(a.items, b.items)]
      <3>1. \A i \in 1 .. 2 : g[i] = IF i = 1 THEN lists[i] ELSE join(g[i - 1], lists[i])
        <4>1. g[1] = a.items /\ g[2] = join(a.items, b.items) /\ 2 - 1 = 1
          OBVIOUS
        <4>2. \A i \in 1 .. 2 : i = 1 \/ i = 2
          OBVIOUS
        <4> HIDE DEF g, lists
        <4>3. g[2] = join(g[2 - 1], lists[2])
          BY <2>1, <4>1
        <4>4. QED
          BY <2>1, <4>1, <4>2, <4>3
      <3>2. g = [i \in 1 .. 2 |-> IF i = 1 THEN lists[i] ELSE join(g[i - 1], lists[i])]
        <4>1. g = [i \in 1 .. 2 |-> g[i]]
          OBVIOUS
        <4> HIDE DEF g, lists
        <4>2. QED
          BY <3>1, <4>1
      <3> HIDE DEF lists
      <3>3. QED
        BY <2>1, <3>2
    <2>3. Is(CHOOSE f : Is(f))
      BY <2>2
    <2>4. ItemsOf(<<a, b>>) = (CHOOSE f : Is(f))[2]
      BY <2>1 DEF ItemsOf, FlattenSeq, join
    <2> HIDE DEF lists
    <2>5. PICK f : f = (CHOOSE g : Is(g)) /\ Is(f)
      BY <2>3
    <2>6. \A i \in 1 .. 2 : f[i] = IF i = 1 THEN lists[i] ELSE join(f[i - 1], lists[i])
      BY <2>1, <2>5
    <2>7. 1 \in 1 .. 2 /\ 2 \in 1 .. 2 /\ 2 - 1 = 1
      OBVIOUS
    <2>8. f[1] = a.items
      BY <2>1, <2>6, <2>7
    <2>9. f[2] = join(f[2 - 1], lists[2])
      BY <2>6, <2>7
    <2>10. f[2] = join(a.items, b.items)
      BY <2>1, <2>7, <2>8, <2>9
    <2> HIDE DEF Is
    <2>11. QED
      BY <2>4, <2>5, <2>10 DEF join
  <1>4. QED
    BY <1>1, <1>2, <1>3

LEMMA NoneGiven ==
    ASSUME NEW bs, \A n \in DOMAIN bs : bs[n].bySource = NoBreakdown
    PROVE  BreakdownOf(bs) = NoBreakdown
  <1>1. UNION {Named(bs[n]) : n \in DOMAIN bs} = {}
    BY DEF Named
  <1>2. QED
    BY <1>1, BreakdownIs

\* A set that is listed.
LEMMA ListedOnce ==
    ASSUME NEW S, IsFiniteSet(S)
    PROVE  /\ SetToSeq(S) \in Seq(S) /\ Len(SetToSeq(S)) = Cardinality(S)
           /\ ToSet(SetToSeq(S)) = S /\ Cardinality(S) \in Nat
  <1> DEFINE n == Cardinality(S)
  <1>1. n \in Nat /\ Bijection(1 .. n, S) # {}
    BY FS_CardinalityType DEF ExistsBijection
  <1>2. \E f \in [1 .. n -> S] : IsInjective(f)
    BY <1>1 DEF Bijection, Injection, IsInjective
  <1>3. SetToSeq(S) \in [1 .. n -> S] /\ IsInjective(SetToSeq(S))
    BY <1>2 DEF SetToSeq
  <1>4. SetToSeq(S) \in Injection(1 .. n, S)
    BY <1>3 DEF Injection, IsInjective
  <1>5. IsFiniteSet(1 .. n) /\ Cardinality(1 .. n) = n
    BY <1>1, FS_Interval
  <1>6. SetToSeq(S) \in Surjection(1 .. n, S)
    BY <1>4, <1>5, FS_Injection
  <1>7. ToSet(SetToSeq(S)) = S
    BY <1>3, <1>6 DEF ToSet, Surjection
  <1> HIDE DEF n
  <1>8. SetToSeq(S) \in Seq(S) /\ Len(SetToSeq(S)) = n
    BY <1>1, <1>3
  <1>9. QED
    BY <1>1, <1>7, <1>8 DEF n

LEMMA ReportBounds ==
    /\ \A S \in SUBSET (Items \union Phantoms) : IsFiniteSet(S)
    /\ \A b \in UnlinkedBuckets \union CollectorBuckets \union JudgmentBuckets : Reported(b)
  BY ReportAssumption, FS_Subset DEF Reported

\* The composed coverage of the reports.
Rest == Unconsumed(manifest, evaluated, skips)

Composed ==
    [evaluated |-> IdBucket(evaluated, CountBySource(evaluated \intersect manifest)),
     declaredUnlinked |-> unlinked,
     skipped |-> MergeBuckets(skips),
     unconsumed |-> IF Rest = {} THEN EmptyBucket ELSE IdBucket(Rest, CountBySource(Rest))]

CoverageInv ==
    /\ manifest \in SUBSET Items /\ evaluated \in SUBSET (Items \union Phantoms)
    /\ Reported(unlinked) /\ Reports(skips)
    /\ coveragePc \in {"judged", "composed", "archived", "rejected"}
    /\ coveragePc # "judged" => stats = Composed
    /\ coveragePc \in {"composed", "archived"} => evaluated \subseteq manifest
    /\ coveragePc = "archived" => StatsAccepted(stats)
    /\ coveragePc = "rejected" => ~(evaluated \subseteq manifest /\ StatsAccepted(stats))

\* The lists of the composed coverage.
LEMMA ComposedLists ==
    ASSUME manifest \in SUBSET Items, evaluated \in SUBSET (Items \union Phantoms)
    PROVE  /\ ToSet(Composed.evaluated.items) = evaluated
           /\ Composed.evaluated.total = Cardinality(evaluated)
           /\ Composed.skipped = MergeBuckets(skips)
           /\ Composed.declaredUnlinked = unlinked
           /\ ToSet(Composed.unconsumed.items) = Rest
           /\ Composed.unconsumed.total = Cardinality(Rest)
  <1>1. IsFiniteSet(evaluated) /\ IsFiniteSet(Rest)
    BY ReportBounds DEF Rest, Unconsumed
  <1>2. ToSet(SetToSeq(evaluated)) = evaluated /\ ToSet(SetToSeq(Rest)) = Rest
    BY <1>1, ListedOnce
  <1>3. /\ Composed.evaluated = IdBucket(evaluated, CountBySource(evaluated \intersect manifest))
        /\ Composed.skipped = MergeBuckets(skips) /\ Composed.declaredUnlinked = unlinked
        /\ Composed.unconsumed = IF Rest = {} THEN EmptyBucket ELSE IdBucket(Rest, CountBySource(Rest))
    BY DEF Composed
  <1>4. \A ids, counts : /\ IdBucket(ids, counts).items = SetToSeq(ids)
                         /\ IdBucket(ids, counts).total = Cardinality(ids)
                         /\ IdBucket(ids, counts).bySource = counts
    BY DEF IdBucket, Bucket
  <1>5. ToSet(EmptyBucket.items) = {} /\ EmptyBucket.total = 0 /\ Cardinality({}) = 0
    BY FS_EmptySet DEF EmptyBucket, Bucket, ToSet
  <1>6. QED
    BY <1>2, <1>3, <1>4, <1>5

\* The ids of the merged list, and its count.
LEMMA ConcatRange ==
    ASSUME NEW S, NEW p \in Seq(S), NEW q \in Seq(S)
    PROVE  ToSet(p \o q) = ToSet(p) \union ToSet(q)
  <1>1. /\ Len(p \o q) = Len(p) + Len(q) /\ p \o q \in Seq(S)
        /\ \A i \in 1 .. Len(p) + Len(q) :
               (p \o q)[i] = IF i <= Len(p) THEN p[i] ELSE q[i - Len(p)]
    OBVIOUS
  <1>2. /\ Len(p) \in Nat /\ Len(q) \in Nat /\ DOMAIN p = 1 .. Len(p) /\ DOMAIN q = 1 .. Len(q)
        /\ DOMAIN (p \o q) = 1 .. Len(p) + Len(q)
    BY <1>1
  <1> DEFINE r == p \o q
  <1> HIDE DEF r
  <1>3. ASSUME NEW i \in 1 .. Len(p) PROVE p[i] \in ToSet(r)
    <2>1. i \in 1 .. Len(p) + Len(q) /\ r[i] = p[i]
      BY <1>1, <1>2 DEF r
    <2>2. QED
      BY <1>2, <2>1 DEF ToSet, r
  <1>4. ASSUME NEW i \in 1 .. Len(q) PROVE q[i] \in ToSet(r)
    <2>1. /\ i + Len(p) \in 1 .. Len(p) + Len(q) /\ ~(i + Len(p) <= Len(p))
          /\ (i + Len(p)) - Len(p) = i
      BY <1>2
    <2>2. r[i + Len(p)] = q[i]
      BY <1>1, <2>1 DEF r
    <2>3. QED
      BY <1>2, <2>1, <2>2 DEF ToSet, r
  <1>5. ASSUME NEW i \in 1 .. Len(p) + Len(q) PROVE r[i] \in ToSet(p) \union ToSet(q)
    <2>1. CASE i <= Len(p)
      <3>1. i \in 1 .. Len(p) /\ r[i] = p[i]
        BY <1>1, <1>2, <2>1 DEF r
      <3>2. QED
        BY <1>2, <3>1 DEF ToSet
    <2>2. CASE ~(i <= Len(p))
      <3>1. i - Len(p) \in 1 .. Len(q)
        BY <1>2, <2>2
      <3>2. r[i] = q[i - Len(p)]
        BY <1>1, <2>2 DEF r
      <3>3. QED
        BY <1>2, <3>1, <3>2 DEF ToSet
    <2>3. QED
      BY <2>1, <2>2
  <1>6. ToSet(r) = ToSet(p) \union ToSet(q)
    BY <1>2, <1>3, <1>4, <1>5 DEF ToSet, r
  <1>7. QED
    BY <1>6 DEF r

LEMMA MergedItems ==
    ASSUME Reports(skips)
    PROVE  LET merged == MergeBuckets(skips)
           IN  /\ ToSet(merged.items) = Skipped(skips)
               /\ merged.total \in Nat
               /\ \A n \in DOMAIN skips : merged.total >= skips[n].total
  <1>1. /\ MergeBuckets(skips).items = ItemsOf(skips) /\ MergeBuckets(skips).total = TotalOf(skips)
    BY DEF MergeBuckets, Bucket
  <1>2. ASSUME NEW a, Reported(a), skips = <<a>>
        PROVE  /\ ToSet(ItemsOf(skips)) = Skipped(skips)
               /\ TotalOf(skips) \in Nat
               /\ \A n \in DOMAIN skips : TotalOf(skips) >= skips[n].total
    <2>1. DOMAIN skips = {1} /\ skips[1] = a /\ a.total \in Nat
      BY <1>2 DEF Reported
    <2>2. TotalOf(skips) = a.total /\ ItemsOf(skips) = a.items
      BY <1>2, MergedFieldsOfOne
    <2>3. Skipped(skips) = ToSet(a.items)
      BY <2>1 DEF Skipped
    <2>4. QED
      BY <2>1, <2>2, <2>3
  <1>3. ASSUME NEW a, Reported(a), NEW b, Reported(b), skips = <<a, b>>
        PROVE  /\ ToSet(ItemsOf(skips)) = Skipped(skips)
               /\ TotalOf(skips) \in Nat
               /\ \A n \in DOMAIN skips : TotalOf(skips) >= skips[n].total
    <2>1. DOMAIN skips = {1, 2} /\ skips[1] = a /\ skips[2] = b
      BY <1>3
    <2>2. TotalOf(skips) = a.total + b.total /\ ItemsOf(skips) = a.items \o b.items
      BY <1>3, MergedFieldsOfTwo
    <2>3. Skipped(skips) = ToSet(a.items) \union ToSet(b.items)
      BY <2>1 DEF Skipped
    <2>4. ToSet(a.items \o b.items) = ToSet(a.items) \union ToSet(b.items)
      <3>1. a.items \in Seq(Items \union Phantoms) /\ b.items \in Seq(Items \union Phantoms)
        BY <1>3 DEF Reported
      <3>2. QED
        BY <3>1, ConcatRange
    <2>5. a.total \in Nat /\ b.total \in Nat
      BY <1>3 DEF Reported
    <2>6. QED
      BY <2>1, <2>2, <2>3, <2>4, <2>5
  <1>4. QED
    BY <1>1, <1>2, <1>3 DEF Reports

LEMMA ConcatLength ==
    ASSUME NEW S, NEW s \in Seq(S), NEW t \in Seq(S)
    PROVE  Len(s \o t) = Len(s) + Len(t)
  OBVIOUS

\* Valid buckets that agree on giving a breakdown merge into a valid one.
LEMMA MergedIsAccepted ==
    ASSUME Reports(skips), \A n \in DOMAIN skips : SkippedAccepted(skips[n]), Uniform
    PROVE  SkippedAccepted(MergeBuckets(skips))
  <1> DEFINE merged == MergeBuckets(skips)
  <1>1. /\ merged.items = ItemsOf(skips) /\ merged.total = TotalOf(skips)
        /\ merged.bySource = BreakdownOf(skips) /\ merged.note = NoteOf(skips)
    BY DEF MergeBuckets, Bucket
  <1> HIDE DEF merged
  <1>2. \A n \in DOMAIN skips :
            /\ Reported(skips[n])
            /\ skips[n].bySource # NoBreakdown => Given(skips[n]) = skips[n].total
            /\ Len(skips[n].items) = skips[n].total /\ (skips[n].total > 0 => skips[n].note)
    BY DEF Reports, SkippedAccepted, SourcesAddUp, Given
  <1>3. (\E n \in DOMAIN skips : skips[n].bySource # NoBreakdown)
            => \A n \in DOMAIN skips : Given(skips[n]) = skips[n].total
    <2> SUFFICES ASSUME NEW m \in DOMAIN skips, skips[m].bySource # NoBreakdown,
                        NEW n \in DOMAIN skips, skips[n].bySource = NoBreakdown
                 PROVE  Given(skips[n]) = skips[n].total
      BY <1>2
    <2>1. ~(skips[n].total > 0)
      BY DEF Uniform
    <2>2. skips[n].total \in Nat /\ Given(skips[n]) = 0
      BY <1>2 DEF Reported, Given
    <2>3. QED
      BY <2>1, <2>2
  <1>4. CASE skips = <<skips[1]>>
    <2> DEFINE a == skips[1]
    <2>1. DOMAIN skips = {1} /\ skips = <<a>> /\ Reported(a)
      BY <1>2, <1>4
    <2>2. /\ TotalOf(skips) = a.total /\ NoteOf(skips) = a.note /\ ItemsOf(skips) = a.items
          /\ BreakdownOf(skips) = NoBreakdown \/ SumFunction(BreakdownOf(skips)) = Given(a)
      BY <2>1, MergedFieldsOfOne, MergedSumOfOne
    <2>3. SourcesAddUp(merged)
      <3>1. CASE \A n \in DOMAIN skips : skips[n].bySource = NoBreakdown
        BY <1>1, <3>1, NoneGiven DEF SourcesAddUp
      <3>2. CASE \E n \in DOMAIN skips : skips[n].bySource # NoBreakdown
        <4>1. Given(a) = a.total
          BY <1>3, <2>1, <3>2
        <4>2. QED
          BY <1>1, <2>2, <4>1 DEF SourcesAddUp
      <3>3. QED
        BY <3>1, <3>2
    <2>4. Len(merged.items) = merged.total /\ (merged.total > 0 => merged.note)
      BY <1>1, <1>2, <2>1, <2>2
    <2>5. QED
      BY <2>3, <2>4 DEF SkippedAccepted, merged
  <1>5. CASE skips = <<skips[1], skips[2]>>
    <2> DEFINE a == skips[1]
               b == skips[2]
    <2>1. DOMAIN skips = {1, 2} /\ skips = <<a, b>>
      BY <1>5
    <2>2. Reported(a) /\ Reported(b)
      BY <1>2, <2>1
    <2>3. /\ TotalOf(skips) = a.total + b.total /\ NoteOf(skips) = (a.note \/ b.note)
          /\ ItemsOf(skips) = a.items \o b.items
      <3>1. /\ TotalOf(<<a, b>>) = a.total + b.total /\ NoteOf(<<a, b>>) = (a.note \/ b.note)
            /\ ItemsOf(<<a, b>>) = a.items \o b.items
        BY <2>2, MergedFieldsOfTwo
      <3> HIDE DEF a, b
      <3>2. QED
        BY <2>1, <3>1
    <2>4. BreakdownOf(skips) = NoBreakdown \/ SumFunction(BreakdownOf(skips)) = Given(a) + Given(b)
      BY <2>1, <2>2, MergedSumOfTwo
    <2>5. SourcesAddUp(merged)
      <3>1. CASE \A n \in DOMAIN skips : skips[n].bySource = NoBreakdown
        BY <1>1, <3>1, NoneGiven DEF SourcesAddUp
      <3>2. CASE \E n \in DOMAIN skips : skips[n].bySource # NoBreakdown
        <4>1. Given(a) = a.total /\ Given(b) = b.total
          BY <1>3, <2>1, <3>2
        <4>2. QED
          BY <1>1, <2>3, <2>4, <4>1 DEF SourcesAddUp
      <3>3. QED
        BY <3>1, <3>2
    <2>6. /\ a.items \in Seq(Items \union Phantoms) /\ b.items \in Seq(Items \union Phantoms)
          /\ a.total \in Nat /\ b.total \in Nat /\ a.note \in BOOLEAN /\ b.note \in BOOLEAN
          /\ Len(a.items) = a.total /\ Len(b.items) = b.total
          /\ (a.total > 0 => a.note) /\ (b.total > 0 => b.note)
      BY <1>2, <2>1, <2>2 DEF Reported
    <2> HIDE DEF a, b
    <2>7. Len(a.items \o b.items) = a.total + b.total
      <3>1. Len(a.items \o b.items) = Len(a.items) + Len(b.items)
        BY <2>6, ConcatLength
      <3>2. QED
        BY <2>6, <3>1
    <2>8. a.total + b.total > 0 => a.note \/ b.note
      BY <2>6
    <2>9. Len(merged.items) = merged.total /\ (merged.total > 0 => merged.note)
      BY <1>1, <2>3, <2>7, <2>8
    <2>10. QED
      BY <2>5, <2>9 DEF SkippedAccepted, merged
  <1>6. QED
    BY <1>4, <1>5 DEF Reports

LEMMA ValidIsAccepted ==
    ASSUME CoverageInv, ReportsValid, Uniform
    PROVE  StatsAccepted(Composed)
  <1>1. /\ manifest \in SUBSET Items /\ evaluated \in SUBSET (Items \union Phantoms)
        /\ evaluated \subseteq manifest /\ Reports(skips)
    BY DEF CoverageInv, ReportsValid
  <1>2. IsFiniteSet(evaluated) /\ IsFiniteSet(Rest)
    BY <1>1, ReportBounds DEF Rest, Unconsumed
  <1>3. \A ids, counts : IdBucket(ids, counts).total = Cardinality(ids)
                         /\ IdBucket(ids, counts).bySource = counts
    BY DEF IdBucket, Bucket
  <1>4. \A ids : IsFiniteSet(ids) => SourcesAddUp(IdBucket(ids, CountBySource(ids)))
    BY <1>3, CountsAddUp DEF SourcesAddUp
  <1>5. SourcesAddUp(Composed.evaluated)
    <2>1. evaluated \intersect manifest = evaluated
      BY <1>1
    <2>2. Composed.evaluated = IdBucket(evaluated, CountBySource(evaluated \intersect manifest))
      BY DEF Composed
    <2>3. Composed.evaluated = IdBucket(evaluated, CountBySource(evaluated))
      BY <2>1, <2>2
    <2>4. QED
      BY <1>2, <1>4, <2>3
  <1>6. SourcesAddUp(Composed.unconsumed)
    <2>1. Composed.unconsumed = IF Rest = {} THEN EmptyBucket ELSE IdBucket(Rest, CountBySource(Rest))
      BY DEF Composed
    <2>2. SourcesAddUp(EmptyBucket)
      BY DEF SourcesAddUp, EmptyBucket, Bucket
    <2>3. QED
      BY <1>2, <1>4, <2>1, <2>2
  <1>7. SkippedAccepted(Composed.skipped)
    BY <1>1, MergedIsAccepted, ComposedLists DEF ReportsValid
  <1>8. UnlinkedAccepted(Composed.declaredUnlinked)
    BY <1>1, ComposedLists DEF ReportsValid
  <1>9. ToSet(Composed.evaluated.items) \subseteq manifest
    BY <1>1, ComposedLists
  <1> HIDE DEF Composed
  <1>10. QED
    BY <1>5, <1>6, <1>7, <1>8, <1>9 DEF StatsAccepted

LEMMA InitEstablishesCoverage == CoverageInit => CoverageInv
  <1> SUFFICES ASSUME CoverageInit PROVE CoverageInv
    OBVIOUS
  <1>1. unlinked \in UnlinkedBuckets /\ Reported(unlinked)
    BY ReportBounds DEF CoverageInit
  <1>2. Reports(skips)
    <2>1. CASE \E c \in CollectorBuckets : skips = <<c>>
      <3>1. PICK c \in CollectorBuckets : skips = <<c>>
        BY <2>1
      <3>2. Reported(c)
        BY ReportBounds
      <3>3. skips = <<skips[1]>> /\ DOMAIN skips = {1} /\ skips[1] = c
        BY <3>1
      <3>4. QED
        BY <3>2, <3>3 DEF Reports
    <2>2. CASE skips \in CollectorBuckets \X JudgmentBuckets
      <3>1. PICK c \in CollectorBuckets, j \in JudgmentBuckets : skips = <<c, j>>
        BY <2>2
      <3>2. Reported(c) /\ Reported(j)
        BY ReportBounds
      <3>3. skips = <<skips[1], skips[2]>> /\ DOMAIN skips = {1, 2} /\ skips[1] = c /\ skips[2] = j
        BY <3>1
      <3>4. QED
        BY <3>2, <3>3 DEF Reports
    <2>3. QED
      BY <2>1, <2>2 DEF CoverageInit
  <1>3. coveragePc = "judged" /\ manifest \in SUBSET Items
        /\ evaluated \in SUBSET (Items \union Phantoms)
    BY DEF CoverageInit
  <1>4. QED
    BY <1>1, <1>2, <1>3 DEF CoverageInv

LEMMA CoverageStepPreserves == CoverageInv /\ [CoverageNext]_coverageVars => CoverageInv'
  <1> SUFFICES ASSUME CoverageInv, [CoverageNext]_coverageVars PROVE CoverageInv'
    OBVIOUS
  <1>1. CASE ComposeCoverage
    <2>1. UNCHANGED <<manifest, evaluated, unlinked, skips>> /\ stats' = Composed
          /\ coveragePc' = IF evaluated \subseteq manifest THEN "composed" ELSE "rejected"
      BY <1>1 DEF ComposeCoverage, reports, Composed, Rest
    <2>2. Composed' = Composed
      BY <2>1 DEF Composed, Rest
    <2> HIDE DEF Composed
    <2>3. QED
      BY <2>1, <2>2 DEF CoverageInv
  <1>2. CASE CreateResult
    <2>1. UNCHANGED <<manifest, evaluated, unlinked, skips, stats>> /\ coveragePc = "composed"
          /\ coveragePc' = IF StatsAccepted(stats) THEN "archived" ELSE "rejected"
      BY <1>2 DEF CreateResult, reports
    <2>2. Composed' = Composed
      BY <2>1 DEF Composed, Rest
    <2>3. StatsAccepted(stats)' = StatsAccepted(stats)
      BY <2>1 DEF StatsAccepted
    <2>4. Reported(unlinked)' = Reported(unlinked) /\ Reports(skips)' = Reports(skips)
      BY <2>1 DEF Reported, Reports
    <2> HIDE DEF Composed
    <2>5. QED
      BY <2>1, <2>2, <2>3, <2>4 DEF CoverageInv
  <1>3. CASE UNCHANGED coverageVars
    <2>1. UNCHANGED <<manifest, evaluated, unlinked, skips, stats, coveragePc>>
      BY <1>3 DEF coverageVars
    <2>2. QED
      BY <2>1 DEF CoverageInv, Composed, Rest, StatsAccepted
  <1>4. QED
    BY <1>1, <1>2, <1>3 DEF CoverageNext

LEMMA CoverageInvIsFaithful == CoverageInv => CoverageIsFaithful
  <1> SUFFICES ASSUME CoverageInv PROVE CoverageIsFaithful
    OBVIOUS
  <1>1. coveragePc = "archived" => stats = Composed
    BY DEF CoverageInv
  <1>2. /\ manifest \in SUBSET Items /\ evaluated \in SUBSET (Items \union Phantoms)
        /\ Reports(skips)
    BY DEF CoverageInv
  <1>3. ToSet(MergeBuckets(skips).items) = Skipped(skips)
    BY <1>2, MergedItems
  <1>4. Rest = (manifest \ evaluated) \ Skipped(skips)
    BY DEF Rest, Unconsumed
  <1>5. ManifestAccounted
    <2> SUFFICES ASSUME coveragePc = "archived" PROVE ManifestAccounted
      BY DEF ManifestAccounted
    <2>1. /\ ToSet(stats.evaluated.items) = evaluated
          /\ ToSet(stats.skipped.items) = Skipped(skips)
          /\ ToSet(stats.unconsumed.items) = Rest
          /\ stats.unconsumed.total = Cardinality(Rest)
      BY <1>1, <1>2, <1>3, ComposedLists
    <2>2. evaluated \subseteq manifest
      BY DEF CoverageInv
    <2>3. QED
      BY <1>4, <2>1, <2>2 DEF ManifestAccounted
  <1>6. NoCutOffDisappears
    <2> SUFFICES ASSUME coveragePc = "archived", NEW n \in DOMAIN skips
                 PROVE  /\ ToSet(skips[n].items) \subseteq ToSet(stats.skipped.items)
                        /\ stats.skipped.total >= skips[n].total
                        /\ stats.skipped.total = Len(stats.skipped.items)
      BY DEF NoCutOffDisappears
    <2>1. stats.skipped = MergeBuckets(skips)
      BY <1>1, <1>2, ComposedLists
    <2>2. ToSet(skips[n].items) \subseteq Skipped(skips)
      BY DEF Skipped
    <2>3. MergeBuckets(skips).total >= skips[n].total
      BY <1>2, MergedItems
    <2>4. Len(stats.skipped.items) = stats.skipped.total
      BY DEF CoverageInv, StatsAccepted, SkippedAccepted
    <2>5. QED
      BY <1>3, <2>1, <2>2, <2>3, <2>4
  <1>7. UniformReportsAccepted
    <2> SUFFICES ASSUME ReportsValid, Uniform, coveragePc = "rejected" PROVE FALSE
      BY DEF UniformReportsAccepted
    <2>1. evaluated \subseteq manifest
      BY DEF ReportsValid
    <2>2. stats = Composed
      BY DEF CoverageInv
    <2>3. StatsAccepted(Composed)
      BY ValidIsAccepted
    <2>4. StatsAccepted(stats)
      BY <2>2, <2>3
    <2>5. QED
      BY <2>1, <2>4 DEF CoverageInv
  <1>8. QED
    BY <1>5, <1>6, <1>7 DEF CoverageIsFaithful

\* Whatever the ports report, an archived coverage accounts for every item and
\* for everything that was cut off, and reports that satisfy the contract and
\* agree on giving a breakdown are archived.
THEOREM CoverageStaysFaithful == CoverageSpec => []CoverageIsFaithful
  BY InitEstablishesCoverage, CoverageStepPreserves, CoverageInvIsFaithful, PTL DEF CoverageSpec

-----------------------------------------------------------------------------
(* The composition *)

\* The findings, the plan and the periods each behave as specified.
LEMMA ServicesImplementTheirSpecs == ServicesSpec => Spec /\ PlanSpec /\ PeriodSpec
  <1>1. ServicesInit => Init /\ PlanInit /\ PeriodInit
    BY DEF ServicesInit
  <1>2. [ServicesNext]_servicesVars
          => [Next]_vars /\ [PlanNext]_remediationVars /\ [PeriodNext]_periodVars
    <2>1. CASE UNCHANGED servicesVars
      BY <2>1 DEF servicesVars, findingVars
    <2>2. CASE ServicesNext
      BY <2>2 DEF ServicesNext, Others, findingVars
    <2>3. QED
      BY <2>1, <2>2
  <1>3. QED
    BY <1>1, <1>2, PTL DEF ServicesSpec, Spec, PlanSpec, PeriodSpec

\* In the composition the coverage has its specification's behaviours, or is
\* not exercised and stays untouched.
THEOREM ServedCoverageIsFaithful == ServicesSpec => []CoverageIsFaithful
  <1> DEFINE Idle == /\ service # "coverage" /\ skips = << >> /\ coveragePc = "judged"
             Served == (service = "coverage" /\ CoverageInv) \/ Idle
  <1>1. ServicesInit => Served
    BY InitEstablishesCoverage DEF ServicesInit
  <1>2. Served /\ [ServicesNext]_servicesVars => Served'
    <2> SUFFICES ASSUME Served, [ServicesNext]_servicesVars PROVE Served'
      OBVIOUS
    <2>1. UNCHANGED service /\ (service # "coverage" => UNCHANGED coverageVars)
          /\ [CoverageNext]_coverageVars
      BY DEF ServicesNext, Others, servicesVars
    <2>2. CoverageInv => CoverageInv'
      BY <2>1, CoverageStepPreserves
    <2>3. Idle => Idle'
      BY <2>1 DEF coverageVars
    <2>4. QED
      BY <2>1, <2>2, <2>3
  <1>3. Served => CoverageIsFaithful
    <2>1. Idle => CoverageIsFaithful
      BY DEF CoverageIsFaithful, ManifestAccounted, NoCutOffDisappears, UniformReportsAccepted
    <2>2. QED
      BY <2>1, CoverageInvIsFaithful
  <1> HIDE DEF Served
  <1>4. QED
    BY <1>1, <1>2, <1>3, PTL DEF ServicesSpec

\* In the composition too, every service is in states of its types and the
\* companion columns of a finding move with its status.
THEOREM ServicesStayWellFormed == ServicesSpec => []ServicesAreWellFormed
  <1>1. FindingsTypeOK /\ ColumnsAgreeWithStatus /\ PlanTypeOK /\ PeriodsTypeOK
          => ServicesAreWellFormed
    BY DEF ServicesAreWellFormed
  <1>2. QED
    BY <1>1, ServicesImplementTheirSpecs, FindingsAreTyped, ColumnsFollowStatus, PlansAreTyped,
       PeriodsAreTyped, PTL

\* In the composition too, only humans lift a suppression, resolutions are sound,
\* the latest run decides, a decided plan is frozen and periods are sound.
THEOREM ServicesStaySafe ==
    ServicesSpec => /\ []LatestRunDecides
                    /\ SuppressionIsHuman /\ ResolutionsAreSound
                    /\ DecisionIsFinal /\ PeriodsAreSound
  BY ServicesImplementTheirSpecs, LatestRunHasTheVerdict, SuppressionsAreLiftedByHumans,
     ResolutionsStaySound, DecidedPlansAreFrozen, PeriodsStaySound, PTL
=============================================================================
