-------------------------- MODULE FairServicesProofs --------------------------
(***************************************************************************)
(* Safety of the services that MCFairServices composes, for all values of  *)
(* their constants.                                                        *)
(*   Criteria.   The version row is a mutual exclusion (CriteriaTypeOK), so *)
(*     what a transaction checked under its lock still holds when it        *)
(*     commits (TransactionIsDraft, PublicationHasCriteria).                *)
(*   Judgment.   Every phase that returned left its stop reason, in order.  *)
(*   Migrations. What a run executed of its current file it executed from   *)
(*     the file it read; as long as runs do not overlap, a plan stays ahead *)
(*     of the history.                                                      *)
(*   Reports.    A report is in one place, its message carries the number   *)
(*     of its refusals, and a tick adds one write per destination.          *)
(* The composition refines each service's specification.                   *)
(***************************************************************************)
EXTENDS MCFairServices, SequenceTheorems, FiniteSetTheorems, WellFoundedInduction, TLAPS

-----------------------------------------------------------------------------
(* Criteria and rule-set versions *)

\* A transaction that passed its check works on a draft until it commits.
TransactionIsDraft ==
    \A c \in Clients : pc[c] \in {"count", "apply", "commit"} => ~publishedAt

\* A publication that counted the criteria still has one when it commits.
PublicationHasCriteria ==
    \A c \in Clients :
        pc[c] \in {"apply", "commit"} /\ op[c] = "publishVersion" => content # NoCriteria

AdmittedIsPublished == \A r \in Readers : admitted[r] => publishedAt

CriteriaInv ==
    /\ CriteriaTypeOK
    /\ TransactionIsDraft
    /\ PublicationHasCriteria
    /\ AdmittedIsPublished
    /\ PublishedIsNotEmpty
    /\ RubricIsStable

-----------------------------------------------------------------------------
\* At most one transaction is past its lock.
LEMMA LockIsExclusive ==
    ASSUME CriteriaTypeOK, NEW c \in Clients, NEW d \in Clients,
           pc[c] \in InTransaction, pc[d] \in InTransaction
    PROVE  c = d
  BY DEF CriteriaTypeOK

LEMMA InitEstablishesCriteria == Init => CriteriaInv
  <1> SUFFICES ASSUME Init PROVE CriteriaInv
    OBVIOUS
  <1>1. CriteriaTypeOK
    <2>1. PICK k \in Criteria : target = [c \in Clients |-> k]
      BY DEF Init
    <2>2. target \in [Clients -> Criteria]
      BY <2>1
    <2>3. \A c \in Clients : pc[c] \notin InTransaction /\ lock # c
      BY NoClientAssumption DEF Init, InTransaction
    <2>4. pc \in [Clients -> {"idle", "find", "lock", "conditional"} \union InTransaction]
      BY DEF Init
    <2>5. op \in [Clients -> Ops]
      BY DEF Init, Ops
    <2>6. /\ content \in [Criteria -> Revisions]
          /\ rubric \in [Readers -> [Criteria -> Revisions]]
      BY DEF Init, NoCriteria, Revisions
    <2>7. publishedAt \in BOOLEAN /\ admitted \in [Readers -> BOOLEAN]
      BY Zenon DEF Init
    <2>8. description \in Revisions /\ lock \in Clients \union {NoClient}
      BY DEF Init, Revisions
    <2>9. QED
      BY <2>2, <2>3, <2>4, <2>5, <2>6, <2>7, <2>8 DEF CriteriaTypeOK
  <1>2. QED
    BY <1>1 DEF Init, CriteriaInv, TransactionIsDraft, PublicationHasCriteria,
                AdmittedIsPublished, PublishedIsNotEmpty, RubricIsStable

-----------------------------------------------------------------------------
\* Steps that change no committed column and end or advance no transaction
\* beyond its check preserve the invariant through its typing alone.
LEMMA SubmitPreservesCriteria ==
    ASSUME CriteriaInv, NEW c \in Clients, NEW o \in Ops, NEW k \in Criteria, Submit(c, o, k)
    PROVE  CriteriaInv'
  <1>1. CriteriaTypeOK'
    BY NoClientAssumption
    DEF CriteriaInv, CriteriaTypeOK, Submit, Goto, dbVars, readerVars, InTransaction, Ops, FirstStep
  <1>2. /\ TransactionIsDraft' /\ PublicationHasCriteria' /\ AdmittedIsPublished'
        /\ PublishedIsNotEmpty' /\ RubricIsStable'
    BY DEF CriteriaInv, CriteriaTypeOK, TransactionIsDraft, PublicationHasCriteria,
           AdmittedIsPublished, PublishedIsNotEmpty, RubricIsStable, Submit, Goto,
           dbVars, readerVars, NoCriteria, Ops, FirstStep
  <1>3. QED
    BY <1>1, <1>2 DEF CriteriaInv

LEMMA RequestPreservesCriteria ==
    ASSUME CriteriaInv, NEW c \in Clients, Request(c)
    PROVE  CriteriaInv'
  <1> USE NoClientAssumption DEF Goto, Release, readerVars
  <1>1. CASE UpdateVersion(c)
    <2>1. CriteriaTypeOK'
      BY <1>1 DEF CriteriaInv, CriteriaTypeOK, UpdateVersion, Edited, Revisions, InTransaction
    <2>2. QED
      BY <1>1, <2>1 DEF CriteriaInv, CriteriaTypeOK, TransactionIsDraft, PublicationHasCriteria,
           AdmittedIsPublished, PublishedIsNotEmpty, RubricIsStable, UpdateVersion, NoCriteria
  <1>2. CASE FindCriterion(c)
    <2>1. CriteriaTypeOK'
      BY <1>2 DEF CriteriaInv, CriteriaTypeOK, FindCriterion, dbVars, InTransaction
    <2>2. QED
      BY <1>2, <2>1 DEF CriteriaInv, CriteriaTypeOK, TransactionIsDraft, PublicationHasCriteria,
           AdmittedIsPublished, PublishedIsNotEmpty, RubricIsStable, FindCriterion, dbVars, NoCriteria
  <1>3. CASE LockVersion(c)
    <2>1. CriteriaTypeOK'
      BY <1>3 DEF CriteriaInv, CriteriaTypeOK, LockVersion, dbVars, InTransaction
    <2>2. QED
      BY <1>3, <2>1 DEF CriteriaInv, CriteriaTypeOK, TransactionIsDraft, PublicationHasCriteria,
           AdmittedIsPublished, PublishedIsNotEmpty, RubricIsStable, LockVersion, dbVars, NoCriteria
  <1>4. CASE CheckDraft(c)
    <2>1. CriteriaTypeOK'
      BY <1>4 DEF CriteriaInv, CriteriaTypeOK, CheckDraft, dbVars, InTransaction
    <2>2. QED
      BY <1>4, <2>1 DEF CriteriaInv, CriteriaTypeOK, TransactionIsDraft, PublicationHasCriteria,
           AdmittedIsPublished, PublishedIsNotEmpty, RubricIsStable, CheckDraft, dbVars, NoCriteria
  <1>5. CASE CountCriteria(c)
    <2>1. CriteriaTypeOK'
      BY <1>5 DEF CriteriaInv, CriteriaTypeOK, CountCriteria, dbVars, InTransaction
    <2>2. QED
      BY <1>5, <2>1 DEF CriteriaInv, CriteriaTypeOK, TransactionIsDraft, PublicationHasCriteria,
           AdmittedIsPublished, PublishedIsNotEmpty, RubricIsStable, CountCriteria, dbVars, NoCriteria
  <1>6. CASE Apply(c)
    <2>1. CriteriaTypeOK'
      BY <1>6 DEF CriteriaInv, CriteriaTypeOK, Apply, dbVars, InTransaction
    <2>2. QED
      BY <1>6, <2>1 DEF CriteriaInv, CriteriaTypeOK, TransactionIsDraft, PublicationHasCriteria,
           AdmittedIsPublished, PublishedIsNotEmpty, RubricIsStable, Apply, dbVars, NoCriteria
  <1>7. CASE Commit(c)
    <2>1. CriteriaTypeOK'
      <3>1. Revised(c) \in Revisions
        BY <1>7 DEF CriteriaInv, CriteriaTypeOK, Revised, Edited, Revisions
      <3>2. QED
        BY <1>7, <3>1 DEF CriteriaInv, CriteriaTypeOK, Commit, InTransaction
    <2>2. \A d \in Clients : pc'[d] \notin InTransaction
      BY <1>7, LockIsExclusive DEF CriteriaInv, CriteriaTypeOK, Commit, InTransaction
    <2>3. TransactionIsDraft' /\ PublicationHasCriteria'
      BY <2>2 DEF TransactionIsDraft, PublicationHasCriteria, InTransaction
    <2>4. ~publishedAt /\ \A r \in Readers : ~admitted[r]
      BY <1>7 DEF CriteriaInv, TransactionIsDraft, AdmittedIsPublished, Commit
    <2>5. PublishedIsNotEmpty'
      <3>1. op[c] = "publishVersion" => content' = content
        BY <1>7 DEF CriteriaInv, CriteriaTypeOK, Commit, Revised
      <3>2. op[c] = "publishVersion" => content # NoCriteria
        BY <1>7 DEF CriteriaInv, PublicationHasCriteria, Commit
      <3>3. QED
        BY <1>7, <2>4, <3>1, <3>2 DEF PublishedIsNotEmpty, Commit, NoCriteria
    <2>6. AdmittedIsPublished' /\ RubricIsStable'
      BY <1>7, <2>4 DEF AdmittedIsPublished, RubricIsStable, Commit
    <2>7. QED
      BY <2>1, <2>3, <2>5, <2>6 DEF CriteriaInv
  <1>8. QED
    BY <1>1, <1>2, <1>3, <1>4, <1>5, <1>6, <1>7 DEF Request

LEMMA RollbackPreservesCriteria ==
    ASSUME CriteriaInv, NEW c \in Clients, Rollback(c)
    PROVE  CriteriaInv'
  <1>1. CriteriaTypeOK'
    BY NoClientAssumption
    DEF CriteriaInv, CriteriaTypeOK, Rollback, Release, Goto, dbVars, readerVars, InTransaction
  <1>2. QED
    BY <1>1 DEF CriteriaInv, CriteriaTypeOK, TransactionIsDraft, PublicationHasCriteria,
           AdmittedIsPublished, PublishedIsNotEmpty, RubricIsStable, Rollback, Release,
           Goto, dbVars, readerVars, NoCriteria

LEMMA AdmitRunPreservesCriteria ==
    ASSUME CriteriaInv, NEW r \in Readers, AdmitRun(r)
    PROVE  CriteriaInv'
  BY DEF CriteriaInv, CriteriaTypeOK, TransactionIsDraft, PublicationHasCriteria,
         AdmittedIsPublished, PublishedIsNotEmpty, RubricIsStable, AdmitRun, dbVars, NoCriteria

LEMMA CriteriaStepPreserves == CriteriaInv /\ [Next]_vars => CriteriaInv'
  <1> SUFFICES ASSUME CriteriaInv, [Next]_vars PROVE CriteriaInv'
    OBVIOUS
  <1>1. CASE UNCHANGED vars
    BY <1>1 DEF vars, dbVars, readerVars, CriteriaInv, CriteriaTypeOK, TransactionIsDraft,
         PublicationHasCriteria, AdmittedIsPublished, PublishedIsNotEmpty, RubricIsStable,
         NoCriteria
  <1>2. QED
    BY <1>1, SubmitPreservesCriteria, RequestPreservesCriteria, RollbackPreservesCriteria,
       AdmitRunPreservesCriteria DEF Next

\* The invariant of the version row: its lock is exclusive, what was checked
\* under it stays true, an admitted run's rubric is the current one.
THEOREM CriteriaInvAlways == Spec => []CriteriaInv
  BY InitEstablishesCriteria, CriteriaStepPreserves, PTL DEF Spec

-----------------------------------------------------------------------------
\* Every reachable state is well typed, and the lock belongs to the one
\* transaction in progress.
THEOREM CriteriaAreTyped == Spec => []CriteriaTypeOK
  BY CriteriaInvAlways, PTL DEF CriteriaInv

\* An empty rubric is never published (publishVersion counts the criteria under
\* the lock that their removal needs).
THEOREM NeverPublishedEmpty == Spec => []PublishedIsNotEmpty
  BY CriteriaInvAlways, PTL DEF CriteriaInv

\* The rubric a run listed at its admission stays the rubric of its version.
THEOREM RubricNeverMoves == Spec => []RubricIsStable
  BY CriteriaInvAlways, PTL DEF CriteriaInv

\* No step changes a published version or its criteria.
THEOREM PublishedStaysFrozen == Spec => PublishedIsFrozen
  <1>1. CriteriaInv /\ [Next]_vars => [publishedAt => UNCHANGED dbVars]_vars
    <2> SUFFICES ASSUME CriteriaInv, Next, publishedAt PROVE UNCHANGED dbVars
      OBVIOUS
    <2>1. ASSUME NEW c \in Clients, Request(c) PROVE UNCHANGED dbVars
      <3>1. ~Commit(c)
        BY DEF CriteriaInv, TransactionIsDraft, Commit
      <3>2. QED
        BY <2>1, <3>1 DEF Request, UpdateVersion, FindCriterion, LockVersion, CheckDraft,
             CountCriteria, Apply, dbVars
    <2>2. QED
      BY <2>1 DEF Next, Submit, Rollback, AdmitRun, dbVars
  <1>2. QED
    BY CriteriaInvAlways, <1>1, PTL DEF Spec, PublishedIsFrozen

\* The rubric of a published version exists and is the one its runs listed.
THEOREM RubricAlwaysHolds == Spec => []RubricHolds
  <1>1. PublishedIsNotEmpty /\ RubricIsStable => RubricHolds
    BY DEF RubricHolds
  <1>2. QED
    BY <1>1, NeverPublishedEmpty, RubricNeverMoves, PTL

-----------------------------------------------------------------------------
(* Work judgment.  A phase that returned left its stop reason, in order;   *)
(* the synthesis that ran out of time has no reply; and what was judged    *)
(* names every phase that was cut off.                                     *)

StopsOnRecord ==
    /\ judgePc \in {"idle", "loop", "replied"} => Len(stops) = phase - 1
    /\ judgePc \in {"parse", "judged"} => Len(stops) = LastPhase
    /\ judgePc = "parse" /\ stops[LastPhase] = "time-limit" => reply = NoReply
    /\ judgePc = "judged" => stops[LastPhase] # "time-limit" /\ StoppedPhases \subseteq skippedWork

JudgmentInv == JudgmentTypeOK /\ StopsOnRecord

LEMMA JudgmentBounds == LastPhase \in Nat /\ LastPhase >= 1 /\ MaxToolRounds \in Nat
  <1>1. Phases \in Seq(STRING) /\ Len(Phases) > 0 /\ MaxToolRounds \in Nat
    BY JudgmentAssumption
  <1>2. QED
    BY <1>1, LenProperties DEF LastPhase

LEMMA InitEstablishesJudgment == JudgmentInit => JudgmentInv
  <1> SUFFICES ASSUME JudgmentInit PROVE JudgmentInv
    OBVIOUS
  <1>1. stops \in Seq(StopReasons) /\ Len(stops) = 0
    BY DEF JudgmentInit
  <1>2. NoReply \in Replies
    BY DEF NoReply, Replies
  <1>3. JudgmentTypeOK
    <2>1. phase \in 1 .. LastPhase /\ spent \in Nat /\ rounds \in 0 .. MaxToolRounds
          /\ Len(stops) <= LastPhase
      BY <1>1, JudgmentBounds DEF JudgmentInit
    <2>2. QED
      BY <1>1, <1>2, <2>1 DEF JudgmentInit, JudgmentTypeOK
  <1>4. StopsOnRecord
    BY <1>1 DEF JudgmentInit, StopsOnRecord
  <1>5. QED
    BY <1>3, <1>4 DEF JudgmentInv

\* A phase that returns for a reason, with what it leaves as its reply.
LEMMA EndPhasePreserves ==
    ASSUME JudgmentInv, judgePc \in {"loop", "replied"},
           NEW reason \in StopReasons, NEW last \in Replies, EndPhase(reason, last),
           reason = "time-limit" => last = NoReply
    PROVE  JudgmentInv'
  <1>1. /\ stops \in Seq(StopReasons) /\ Len(stops) = phase - 1 /\ phase \in 1 .. LastPhase
        /\ stops' = Append(stops, reason) /\ reply' = last /\ UNCHANGED skippedWork
    BY DEF JudgmentInv, JudgmentTypeOK, StopsOnRecord, EndPhase
  <1>2. /\ stops' \in Seq(StopReasons) /\ Len(stops') = phase /\ stops'[phase] = reason
    BY <1>1, JudgmentBounds, AppendProperties
  <1>3. CASE phase = LastPhase
    <2>1. judgePc' = "parse" /\ UNCHANGED <<phase, spent, rounds, overdue>>
      BY <1>3 DEF EndPhase
    <2>2. JudgmentTypeOK'
      BY <1>1, <1>2, <1>3, <2>1, JudgmentBounds DEF JudgmentInv, JudgmentTypeOK, LastPhase
    <2>3. StopsOnRecord'
      BY <1>1, <1>2, <1>3, <2>1 DEF StopsOnRecord, LastPhase
    <2>4. QED
      BY <2>2, <2>3 DEF JudgmentInv
  <1>4. CASE phase # LastPhase
    <2>1. judgePc' = "loop" /\ phase' = phase + 1 /\ spent' = 0 /\ rounds' = 0 /\ overdue' = FALSE
      BY <1>4 DEF EndPhase
    <2>2. phase' \in 1 .. LastPhase /\ Len(stops') = phase' - 1 /\ Len(stops') <= LastPhase
      BY <1>1, <1>2, <1>4, <2>1, JudgmentBounds
    <2>3. JudgmentTypeOK'
      <3>1. spent' \in Nat /\ rounds' \in 0 .. MaxToolRounds
        BY <2>1, JudgmentBounds
      <3>2. QED
        BY <1>1, <1>2, <2>1, <2>2, <3>1 DEF JudgmentInv, JudgmentTypeOK, LastPhase
    <2>4. StopsOnRecord'
      BY <2>1, <2>2 DEF StopsOnRecord
    <2>5. QED
      BY <2>3, <2>4 DEF JudgmentInv
  <1>5. QED
    BY <1>3, <1>4

LEMMA HandleReplyPreserves ==
    ASSUME JudgmentInv, HandleReply
    PROVE  JudgmentInv'
  <1>1. judgePc = "replied" /\ reply \in Replies
    BY DEF HandleReply, JudgmentInv, JudgmentTypeOK
  <1>2. CASE \E reason \in {"token-budget", "none", "tool-round-limit"} : EndPhase(reason, reply)
    BY <1>1, <1>2, EndPhasePreserves DEF StopReasons
  <1>3. CASE /\ ~RoundsExhausted /\ rounds' = NextRound /\ judgePc' = "loop"
             /\ UNCHANGED <<phase, spent, overdue, reply, stops, skippedWork>>
    <2>1. rounds' \in 0 .. MaxToolRounds
      BY <1>3, JudgmentBounds DEF RoundsExhausted, NextRound, JudgmentInv, JudgmentTypeOK
    <2>2. JudgmentTypeOK'
      BY <1>3, <2>1 DEF JudgmentInv, JudgmentTypeOK, LastPhase
    <2>3. StopsOnRecord'
      BY <1>1, <1>3 DEF JudgmentInv, StopsOnRecord
    <2>4. QED
      BY <2>2, <2>3 DEF JudgmentInv
  <1>4. QED
    BY <1>2, <1>3 DEF HandleReply

LEMMA ParsePreserves ==
    ASSUME JudgmentInv, NEW listed \in {{}, {"listed"}}, Parse(listed)
    PROVE  JudgmentInv'
  <1>1. /\ judgePc = "parse" /\ Len(stops) = LastPhase
        /\ UNCHANGED <<phase, spent, rounds, overdue, reply, stops>>
    BY DEF Parse, JudgmentInv, StopsOnRecord
  <1>2. CASE reply.text = "judgment"
    <2>1. skippedWork' = listed \union StoppedPhases /\ judgePc' = "judged"
      BY <1>2 DEF Parse
    <2>2. StoppedPhases \subseteq ToSet(Phases)
      <3>1. Phases \in Seq(STRING)
        BY JudgmentAssumption
      <3>2. DOMAIN Phases = 1 .. LastPhase
        BY <3>1, LenProperties DEF LastPhase
      <3>3. QED
        BY <3>2 DEF StoppedPhases, ToSet
    <2>3. stops[LastPhase] # "time-limit"
      <3>1. reply # NoReply
        BY <1>2 DEF NoReply
      <3>2. QED
        BY <1>1, <3>1 DEF JudgmentInv, StopsOnRecord
    <2>4. JudgmentTypeOK'
      BY <1>1, <2>1, <2>2 DEF JudgmentInv, JudgmentTypeOK, LastPhase
    <2>5. StopsOnRecord'
      BY <1>1, <2>1, <2>3 DEF StopsOnRecord, StoppedPhases, LastPhase
    <2>6. QED
      BY <2>4, <2>5 DEF JudgmentInv
  <1>3. CASE reply.text # "judgment"
    BY <1>1, <1>3 DEF Parse, JudgmentInv, JudgmentTypeOK, StopsOnRecord, LastPhase
  <1>4. QED
    BY <1>2, <1>3

\* Steps that end no phase.
LEMMA JudgmentMovesPreserve ==
    ASSUME JudgmentInv,
           \/ Judge \/ DeadlinePasses \/ CompleteFails \/ UNCHANGED judgeVars
           \/ \E r \in Replies, usage \in Usages : Complete(r, usage)
    PROVE  JudgmentInv'
  <1>1. CASE Judge \/ DeadlinePasses \/ CompleteFails \/ UNCHANGED judgeVars
    BY <1>1 DEF Judge, DeadlinePasses, CompleteFails, judgeVars, JudgmentInv, JudgmentTypeOK,
                StopsOnRecord, StoppedPhases, LastPhase
  <1>2. ASSUME NEW r \in Replies, NEW usage \in Usages, Complete(r, usage) PROVE JudgmentInv'
    <2>1. spent' \in Nat
      <3>1. usage \in Nat
        BY JudgmentAssumption
      <3>2. spent \in Nat /\ spent' = spent + usage
        BY <1>2 DEF Complete, JudgmentInv, JudgmentTypeOK
      <3>3. QED
        BY <3>1, <3>2
    <2>2. QED
      BY <1>2, <2>1 DEF Complete, JudgmentInv, JudgmentTypeOK, StopsOnRecord, LastPhase
  <1>3. QED
    BY <1>1, <1>2

LEMMA JudgmentStepPreserves == JudgmentInv /\ [JudgmentNext]_judgeVars => JudgmentInv'
  <1> SUFFICES ASSUME JudgmentInv, [JudgmentNext]_judgeVars PROVE JudgmentInv'
    OBVIOUS
  <1>1. CASE TimeLimit
    <2>1. NoReply \in Replies /\ "time-limit" \in StopReasons
      BY DEF NoReply, Replies, StopReasons
    <2>2. QED
      BY <1>1, <2>1, EndPhasePreserves DEF TimeLimit
  <1>2. CASE HandleReply
    BY <1>2, HandleReplyPreserves
  <1>3. CASE \E listed \in {{}, {"listed"}} : Parse(listed)
    BY <1>3, ParsePreserves
  <1>4. CASE \/ Judge \/ DeadlinePasses \/ CompleteFails \/ UNCHANGED judgeVars
             \/ \E r \in Replies, usage \in Usages : Complete(r, usage)
    BY <1>4, JudgmentMovesPreserve
  <1>5. QED
    BY <1>1, <1>2, <1>3, <1>4 DEF JudgmentNext, JudgeStep

LEMMA JudgmentInvariant == JudgmentSpec => []JudgmentInv
  BY InitEstablishesJudgment, JudgmentStepPreserves, PTL DEF JudgmentSpec

\* The agent's state keeps its types: no phase makes more tool rounds than the
\* ceiling.
THEOREM JudgmentIsTyped == JudgmentSpec => []JudgmentTypeOK
  <1>1. JudgmentInv => JudgmentTypeOK
    BY DEF JudgmentInv
  <1>2. QED
    BY <1>1, JudgmentInvariant, PTL

\* Whatever budgets, deadlines and ceilings cut off, a judgment names the phase
\* in its skipped bucket, and a synthesis that ran out of time yields none.
THEOREM CutOffsAreNamed == JudgmentSpec => []EarlyStopsAreOnRecord
  <1>1. JudgmentInv => EarlyStopsAreOnRecord
    BY DEF JudgmentInv, StopsOnRecord, EarlyStopsAreOnRecord, StoppedPhases
  <1>2. QED
    BY <1>1, JudgmentInvariant, PTL

-----------------------------------------------------------------------------
(* The report queue *)

OnePerReport(s) == \A i, j \in 1 .. Len(s) : s[i].report = s[j].report => i = j

Waiting == ToSet(queue)
Parked == ToSet(deadLetters)
Trimming == {d \in Drains : drainPc[d] = "trim"}

\* The types without the length of the dead letters, which counts the ticks.
QueueShape ==
    /\ queue \in Seq(Messages) /\ deadLetters \in Seq(Reports)
    /\ rows \in [Reports -> [Kinds -> 0 .. MaxAttempts + 1]]
    /\ drainPc \in [Drains -> {"idle", "collect", "flush", "requeue", "trim"}]
    /\ destination \in [Drains -> 1 .. Len(Destinations)]
    /\ batch \in [Drains -> SUBSET Messages]
    /\ failedApps \in [Drains -> SUBSET Apps]
    /\ arrived \subseteq Reports /\ discarded \subseteq arrived
    /\ refusals \in [Reports -> 0 .. MaxAttempts + 1]
    /\ losses \in 0 .. MaxLosses

DeadLettersFit == Len(deadLetters) <= MaxDeadLetters + losses + Cardinality(Trimming)

\* An idle tick holds nothing, and the destinations are flushed from the first.
TicksAreReset ==
    \A d \in Drains :
        /\ drainPc[d] = "idle" => batch[d] = {}
        /\ drainPc[d] # "flush" => destination[d] = 1

\* A report is in the queue, in one tick, or parked.
OnePlace ==
    /\ OnePerReport(queue)
    /\ \A d \in Drains : \A m \in batch[d] : \A n \in Waiting : m.report # n.report
    /\ \A d, e \in Drains : \A m \in batch[d] : \A n \in batch[e] :
           m.report = n.report => d = e /\ m = n
    /\ \A n \in Waiting : n.report \notin Parked
    /\ \A d \in Drains : \A m \in batch[d] : m.report \notin Parked

OnlyArrived ==
    /\ \A n \in Waiting : n.report \in arrived
    /\ \A d \in Drains : \A m \in batch[d] : m.report \in arrived
    /\ Parked \subseteq arrived

\* A message carries the refusals of its report.
Carries(m) == m.attempts = refusals[m.report] /\ m.attempts < MaxAttempts

\* A waiting report was written at most once per refusal.
WaitsWithin(m) == Carries(m) /\ \A k \in Kinds : rows[m.report][k] <= m.attempts

\* The tick is past its i-th destination.
Past(d, i) == (drainPc[d] = "flush" /\ i < destination[d]) \/ drainPc[d] \in {"requeue", "trim"}

\* A tick adds one write to a destination it is past; it is missing only where
\* the app is marked.
WrittenWithin(d, m) ==
    /\ Carries(m)
    /\ \A i \in 1 .. Len(Destinations) :
           /\ ~Past(d, i) => rows[m.report][Destinations[i]] <= m.attempts
           /\ Past(d, i) => rows[m.report][Destinations[i]] <= m.attempts + 1
           /\ Past(d, i) /\ AppOf[m.report] \notin failedApps[d] =>
                  rows[m.report][Destinations[i]] > 0

WithinAttempts ==
    /\ \A n \in Waiting : WaitsWithin(n)
    /\ \A d \in Drains : \A m \in batch[d] : WrittenWithin(d, m)
    /\ \A r \in Parked : refusals[r] = MaxAttempts
    /\ \A r \in Reports \ arrived : refusals[r] = 0 /\ \A k \in Kinds : rows[r][k] = 0
    /\ DeliveriesAreBounded

QueueInv ==
    /\ QueueShape /\ DeadLettersFit /\ TicksAreReset /\ OnePlace /\ OnlyArrived
    /\ WithinAttempts /\ NothingIsLost

LEMMA QueueBounds ==
    /\ \A r \in Reports : AppOf[r] \in Apps
    /\ IsFiniteSet(Drains)
    /\ Len(Destinations) \in Nat /\ Len(Destinations) > 0
    /\ Kinds = {Destinations[i] : i \in 1 .. Len(Destinations)}
    /\ \A i, j \in 1 .. Len(Destinations) : Destinations[i] = Destinations[j] => i = j
    /\ BatchSize \in Nat /\ BatchSize > 0 /\ MaxAttempts \in Nat /\ MaxAttempts > 0
    /\ MaxDeadLetters \in Nat /\ MaxDeadLetters > 0 /\ MaxLosses \in Nat
  <1>1. /\ \A r \in Reports : AppOf[r] \in Apps
        /\ IsFiniteSet(Drains)
    BY QueueAssumption
  <1>2. /\ BatchSize \in Nat /\ BatchSize > 0 /\ MaxAttempts \in Nat /\ MaxAttempts > 0
        /\ MaxDeadLetters \in Nat /\ MaxDeadLetters > 0 /\ MaxLosses \in Nat
    BY QueueAssumption
  <1>3. Destinations \in Seq(STRING) /\ Destinations # << >> /\ IsInjective(Destinations)
    BY QueueAssumption
  <1>4. Len(Destinations) \in Nat /\ DOMAIN Destinations = 1 .. Len(Destinations)
    BY <1>3, LenProperties
  <1>5. Len(Destinations) > 0
    BY <1>3, <1>4, EmptySeq
  <1>6. QED
    BY <1>1, <1>2, <1>3, <1>4, <1>5 DEF IsInjective, Kinds, ToSet

\* What LPUSH does to a list.
LEMMA PushedList ==
    ASSUME NEW S, NEW s \in Seq(S), NEW x \in S
    PROVE  /\ <<x>> \o s \in Seq(S)
           /\ Len(<<x>> \o s) = Len(s) + 1
           /\ ToSet(<<x>> \o s) = ToSet(s) \union {x}
           /\ OnePerReport(s) /\ (\A y \in ToSet(s) : y.report # x.report) =>
                  OnePerReport(<<x>> \o s)
  <1> DEFINE t == <<x>> \o s
  <1>1. <<x>> \in Seq(S) /\ Len(<<x>>) = 1 /\ <<x>>[1] = x
    OBVIOUS
  <1>2. Len(s) \in Nat /\ DOMAIN s = 1 .. Len(s)
    BY LenProperties
  <1>3. /\ t \in Seq(S) /\ Len(t) = Len(s) + 1
        /\ \A i \in 1 .. Len(s) + 1 : t[i] = IF i = 1 THEN x ELSE s[i - 1]
    BY <1>1, <1>2, ConcatProperties
  <1>4. DOMAIN t = 1 .. Len(s) + 1
    BY <1>3, LenProperties
  <1>5. \A i \in 1 .. Len(s) : i + 1 \in 1 .. Len(s) + 1 /\ t[i + 1] = s[i]
    BY <1>2, <1>3
  <1>6. t[1] = x /\ 1 \in 1 .. Len(s) + 1
    BY <1>2, <1>3
  <1>7. \A i \in 2 .. Len(s) + 1 : i - 1 \in 1 .. Len(s) /\ t[i] = s[i - 1]
    BY <1>2, <1>3
  <1> HIDE DEF t
  <1>8. \A i \in 1 .. Len(s) + 1 : i = 1 \/ i \in 2 .. Len(s) + 1
    BY <1>2
  <1>9. ToSet(t) = ToSet(s) \union {x}
    <2>1. \A i \in 1 .. Len(s) + 1 : t[i] \in ToSet(s) \union {x}
      BY <1>2, <1>6, <1>7, <1>8 DEF ToSet
    <2>2. x \in ToSet(t) /\ \A i \in 1 .. Len(s) : s[i] \in ToSet(t)
      BY <1>4, <1>5, <1>6 DEF ToSet
    <2>3. QED
      BY <1>2, <1>4, <2>1, <2>2 DEF ToSet
  <1>10. ASSUME OnePerReport(s), \A y \in ToSet(s) : y.report # x.report
         PROVE  OnePerReport(t)
    <2> SUFFICES ASSUME NEW i \in 1 .. Len(s) + 1, NEW j \in 1 .. Len(s) + 1, t[i].report = t[j].report
                 PROVE  i = j
      BY <1>3 DEF OnePerReport, t
    <2>1. \A n \in 2 .. Len(s) + 1 : t[n] \in ToSet(s)
      BY <1>2, <1>7 DEF ToSet
    <2>2. i = 1 <=> j = 1
      BY <1>6, <1>8, <1>10, <2>1
    <2>3. CASE i # 1 /\ j # 1
      <3>1. /\ i - 1 \in 1 .. Len(s) /\ j - 1 \in 1 .. Len(s)
            /\ s[i - 1].report = s[j - 1].report
        BY <1>7, <1>8, <2>3
      <3>2. i - 1 = j - 1
        BY <1>10, <3>1 DEF OnePerReport
      <3>3. QED
        BY <3>2
    <2>4. QED
      BY <2>2, <2>3
  <1>11. QED
    BY <1>3, <1>9, <1>10 DEF t

LEMMA NextOrLast ==
    ASSUME NEW n \in Nat, NEW r \in Nat, r <= n
    PROVE  r + 1 <= n \/ n - r = 0
  OBVIOUS

\* What RPOP with a count does to a list: it is cut in two.
LEMMA CutList ==
    ASSUME NEW S, NEW s \in Seq(S), NEW rest \in Nat, rest <= Len(s)
    PROVE  LET front == SubSeq(s, 1, rest)
               back == SubSeq(s, rest + 1, Len(s))
           IN  /\ front \in Seq(S) /\ Len(front) = rest
               /\ ToSet(front) \subseteq ToSet(s) /\ ToSet(back) \subseteq ToSet(s)
               /\ ToSet(back) \subseteq S /\ ToSet(s) \subseteq ToSet(front) \union ToSet(back)
               /\ OnePerReport(s) =>
                     /\ OnePerReport(front)
                     /\ \A x \in ToSet(front) : \A y \in ToSet(back) : x.report # y.report
                     /\ \A x, y \in ToSet(back) : x.report = y.report => x = y
  <1> DEFINE front == SubSeq(s, 1, rest)
             back == SubSeq(s, rest + 1, Len(s))
  <1>1. Len(s) \in Nat /\ DOMAIN s = 1 .. Len(s) /\ \A i \in 1 .. Len(s) : s[i] \in S
    BY LenProperties, ElementOfSeq
  <1>2. front \in Seq(S) /\ Len(front) = rest /\ \A i \in 1 .. rest : front[i] = s[i]
    <2>1. \A i \in 1 .. rest : s[i] \in S
      BY <1>1
    <2>2. QED
      BY <1>1, <2>1, SubSeqProperties
  <1>3. /\ back \in Seq(S) /\ Len(back) = Len(s) - rest
        /\ \A i \in 1 .. Len(s) - rest : back[i] = s[rest + i]
    <2>1. \A i \in rest + 1 .. Len(s) : s[i] \in S
      BY <1>1
    <2>2. /\ back \in Seq(S)
          /\ Len(back) = IF rest + 1 <= Len(s) THEN Len(s) - (rest + 1) + 1 ELSE 0
          /\ \A i \in 1 .. Len(s) - (rest + 1) + 1 : back[i] = s[rest + 1 + i - 1]
      BY <1>1, <2>1, SubSeqProperties
    <2> HIDE DEF back
    <2>3. Len(s) - (rest + 1) + 1 = Len(s) - rest
      BY <1>1
    <2>4. \A i \in 1 .. Len(s) - rest : rest + 1 + i - 1 = rest + i
      BY <1>1
    <2>5. rest + 1 <= Len(s) \/ Len(s) - rest = 0
      BY <1>1, NextOrLast
    <2>6. QED
      BY <2>2, <2>3, <2>4, <2>5
  <1>4. DOMAIN front = 1 .. rest /\ DOMAIN back = 1 .. Len(s) - rest
    BY <1>2, <1>3, LenProperties
  <1> HIDE DEF front, back
  <1>5. \A x \in ToSet(front) : \E i \in 1 .. Len(s) : i <= rest /\ x = s[i]
    BY <1>1, <1>2, <1>4 DEF ToSet
  <1>6. \A x \in ToSet(back) : \E i \in 1 .. Len(s) : i > rest /\ x = s[i]
    <2> SUFFICES ASSUME NEW i \in 1 .. Len(s) - rest
                 PROVE  rest + i \in 1 .. Len(s) /\ rest + i > rest /\ back[i] = s[rest + i]
      BY <1>4 DEF ToSet
    <2>1. QED
      BY <1>1, <1>3
  <1>7. \A i \in 1 .. Len(s) : s[i] \in ToSet(front) \union ToSet(back)
    <2> SUFFICES ASSUME NEW i \in 1 .. Len(s) PROVE s[i] \in ToSet(front) \union ToSet(back)
      OBVIOUS
    <2>1. CASE i <= rest
      BY <1>1, <1>2, <1>4, <2>1 DEF ToSet
    <2>2. CASE i > rest
      <3>1. i - rest \in 1 .. Len(s) - rest /\ rest + (i - rest) = i
        BY <1>1, <2>2
      <3>2. back[i - rest] = s[i]
        BY <1>3, <3>1
      <3>3. QED
        BY <1>4, <3>1, <3>2 DEF ToSet
    <2>3. QED
      BY <1>1, <2>1, <2>2
  <1>8. /\ ToSet(front) \subseteq ToSet(s) /\ ToSet(back) \subseteq ToSet(s)
        /\ ToSet(back) \subseteq S /\ ToSet(s) \subseteq ToSet(front) \union ToSet(back)
    <2>1. \A x : x \in ToSet(s) <=> \E i \in 1 .. Len(s) : x = s[i]
      BY <1>1 DEF ToSet
    <2>2. QED
      BY <1>1, <1>5, <1>6, <1>7, <2>1
  <1>9. ASSUME OnePerReport(s)
        PROVE  /\ OnePerReport(front)
               /\ \A x \in ToSet(front) : \A y \in ToSet(back) : x.report # y.report
               /\ \A x, y \in ToSet(back) : x.report = y.report => x = y
    <2>1. OnePerReport(front)
      BY <1>1, <1>2, <1>9 DEF OnePerReport
    <2>2. \A x \in ToSet(front) : \A y \in ToSet(back) : x.report # y.report
      <3> SUFFICES ASSUME NEW x \in ToSet(front), NEW y \in ToSet(back), x.report = y.report
                   PROVE  FALSE
        OBVIOUS
      <3>1. PICK i \in 1 .. Len(s) : i <= rest /\ x = s[i]
        BY <1>5
      <3>2. PICK j \in 1 .. Len(s) : j > rest /\ y = s[j]
        BY <1>6
      <3>3. QED
        BY <1>1, <1>9, <3>1, <3>2 DEF OnePerReport
    <2>3. \A x, y \in ToSet(back) : x.report = y.report => x = y
      BY <1>6, <1>9 DEF OnePerReport
    <2>4. QED
      BY <2>1, <2>2, <2>3
  <1>10. QED
    BY <1>2, <1>8, <1>9 DEF front, back

LEMMA QueueTypes == QueueTypeOK <=> QueueShape /\ DeadLettersFit
  BY DEF QueueTypeOK, QueueShape, DeadLettersFit, Trimming

\* The counts of ticks.
LEMMA TrimmingIsFinite == IsFiniteSet(Trimming) /\ Cardinality(Trimming) \in Nat
  <1>1. Trimming \in SUBSET Drains
    BY DEF Trimming
  <1>2. QED
    BY <1>1, QueueBounds, FS_Subset, FS_CardinalityType

\* The history counts a step at a time, below its cap.
LEMMA CountedOnce ==
    ASSUME NEW n \in Nat
    PROVE  /\ n <= MaxAttempts => Counted(n) = n + 1
           /\ n <= MaxAttempts + 1 => Counted(n) \in 0 .. MaxAttempts + 1
           /\ Counted(n) > 0 /\ Counted(n) >= n
  BY QueueBounds DEF Counted

-----------------------------------------------------------------------------
LEMMA InitEstablishesQueue == QueueInit => QueueInv
  <1> SUFFICES ASSUME QueueInit PROVE QueueInv
    OBVIOUS
  <1>1. /\ queue \in Seq(Messages) /\ deadLetters \in Seq(Reports)
        /\ Len(queue) = 0 /\ Len(deadLetters) = 0
    BY DEF QueueInit
  <1>2. Waiting = {} /\ Parked = {}
    <2>1. DOMAIN queue = {} /\ DOMAIN deadLetters = {}
      BY <1>1, LenProperties
    <2>2. QED
      BY <2>1 DEF Waiting, Parked, ToSet
  <1>3. /\ rows \in [Reports -> [Kinds -> 0 .. MaxAttempts + 1]]
        /\ refusals \in [Reports -> 0 .. MaxAttempts + 1]
        /\ losses \in 0 .. MaxLosses
        /\ \A r \in Reports : refusals[r] = 0 /\ \A k \in Kinds : rows[r][k] = 0
    BY QueueBounds DEF QueueInit
  <1>4. /\ drainPc \in [Drains -> {"idle", "collect", "flush", "requeue", "trim"}]
        /\ batch \in [Drains -> SUBSET Messages] /\ failedApps \in [Drains -> SUBSET Apps]
        /\ \A d \in Drains : drainPc[d] = "idle" /\ batch[d] = {}
    BY DEF QueueInit
  <1>5. /\ destination \in [Drains -> 1 .. Len(Destinations)]
        /\ \A d \in Drains : destination[d] = 1
    BY QueueBounds DEF QueueInit
  <1>6. arrived = {} /\ discarded = {}
    BY DEF QueueInit
  <1>7. QueueShape
    BY <1>1, <1>3, <1>4, <1>5, <1>6 DEF QueueShape
  <1>8. DeadLettersFit
    BY <1>1, <1>3, TrimmingIsFinite, QueueBounds DEF DeadLettersFit
  <1>9. TicksAreReset /\ OnePlace /\ OnlyArrived
    BY <1>1, <1>2, <1>4, <1>5 DEF TicksAreReset, OnePlace, OnlyArrived, OnePerReport
  <1>10. DeliveriesAreBounded
    BY <1>3, QueueBounds DEF DeliveriesAreBounded
  <1>11. WithinAttempts
    BY <1>2, <1>3, <1>4, <1>10 DEF WithinAttempts
  <1>12. NothingIsLost
    BY <1>6 DEF NothingIsLost
  <1>13. QED
    BY <1>7, <1>8, <1>9, <1>11, <1>12 DEF QueueInv

-----------------------------------------------------------------------------
(* What the steps leave alone *)

OtherTicks(d) ==
    \A e \in Drains \ {d} :
        /\ drainPc'[e] = drainPc[e] /\ destination'[e] = destination[e]
        /\ batch'[e] = batch[e] /\ failedApps'[e] = failedApps[e]

\* The counts of a report that is not in the tick of d.
CountsElsewhere(d) ==
    \A r \in Reports :
        r \notin ReportsOf(batch[d]) => rows'[r] = rows[r] /\ refusals'[r] = refusals[r]

LEMMA FieldsOfMessages ==
    ASSUME QueueShape
    PROVE  /\ \A n \in Waiting : n \in Messages
           /\ \A d \in Drains : \A m \in batch[d] : m \in Messages
           /\ \A m \in Messages : m.report \in Reports /\ m.attempts \in 0 .. MaxAttempts
           /\ Parked \subseteq Reports
  <1>1. \A n \in Waiting : n \in Messages
    <2>1. queue \in Seq(Messages)
      BY DEF QueueShape
    <2>2. QED
      BY <2>1, LenProperties, ElementOfSeq DEF Waiting, ToSet
  <1>2. Parked \subseteq Reports
    <2>1. deadLetters \in Seq(Reports)
      BY DEF QueueShape
    <2>2. QED
      BY <2>1, LenProperties, ElementOfSeq DEF Parked, ToSet
  <1>3. QED
    BY <1>1, <1>2 DEF QueueShape, Messages

LEMMA CountsOfOthers ==
    ASSUME QueueInv, NEW d \in Drains, OtherTicks(d), CountsElsewhere(d)
    PROVE  /\ \A n \in Waiting : WaitsWithin(n)'
           /\ \A e \in Drains \ {d} : \A m \in batch'[e] : WrittenWithin(e, m)'
           /\ \A r \in Parked : refusals'[r] = MaxAttempts
  <1>1. QueueShape /\ OnePlace /\ WithinAttempts
    BY DEF QueueInv
  <1>2. \A n \in Waiting : n.report \in Reports /\ n.report \notin ReportsOf(batch[d])
    BY <1>1, FieldsOfMessages DEF OnePlace, ReportsOf
  <1>3. \A e \in Drains \ {d} : \A m \in batch[e] :
            m.report \in Reports /\ m.report \notin ReportsOf(batch[d])
    BY <1>1, FieldsOfMessages DEF OnePlace, ReportsOf
  <1>4. \A r \in Parked : r \in Reports /\ r \notin ReportsOf(batch[d])
    BY <1>1, FieldsOfMessages DEF OnePlace, ReportsOf
  <1>5. \A n \in Waiting : WaitsWithin(n)'
    BY <1>1, <1>2 DEF CountsElsewhere, WithinAttempts, WaitsWithin, Carries
  <1>6. \A e \in Drains \ {d} : \A m \in batch'[e] : WrittenWithin(e, m)'
    <2> SUFFICES ASSUME NEW e \in Drains \ {d}, NEW m \in batch[e]
                 PROVE  WrittenWithin(e, m)'
      BY DEF OtherTicks
    <2>1. WrittenWithin(e, m)
      BY <1>1 DEF WithinAttempts
    <2>2. rows'[m.report] = rows[m.report] /\ refusals'[m.report] = refusals[m.report]
      BY <1>3 DEF CountsElsewhere
    <2>3. \A i : Past(e, i)' <=> Past(e, i)
      BY DEF Past, OtherTicks
    <2>4. failedApps'[e] = failedApps[e]
      BY DEF OtherTicks
    <2>5. QED
      BY <2>1, <2>2, <2>3, <2>4 DEF WrittenWithin, Carries
  <1>7. QED
    BY <1>1, <1>4, <1>5, <1>6 DEF CountsElsewhere, WithinAttempts

\* The types of a tick that ends.
LEMMA ForgetTypes ==
    ASSUME QueueShape, NEW d \in Drains, Forget(d)
    PROVE  /\ drainPc' \in [Drains -> {"idle", "collect", "flush", "requeue", "trim"}]
           /\ destination' \in [Drains -> 1 .. Len(Destinations)]
           /\ batch' \in [Drains -> SUBSET Messages]
           /\ failedApps' \in [Drains -> SUBSET Apps]
           /\ drainPc'[d] = "idle" /\ batch'[d] = {} /\ destination'[d] = 1 /\ OtherTicks(d)
           /\ Trimming' = Trimming \ {d}
  <1>1. 1 \in 1 .. Len(Destinations)
    BY QueueBounds
  <1>2. /\ drainPc' \in [Drains -> {"idle", "collect", "flush", "requeue", "trim"}]
        /\ drainPc'[d] = "idle"
    BY DEF Forget, QueueShape
  <1>3. destination' \in [Drains -> 1 .. Len(Destinations)] /\ destination'[d] = 1
    BY <1>1 DEF Forget, QueueShape
  <1>4. /\ batch' \in [Drains -> SUBSET Messages] /\ batch'[d] = {}
        /\ failedApps' \in [Drains -> SUBSET Apps]
    BY DEF Forget, QueueShape
  <1>5. OtherTicks(d)
    BY DEF Forget, QueueShape, OtherTicks
  <1>6. Trimming' = Trimming \ {d}
    BY <1>2, <1>5 DEF Trimming, OtherTicks
  <1>7. QED
    BY <1>2, <1>3, <1>4, <1>5, <1>6

\* Where a report that was not given up is.
Somewhere(r) ==
    \/ Stored(r) \/ r \in Parked
    \/ \E n \in Waiting : n.report = r
    \/ \E d \in Drains : \E m \in batch[d] : m.report = r

LEMMA LostOrSomewhere ==
    NothingIsLost <=> (losses = 0 => \A r \in arrived \ discarded : Somewhere(r))
  BY DEF NothingIsLost, Somewhere, ReportsOf, Parked, Waiting

-----------------------------------------------------------------------------
LEMMA ArrivePreservesQueue ==
    ASSUME QueueInv, NEW r \in Reports, Arrive(r)
    PROVE  QueueInv'
  <1> DEFINE m == [report |-> r, attempts |-> 0]
  <1>1. /\ r \notin arrived /\ arrived' = arrived \union {r} /\ queue' = <<m>> \o queue
        /\ UNCHANGED <<deadLetters, rows, drainPc, destination, batch, failedApps, discarded,
                       refusals, losses>>
    BY DEF Arrive, drainVars
  <1>2. m.report = r /\ m.attempts = 0 /\ m \in Messages
    BY QueueBounds DEF Messages
  <1>3. QueueShape /\ OnePlace /\ OnlyArrived /\ WithinAttempts
    BY DEF QueueInv
  <1> HIDE DEF m
  <1>4. /\ queue' \in Seq(Messages) /\ Waiting' = Waiting \union {m} /\ Parked' = Parked
        /\ (\A y \in Waiting : y.report # r) => OnePerReport(queue')
    <2>1. queue \in Seq(Messages) /\ OnePerReport(queue)
      BY <1>3 DEF QueueShape, OnePlace
    <2>2. QED
      BY <1>1, <1>2, <2>1, PushedList DEF Waiting, Parked
  <1>5. QueueShape'
    BY <1>1, <1>3, <1>4 DEF QueueShape, Messages, Kinds
  <1>6. DeadLettersFit' /\ TicksAreReset'
    BY <1>1 DEF QueueInv, DeadLettersFit, Trimming, TicksAreReset
  <1>7. /\ \A n \in Waiting : n.report # r
        /\ \A d \in Drains : \A n \in batch[d] : n.report # r
        /\ r \notin Parked
    BY <1>1, <1>3 DEF OnlyArrived
  <1>8. OnePlace'
    BY <1>1, <1>2, <1>3, <1>4, <1>7 DEF OnePlace
  <1>9. OnlyArrived'
    BY <1>1, <1>2, <1>3, <1>4 DEF OnlyArrived
  <1>10. WithinAttempts'
    <2>1. WaitsWithin(m)'
      <3>1. refusals[r] = 0 /\ \A k \in Kinds : rows[r][k] = 0
        BY <1>1, <1>3 DEF WithinAttempts
      <3>2. QED
        BY <1>1, <1>2, <3>1, QueueBounds DEF WaitsWithin, Carries
    <2>2. \A n \in Waiting : WaitsWithin(n)'
      BY <1>1, <1>3 DEF WithinAttempts, WaitsWithin, Carries
    <2>3. \A d \in Drains : \A n \in batch[d] : WrittenWithin(d, n)'
      BY <1>1, <1>3 DEF WithinAttempts, WrittenWithin, Carries, Past
    <2>4. DeliveriesAreBounded'
      BY <1>1, <1>3 DEF WithinAttempts, DeliveriesAreBounded
    <2>5. QED
      BY <1>1, <1>3, <1>4, <2>1, <2>2, <2>3, <2>4 DEF WithinAttempts
  <1>11. NothingIsLost'
    <2>1. losses = 0 => \A q \in arrived \ discarded : Somewhere(q)
      BY LostOrSomewhere DEF QueueInv
    <2>2. losses' = 0 => \A q \in arrived' \ discarded' : Somewhere(q)'
      BY <1>1, <1>2, <1>4, <2>1 DEF Somewhere, Stored
    <2>3. QED
      BY <2>2 DEF NothingIsLost, Somewhere, ReportsOf, Parked, Waiting
  <1>12. QED
    BY <1>5, <1>6, <1>8, <1>9, <1>10, <1>11 DEF QueueInv

LEMMA PopPreservesQueue ==
    ASSUME QueueInv, NEW d \in Drains, Pop(d)
    PROVE  QueueInv'
  <1> DEFINE rest == Len(queue) - (IF Len(queue) < BatchSize THEN Len(queue) ELSE BatchSize)
             popped == ToSet(SubSeq(queue, rest + 1, Len(queue)))
  <1>1. /\ drainPc[d] = "idle" /\ drainPc' = [drainPc EXCEPT ![d] = "collect"]
        /\ batch' = [batch EXCEPT ![d] = popped]
        /\ queue' = SubSeq(queue, 1, rest)
        /\ UNCHANGED <<deadLetters, rows, destination, failedApps, arrived, discarded, refusals,
                       losses>>
    BY DEF Pop, queueHistory
  <1>2. QueueShape /\ OnePlace /\ OnlyArrived /\ WithinAttempts /\ TicksAreReset
    BY DEF QueueInv
  <1>3. queue \in Seq(Messages) /\ OnePerReport(queue)
    BY <1>2 DEF QueueShape, OnePlace
  <1>4. Len(queue) \in Nat /\ rest \in Nat /\ rest <= Len(queue)
    <2>1. Len(queue) \in Nat
      BY <1>3, LenProperties
    <2>2. QED
      BY <2>1, QueueBounds
  <1> HIDE DEF rest
  <1>5. /\ queue' \in Seq(Messages) /\ OnePerReport(queue')
        /\ Waiting' \subseteq Waiting /\ popped \subseteq Waiting /\ popped \subseteq Messages
        /\ Waiting \subseteq Waiting' \union popped
        /\ \A x \in Waiting' : \A y \in popped : x.report # y.report
        /\ \A x, y \in popped : x.report = y.report => x = y
    BY <1>1, <1>3, <1>4, CutList DEF Waiting
  <1> HIDE DEF popped
  <1>6. /\ drainPc' \in [Drains -> {"idle", "collect", "flush", "requeue", "trim"}]
        /\ batch' \in [Drains -> SUBSET Messages]
        /\ drainPc'[d] = "collect" /\ batch'[d] = popped /\ batch[d] = {} /\ OtherTicks(d)
    <2>1. batch[d] = {}
      BY <1>1, <1>2 DEF TicksAreReset
    <2>2. QED
      BY <1>1, <1>2, <1>5, <2>1 DEF QueueShape, OtherTicks
  <1>7. Parked' = Parked /\ Trimming' = Trimming
    BY <1>1, <1>6 DEF Parked, Trimming, OtherTicks
  <1>8. QueueShape'
    BY <1>1, <1>2, <1>5, <1>6 DEF QueueShape, Messages, Kinds
  <1>9. DeadLettersFit' /\ TicksAreReset'
    BY <1>1, <1>6, <1>7 DEF QueueInv, DeadLettersFit, TicksAreReset, OtherTicks
  <1>10. OnePlace'
    <2>1. \A e \in Drains : \A m \in batch'[e] : \A n \in Waiting' : m.report # n.report
      BY <1>2, <1>5, <1>6 DEF OnePlace, OtherTicks
    <2>2. \A e, f \in Drains : \A m \in batch'[e] : \A n \in batch'[f] :
              m.report = n.report => e = f /\ m = n
      BY <1>2, <1>5, <1>6 DEF OnePlace, OtherTicks
    <2>3. /\ \A n \in Waiting' : n.report \notin Parked'
          /\ \A e \in Drains : \A m \in batch'[e] : m.report \notin Parked'
      BY <1>2, <1>5, <1>6, <1>7 DEF OnePlace, OtherTicks
    <2>4. QED
      BY <1>5, <2>1, <2>2, <2>3 DEF OnePlace
  <1>11. OnlyArrived'
    BY <1>1, <1>2, <1>5, <1>6, <1>7 DEF OnlyArrived, OtherTicks
  <1>12. WithinAttempts'
    <2>1. CountsElsewhere(d)
      BY <1>1 DEF CountsElsewhere
    <2>2. /\ \A n \in Waiting : WaitsWithin(n)'
          /\ \A e \in Drains \ {d} : \A m \in batch'[e] : WrittenWithin(e, m)'
          /\ \A r \in Parked : refusals'[r] = MaxAttempts
      BY <1>6, <2>1, CountsOfOthers
    <2>3. \A m \in popped : WrittenWithin(d, m)'
      <3>1. \A m \in popped : WaitsWithin(m) /\ m \in Messages
        BY <1>2, <1>5 DEF WithinAttempts
      <3>2. \A i \in 1 .. Len(Destinations) : Destinations[i] \in Kinds /\ ~Past(d, i)'
        BY <1>6, QueueBounds DEF Past
      <3>3. QED
        BY <1>1, <3>1, <3>2 DEF WaitsWithin, WrittenWithin, Carries
    <2>4. DeliveriesAreBounded'
      BY <1>1, <1>2 DEF WithinAttempts, DeliveriesAreBounded
    <2>5. QED
      BY <1>1, <1>2, <1>5, <1>6, <1>7, <2>2, <2>3, <2>4 DEF WithinAttempts
  <1>13. NothingIsLost'
    <2>1. losses = 0 => \A q \in arrived \ discarded : Somewhere(q)
      BY LostOrSomewhere DEF QueueInv
    <2>2. ASSUME NEW q, Somewhere(q) PROVE Somewhere(q)'
      <3>1. CASE Stored(q) \/ q \in Parked
        BY <1>1, <1>7, <3>1 DEF Somewhere, Stored
      <3>2. CASE \E n \in Waiting : n.report = q
        BY <1>5, <1>6, <3>2 DEF Somewhere
      <3>3. CASE \E e \in Drains : \E m \in batch[e] : m.report = q
        BY <1>6, <3>3 DEF Somewhere, OtherTicks
      <3>4. QED
        BY <2>2, <3>1, <3>2, <3>3 DEF Somewhere
    <2>3. losses' = 0 => \A q \in arrived' \ discarded' : Somewhere(q)'
      BY <1>1, <2>1, <2>2
    <2>4. QED
      BY <2>3 DEF NothingIsLost, Somewhere, ReportsOf, Parked, Waiting
  <1>14. QED
    BY <1>8, <1>9, <1>10, <1>11, <1>12, <1>13 DEF QueueInv

LEMMA CollectPreservesQueue ==
    ASSUME QueueInv, NEW d \in Drains, NEW kept \in SUBSET batch[d], Collect(d, kept)
    PROVE  QueueInv'
  <1>1. /\ drainPc[d] = "collect" /\ drainPc' = [drainPc EXCEPT ![d] = "flush"]
        /\ batch' = [batch EXCEPT ![d] = kept]
        /\ discarded' = discarded \union ReportsOf(batch[d] \ kept)
        /\ UNCHANGED <<queue, deadLetters, rows, destination, failedApps, arrived, refusals, losses>>
    BY DEF Collect, lists
  <1>2. QueueShape /\ OnePlace /\ OnlyArrived /\ WithinAttempts /\ TicksAreReset
    BY DEF QueueInv
  <1>3. /\ drainPc' \in [Drains -> {"idle", "collect", "flush", "requeue", "trim"}]
        /\ batch' \in [Drains -> SUBSET Messages]
        /\ drainPc'[d] = "flush" /\ batch'[d] = kept /\ OtherTicks(d)
        /\ destination[d] = 1
    BY <1>1, <1>2 DEF QueueShape, OtherTicks, TicksAreReset
  <1>4. Waiting' = Waiting /\ Parked' = Parked /\ Trimming' = Trimming
    BY <1>1, <1>3 DEF Waiting, Parked, Trimming, OtherTicks
  <1>5. \A e \in Drains : batch'[e] \subseteq batch[e]
    BY <1>3 DEF OtherTicks
  <1>6. discarded' \subseteq arrived
    BY <1>1, <1>2 DEF OnlyArrived, ReportsOf, QueueShape
  <1>7. QueueShape'
    BY <1>1, <1>2, <1>3, <1>6 DEF QueueShape, Messages, Kinds
  <1>8. DeadLettersFit' /\ TicksAreReset'
    BY <1>1, <1>2, <1>3, <1>4 DEF QueueInv, DeadLettersFit, TicksAreReset, OtherTicks
  <1>9. OnePlace' /\ OnlyArrived'
    BY <1>1, <1>2, <1>4, <1>5 DEF OnePlace, OnlyArrived, OnePerReport
  <1>10. WithinAttempts'
    <2>1. CountsElsewhere(d)
      BY <1>1 DEF CountsElsewhere
    <2>2. /\ \A n \in Waiting : WaitsWithin(n)'
          /\ \A e \in Drains \ {d} : \A m \in batch'[e] : WrittenWithin(e, m)'
          /\ \A r \in Parked : refusals'[r] = MaxAttempts
      BY <1>3, <2>1, CountsOfOthers
    <2>3. \A i \in 1 .. Len(Destinations) : ~Past(d, i) /\ ~Past(d, i)'
      BY <1>1, <1>3, QueueBounds DEF Past
    <2>4. \A m \in kept : WrittenWithin(d, m)'
      BY <1>1, <1>2, <2>3 DEF WithinAttempts, WrittenWithin, Carries
    <2>5. DeliveriesAreBounded'
      BY <1>1, <1>2 DEF WithinAttempts, DeliveriesAreBounded
    <2>6. QED
      BY <1>1, <1>2, <1>3, <1>4, <2>2, <2>4, <2>5 DEF WithinAttempts
  <1>11. NothingIsLost'
    <2>1. losses = 0 => \A q \in arrived \ discarded : Somewhere(q)
      BY LostOrSomewhere DEF QueueInv
    <2>2. ASSUME NEW q, Somewhere(q), q \notin discarded' PROVE Somewhere(q)'
      <3>1. \A m \in batch[d] : m.report = q => m \in kept
        BY <1>1, <2>2 DEF ReportsOf
      <3>2. QED
        BY <1>1, <1>3, <1>4, <2>2, <3>1 DEF Somewhere, Stored, OtherTicks
    <2>3. losses' = 0 => \A q \in arrived' \ discarded' : Somewhere(q)'
      BY <1>1, <2>1, <2>2
    <2>4. QED
      BY <2>3 DEF NothingIsLost, Somewhere, ReportsOf, Parked, Waiting
  <1>12. QED
    BY <1>7, <1>8, <1>9, <1>10, <1>11 DEF QueueInv

LEMMA CountsAreNatural ==
    ASSUME NEW f \in [Reports -> [Kinds -> 0 .. MaxAttempts + 1]], NEW r \in Reports, NEW j \in Kinds
    PROVE  f[r][j] \in Nat
  <1>1. f[r][j] \in 0 .. MaxAttempts + 1
    OBVIOUS
  <1>2. QED
    BY <1>1, QueueBounds

\* What a flush does to the rows.
LEMMA FlushedRows ==
    ASSUME QueueShape, NEW d \in Drains, NEW failing \in SUBSET Apps, NEW landed \in SUBSET failing,
           Flush(d, failing, landed)
    PROVE  LET k == Destinations[destination[d]]
           IN  /\ k \in Kinds /\ rows' \in [Reports -> [Kinds -> 0 .. MaxAttempts + 1]]
               /\ \A r \in Reports :
                     /\ r \notin ReportsOf(batch[d]) => rows'[r] = rows[r]
                     /\ \A j \in Kinds : j # k => rows'[r][j] = rows[r][j]
                     /\ rows'[r][k] = rows[r][k] \/ rows'[r][k] = Counted(rows[r][k])
                     /\ r \in ReportsOf(batch[d]) /\ AppOf[r] \notin failing =>
                            rows'[r][k] = Counted(rows[r][k])
  <1> DEFINE k == Destinations[destination[d]]
             written == {r \in ReportsOf(batch[d]) : AppOf[r] \notin failing \/ AppOf[r] \in landed}
  <1>1. rows' = [r \in Reports |->
                    IF r \in written THEN [rows[r] EXCEPT ![k] = Counted(rows[r][k])] ELSE rows[r]]
    BY DEF Flush
  <1>2. k \in Kinds
    BY QueueBounds DEF QueueShape
  <1> HIDE DEF k
  <1>3. ASSUME NEW r \in Reports
        PROVE  /\ rows'[r] \in [Kinds -> 0 .. MaxAttempts + 1]
               /\ r \notin written => rows'[r] = rows[r]
               /\ \A j \in Kinds : j # k => rows'[r][j] = rows[r][j]
               /\ r \in written => rows'[r][k] = Counted(rows[r][k])
    <2>1. rows[r] \in [Kinds -> 0 .. MaxAttempts + 1]
      BY DEF QueueShape
    <2>2. rows[r][k] \in Nat /\ rows[r][k] <= MaxAttempts + 1
      BY <1>2, <2>1, QueueBounds
    <2>3. Counted(rows[r][k]) \in 0 .. MaxAttempts + 1
      BY <2>2, CountedOnce
    <2>4. CASE r \in written
      BY <1>1, <1>2, <2>1, <2>3, <2>4
    <2>5. CASE r \notin written
      BY <1>1, <2>1, <2>5
    <2>6. QED
      BY <2>4, <2>5
  <1>4. rows' \in [Reports -> [Kinds -> 0 .. MaxAttempts + 1]]
    BY <1>1, <1>3
  <1>5. QED
    BY <1>2, <1>3, <1>4 DEF k

LEMMA FlushPreservesQueue ==
    ASSUME QueueInv, NEW d \in Drains, NEW failing \in SUBSET Apps, NEW landed \in SUBSET failing,
           Flush(d, failing, landed)
    PROVE  QueueInv'
  <1> DEFINE k == Destinations[destination[d]]
  <1>1. /\ drainPc[d] = "flush" /\ failedApps' = [failedApps EXCEPT ![d] = failedApps[d] \union failing]
        /\ UNCHANGED <<queue, deadLetters, batch, arrived, discarded, refusals, losses>>
    BY DEF Flush, Marked, lists, queueHistory
  <1>2. QueueShape /\ OnePlace /\ OnlyArrived /\ WithinAttempts /\ TicksAreReset
    BY DEF QueueInv
  <1>3. /\ k \in Kinds /\ rows' \in [Reports -> [Kinds -> 0 .. MaxAttempts + 1]]
        /\ \A r \in Reports :
              /\ r \notin ReportsOf(batch[d]) => rows'[r] = rows[r]
              /\ \A j \in Kinds : j # k => rows'[r][j] = rows[r][j]
              /\ rows'[r][k] = rows[r][k] \/ rows'[r][k] = Counted(rows[r][k])
              /\ r \in ReportsOf(batch[d]) /\ AppOf[r] \notin failing =>
                     rows'[r][k] = Counted(rows[r][k])
    BY <1>2, FlushedRows
  <1>4. /\ drainPc' \in [Drains -> {"idle", "collect", "flush", "requeue", "trim"}]
        /\ destination' \in [Drains -> 1 .. Len(Destinations)]
        /\ drainPc'[d] \in {"flush", "requeue"} /\ (drainPc'[d] # "flush" => destination'[d] = 1)
        /\ \A i \in 1 .. Len(Destinations) : Past(d, i)' <=> i = destination[d] \/ Past(d, i)
        /\ ~Past(d, destination[d])
        /\ \A e \in Drains \ {d} : drainPc'[e] = drainPc[e] /\ destination'[e] = destination[e]
    <2>1. destination[d] \in 1 .. Len(Destinations) /\ Len(Destinations) \in Nat
      BY <1>2, QueueBounds DEF QueueShape
    <2>2. CASE destination[d] < Len(Destinations)
      <3>1. destination' = [destination EXCEPT ![d] = destination[d] + 1] /\ drainPc' = drainPc
        BY <2>2 DEF Flush
      <3>2. destination[d] + 1 \in 1 .. Len(Destinations)
        BY <2>1, <2>2
      <3>3. /\ destination' \in [Drains -> 1 .. Len(Destinations)]
            /\ destination'[d] = destination[d] + 1
            /\ \A e \in Drains \ {d} : destination'[e] = destination[e]
        BY <1>2, <3>1, <3>2 DEF QueueShape
      <3>4. \A i \in 1 .. Len(Destinations) : Past(d, i)' <=> i = destination[d] \/ Past(d, i)
        BY <1>1, <2>1, <3>1, <3>3 DEF Past
      <3>5. QED
        BY <1>1, <1>2, <2>1, <3>1, <3>3, <3>4 DEF Past, QueueShape
    <2>3. CASE ~(destination[d] < Len(Destinations))
      <3>1. /\ destination' = [destination EXCEPT ![d] = 1]
            /\ drainPc' = [drainPc EXCEPT ![d] = "requeue"]
        BY <2>3 DEF Flush
      <3>2. 1 \in 1 .. Len(Destinations) /\ destination[d] = Len(Destinations)
        BY <2>1, <2>3
      <3>3. /\ destination' \in [Drains -> 1 .. Len(Destinations)] /\ destination'[d] = 1
            /\ \A e \in Drains \ {d} : destination'[e] = destination[e]
        BY <1>2, <3>1, <3>2 DEF QueueShape
      <3>4. /\ drainPc' \in [Drains -> {"idle", "collect", "flush", "requeue", "trim"}]
            /\ drainPc'[d] = "requeue" /\ \A e \in Drains \ {d} : drainPc'[e] = drainPc[e]
        BY <1>2, <3>1 DEF QueueShape
      <3>5. \A i \in 1 .. Len(Destinations) : Past(d, i)' <=> i = destination[d] \/ Past(d, i)
        BY <1>1, <2>1, <3>2, <3>4 DEF Past
      <3>6. QED
        BY <1>1, <2>1, <3>3, <3>4, <3>5 DEF Past
    <2>4. QED
      BY <2>2, <2>3
  <1>5. failedApps' \in [Drains -> SUBSET Apps] /\ OtherTicks(d)
    BY <1>1, <1>2, <1>4 DEF QueueShape, OtherTicks
  <1>6. /\ Waiting' = Waiting /\ Parked' = Parked /\ Trimming' = Trimming
    BY <1>1, <1>4 DEF Waiting, Parked, Trimming
  <1>7. QueueShape'
    BY <1>1, <1>2, <1>3, <1>4, <1>5 DEF QueueShape, Messages
  <1>8. DeadLettersFit' /\ TicksAreReset'
    BY <1>1, <1>2, <1>4, <1>6 DEF QueueInv, DeadLettersFit, TicksAreReset
  <1>9. OnePlace' /\ OnlyArrived'
    BY <1>1, <1>2, <1>6 DEF OnePlace, OnlyArrived, OnePerReport
  <1>10. \A r \in Reports : \A j \in Kinds : rows[r][j] \in Nat /\ rows[r][j] <= MaxAttempts
    BY <1>2, CountsAreNatural DEF QueueShape, WithinAttempts, DeliveriesAreBounded
  <1>11. \A r \in Reports : Counted(rows[r][k]) = rows[r][k] + 1
    BY <1>3, <1>10, CountedOnce
  <1>12. ASSUME NEW m \in batch[d] PROVE WrittenWithin(d, m)'
    <2>1. /\ WrittenWithin(d, m) /\ m.report \in Reports /\ m.report \in ReportsOf(batch[d])
          /\ m.attempts \in Nat
      BY <1>2, FieldsOfMessages DEF WithinAttempts, ReportsOf
    <2>2. refusals' = refusals /\ failedApps'[d] = failedApps[d] \union failing
      BY <1>1, <1>2 DEF QueueShape
    <2>3. ASSUME NEW i \in 1 .. Len(Destinations), i # destination[d]
          PROVE  rows'[m.report][Destinations[i]] = rows[m.report][Destinations[i]]
      <3>1. Destinations[i] \in Kinds /\ Destinations[i] # k
        BY <1>2, <2>3, QueueBounds DEF QueueShape
      <3>2. QED
        BY <1>3, <2>1, <3>1
    <2>4. /\ rows[m.report][k] <= m.attempts /\ rows[m.report][k] \in Nat
          /\ rows'[m.report][k] <= m.attempts + 1
          /\ AppOf[m.report] \notin failing => rows'[m.report][k] > 0
      <3>1. destination[d] \in 1 .. Len(Destinations)
        BY <1>2 DEF QueueShape
      <3>2. rows[m.report][k] <= m.attempts
        BY <1>4, <2>1, <3>1 DEF WrittenWithin
      <3>3. QED
        BY <1>3, <1>10, <1>11, <2>1, <3>2
    <2>5. Carries(m)'
      BY <2>1, <2>2 DEF WrittenWithin, Carries
    <2> HIDE DEF k
    <2>6. ASSUME NEW i \in 1 .. Len(Destinations)
          PROVE  /\ ~Past(d, i)' => rows'[m.report][Destinations[i]] <= m.attempts
                 /\ Past(d, i)' => rows'[m.report][Destinations[i]] <= m.attempts + 1
                 /\ Past(d, i)' /\ AppOf[m.report] \notin failedApps'[d] =>
                        rows'[m.report][Destinations[i]] > 0
      <3>1. CASE i = destination[d]
        BY <1>4, <2>2, <2>4, <3>1 DEF k
      <3>2. CASE i # destination[d]
        BY <1>4, <2>1, <2>2, <2>3, <3>2 DEF WrittenWithin
      <3>3. QED
        BY <3>1, <3>2
    <2>7. QED
      BY <2>5, <2>6 DEF WrittenWithin
  <1>13. DeliveriesAreBounded'
    <2> SUFFICES ASSUME NEW r \in Reports, NEW j \in Kinds PROVE rows'[r][j] <= MaxAttempts
      BY DEF DeliveriesAreBounded
    <2>1. CASE r \notin ReportsOf(batch[d])
      BY <1>3, <1>10, <2>1
    <2>2. CASE r \in ReportsOf(batch[d])
      <3>1. PICK m \in batch[d] : m.report = r
        BY <2>2 DEF ReportsOf
      <3>2. PICK i \in 1 .. Len(Destinations) : j = Destinations[i]
        BY QueueBounds
      <3>3. m.attempts \in Nat /\ m.attempts < MaxAttempts
        BY <1>2, FieldsOfMessages DEF WithinAttempts, WrittenWithin, Carries
      <3>4. rows'[r][j] <= m.attempts \/ rows'[r][j] <= m.attempts + 1
        BY <1>12, <3>1, <3>2 DEF WrittenWithin
      <3>5. rows'[r][j] \in Nat
        BY <1>3, CountsAreNatural
      <3>6. QED
        BY <3>3, <3>4, <3>5, QueueBounds
    <2>3. QED
      BY <2>1, <2>2
  <1>14. WithinAttempts'
    <2>1. CountsElsewhere(d)
      BY <1>1, <1>3 DEF CountsElsewhere
    <2>2. /\ \A n \in Waiting : WaitsWithin(n)'
          /\ \A e \in Drains \ {d} : \A m \in batch'[e] : WrittenWithin(e, m)'
          /\ \A r \in Parked : refusals'[r] = MaxAttempts
      BY <1>5, <2>1, CountsOfOthers
    <2>3. \A r \in Reports \ arrived : refusals'[r] = 0 /\ \A j \in Kinds : rows'[r][j] = 0
      <3>1. \A r \in Reports \ arrived : r \notin ReportsOf(batch[d])
        BY <1>2 DEF OnlyArrived, ReportsOf
      <3>2. QED
        BY <1>1, <1>2, <1>3, <3>1 DEF WithinAttempts
    <2>4. \A e \in Drains : \A m \in batch'[e] : WrittenWithin(e, m)'
      BY <1>1, <1>12, <2>2
    <2>5. QED
      BY <1>1, <1>6, <1>13, <2>2, <2>3, <2>4 DEF WithinAttempts
  <1>15. NothingIsLost'
    <2>1. losses = 0 => \A q \in arrived \ discarded : Somewhere(q)
      BY LostOrSomewhere DEF QueueInv
    <2>2. ASSUME NEW q \in Reports, Stored(q) PROVE Stored(q)'
      <3> SUFFICES ASSUME NEW j \in Kinds PROVE rows'[q][j] > 0
        BY DEF Stored
      <3>1. rows[q][j] > 0
        BY <2>2 DEF Stored
      <3>2. QED
        BY <1>3, <1>10, <1>11, <3>1
    <2>3. losses' = 0 => \A q \in arrived' \ discarded' : Somewhere(q)'
      BY <1>1, <1>2, <1>6, <2>1, <2>2 DEF Somewhere, QueueShape
    <2>4. QED
      BY <2>3 DEF NothingIsLost, Somewhere, ReportsOf, Parked, Waiting
  <1>16. QED
    BY <1>7, <1>8, <1>9, <1>14, <1>15 DEF QueueInv

LEMMA RequeuePreservesQueue ==
    ASSUME QueueInv, NEW d \in Drains, NEW m \in batch[d], Requeue(d, m)
    PROVE  QueueInv'
  <1>1. /\ drainPc[d] = "requeue" /\ batch' = [batch EXCEPT ![d] = batch[d] \ {m}]
        /\ refusals' = [refusals EXCEPT ![m.report] = Counted(refusals[m.report])]
        /\ UNCHANGED <<rows, destination, failedApps, arrived, discarded, losses>>
    BY DEF Requeue
  <1>2. QueueShape /\ OnePlace /\ OnlyArrived /\ WithinAttempts /\ TicksAreReset
    BY DEF QueueInv
  <1>3. /\ m \in Messages /\ m.report \in Reports /\ m.attempts \in Nat
        /\ m.report \in ReportsOf(batch[d])
    <2>1. m \in Messages /\ m.report \in Reports /\ m.attempts \in 0 .. MaxAttempts
      BY <1>2, FieldsOfMessages
    <2>2. QED
      BY <2>1, QueueBounds DEF ReportsOf
  <1>4. /\ WrittenWithin(d, m) /\ m.attempts = refusals[m.report] /\ m.attempts < MaxAttempts
    BY <1>2 DEF WithinAttempts, WrittenWithin, Carries
  <1>5. /\ refusals' \in [Reports -> 0 .. MaxAttempts + 1]
        /\ refusals'[m.report] = m.attempts + 1
        /\ \A r \in Reports \ {m.report} : refusals'[r] = refusals[r]
    <2>1. Counted(refusals[m.report]) = m.attempts + 1 /\ m.attempts + 1 \in 0 .. MaxAttempts + 1
      BY <1>3, <1>4, CountedOnce, QueueBounds
    <2>2. QED
      BY <1>1, <1>2, <1>3, <2>1 DEF QueueShape
  <1>6. \A k \in Kinds : rows[m.report][k] <= m.attempts + 1
    <2>1. \A i \in 1 .. Len(Destinations) : Past(d, i)
      BY <1>1 DEF Past
    <2>2. QED
      BY <1>4, <2>1, QueueBounds DEF WrittenWithin
  <1>7. /\ batch' \in [Drains -> SUBSET Messages] /\ batch'[d] = batch[d] \ {m}
        /\ \A e \in Drains \ {d} : batch'[e] = batch[e]
        /\ \A e \in Drains : batch'[e] \subseteq batch[e]
    BY <1>1, <1>2 DEF QueueShape
  <1>8. /\ \A n \in Waiting : n.report # m.report
        /\ \A e \in Drains : \A n \in batch'[e] : n.report # m.report
        /\ m.report \notin Parked
    BY <1>2, <1>7 DEF OnePlace
  <1>9. DeliveriesAreBounded'
    BY <1>1, <1>2 DEF WithinAttempts, DeliveriesAreBounded
  <1>10. CountsElsewhere(d)
    BY <1>1, <1>3, <1>5 DEF CountsElsewhere
  <1>11. \A r \in Reports \ arrived : refusals'[r] = 0 /\ \A k \in Kinds : rows'[r][k] = 0
    <2>1. m.report \in arrived
      BY <1>2 DEF OnlyArrived
    <2>2. QED
      BY <1>1, <1>2, <1>5, <2>1 DEF WithinAttempts
  <1>12. ASSUME drainPc'[d] \in {"requeue", "trim"}, NEW n \in batch'[d] PROVE WrittenWithin(d, n)'
    <2>1. WrittenWithin(d, n) /\ n.report \in Reports /\ n.report # m.report
      BY <1>2, <1>7, <1>8, FieldsOfMessages DEF WithinAttempts
    <2>2. \A i \in 1 .. Len(Destinations) : Past(d, i) /\ Past(d, i)'
      BY <1>1, <1>12 DEF Past
    <2>3. refusals'[n.report] = refusals[n.report]
      BY <1>5, <2>1
    <2>4. QED
      BY <1>1, <2>1, <2>2, <2>3 DEF WrittenWithin, Carries
  <1>13. losses = 0 => \A q \in arrived \ discarded : Somewhere(q)
    BY LostOrSomewhere DEF QueueInv
  <1>14. CASE AttemptsSpent(m)
    <2>1. /\ deadLetters' = <<m.report>> \o deadLetters
          /\ drainPc' = [drainPc EXCEPT ![d] = "trim"] /\ queue' = queue
      BY <1>14 DEF Requeue
    <2>2. m.attempts + 1 = MaxAttempts
      BY <1>3, <1>4, <1>14, QueueBounds DEF AttemptsSpent
    <2>3. /\ deadLetters' \in Seq(Reports) /\ Len(deadLetters') = Len(deadLetters) + 1
          /\ Parked' = Parked \union {m.report} /\ Len(deadLetters) \in Nat
      BY <1>2, <1>3, <2>1, PushedList, LenProperties DEF QueueShape, Parked
    <2>4. /\ drainPc' \in [Drains -> {"idle", "collect", "flush", "requeue", "trim"}]
          /\ drainPc'[d] = "trim" /\ OtherTicks(d) /\ Waiting' = Waiting
      BY <1>1, <1>2, <1>7, <2>1 DEF QueueShape, OtherTicks, Waiting
    <2>5. QueueShape'
      BY <1>1, <1>2, <1>5, <1>7, <2>1, <2>3, <2>4 DEF QueueShape, Messages, Kinds
    <2>6. DeadLettersFit'
      <3>1. Trimming' = Trimming \union {d} /\ d \notin Trimming
        BY <1>1, <2>4 DEF Trimming, OtherTicks
      <3>2. Cardinality(Trimming') = Cardinality(Trimming) + 1
        BY <3>1, TrimmingIsFinite, FS_AddElement
      <3>3. losses \in Nat
        BY <1>2, QueueBounds DEF QueueShape
      <3>4. QED
        BY <1>1, <2>3, <3>2, <3>3, TrimmingIsFinite, QueueBounds DEF QueueInv, DeadLettersFit
    <2>7. TicksAreReset'
      BY <1>1, <1>2, <2>4 DEF TicksAreReset, OtherTicks
    <2>8. OnePlace'
      BY <1>2, <1>7, <1>8, <2>1, <2>3, <2>4 DEF OnePlace, OnePerReport
    <2>9. OnlyArrived'
      BY <1>1, <1>2, <1>7, <2>3, <2>4 DEF OnlyArrived
    <2>10. WithinAttempts'
      <3>1. /\ \A n \in Waiting : WaitsWithin(n)'
            /\ \A e \in Drains \ {d} : \A n \in batch'[e] : WrittenWithin(e, n)'
            /\ \A r \in Parked : refusals'[r] = MaxAttempts
        BY <1>10, <2>4, CountsOfOthers
      <3>2. \A e \in Drains : \A n \in batch'[e] : WrittenWithin(e, n)'
        BY <1>12, <2>4, <3>1
      <3>3. \A r \in Parked' : refusals'[r] = MaxAttempts
        BY <1>5, <2>2, <2>3, <3>1
      <3>4. QED
        BY <1>1, <1>9, <1>11, <2>4, <3>1, <3>2, <3>3 DEF WithinAttempts
    <2>11. NothingIsLost'
      <3>1. \A q : Somewhere(q) => Somewhere(q)'
        BY <1>1, <1>7, <2>3, <2>4 DEF Somewhere, Stored
      <3>2. losses' = 0 => \A q \in arrived' \ discarded' : Somewhere(q)'
        BY <1>1, <1>13, <3>1
      <3>3. QED
        BY <3>2 DEF NothingIsLost, Somewhere, ReportsOf, Parked, Waiting
    <2>12. QED
      BY <2>5, <2>6, <2>7, <2>8, <2>9, <2>10, <2>11 DEF QueueInv
  <1>15. CASE ~AttemptsSpent(m)
    <2> DEFINE n == NextAttempt(m)
    <2>1. /\ queue' = <<n>> \o queue /\ deadLetters' = deadLetters /\ drainPc' = drainPc
      BY <1>15 DEF Requeue
    <2>2. /\ n \in Messages /\ n.report = m.report /\ n.attempts = m.attempts + 1
          /\ n.attempts < MaxAttempts
      <3>1. m.attempts + 1 < MaxAttempts /\ m.attempts + 1 \in 0 .. MaxAttempts
        BY <1>3, <1>15, QueueBounds DEF AttemptsSpent
      <3>2. QED
        BY <1>3, <3>1 DEF NextAttempt, Messages
    <2> HIDE DEF n
    <2>3. /\ queue' \in Seq(Messages) /\ Waiting' = Waiting \union {n} /\ OnePerReport(queue')
          /\ Parked' = Parked
      BY <1>2, <1>8, <2>1, <2>2, PushedList DEF QueueShape, OnePlace, Waiting, Parked
    <2>4. OtherTicks(d) /\ Trimming' = Trimming
      BY <1>1, <1>7, <2>1 DEF OtherTicks, Trimming
    <2>5. QueueShape'
      BY <1>1, <1>2, <1>5, <1>7, <2>1, <2>3 DEF QueueShape, Messages, Kinds
    <2>6. DeadLettersFit'
      BY <1>1, <2>1, <2>4 DEF QueueInv, DeadLettersFit
    <2>7. TicksAreReset'
      BY <1>1, <1>2, <1>7, <2>1 DEF TicksAreReset
    <2>8. OnePlace'
      BY <1>2, <1>7, <1>8, <2>2, <2>3 DEF OnePlace
    <2>9. OnlyArrived'
      BY <1>1, <1>2, <1>7, <2>2, <2>3 DEF OnlyArrived
    <2>10. WithinAttempts'
      <3>1. /\ \A w \in Waiting : WaitsWithin(w)'
            /\ \A e \in Drains \ {d} : \A w \in batch'[e] : WrittenWithin(e, w)'
            /\ \A r \in Parked : refusals'[r] = MaxAttempts
        BY <1>10, <2>4, CountsOfOthers
      <3>2. drainPc'[d] \in {"requeue", "trim"}
        BY <1>1, <2>1
      <3>3. \A e \in Drains : \A w \in batch'[e] : WrittenWithin(e, w)'
        BY <1>12, <3>1, <3>2
      <3>4. WaitsWithin(n)'
        BY <1>1, <1>5, <1>6, <2>2 DEF WaitsWithin, Carries
      <3>5. QED
        BY <1>1, <1>9, <1>11, <2>3, <3>1, <3>3, <3>4 DEF WithinAttempts
    <2>11. NothingIsLost'
      <3>1. \A q : Somewhere(q) => Somewhere(q)'
        BY <1>1, <1>7, <2>2, <2>3 DEF Somewhere, Stored
      <3>2. losses' = 0 => \A q \in arrived' \ discarded' : Somewhere(q)'
        BY <1>1, <1>13, <3>1
      <3>3. QED
        BY <3>2 DEF NothingIsLost, Somewhere, ReportsOf, Parked, Waiting
    <2>12. QED
      BY <2>5, <2>6, <2>7, <2>8, <2>9, <2>10, <2>11 DEF QueueInv
  <1>16. QED
    BY <1>14, <1>15

LEMMA TrimPreservesQueue ==
    ASSUME QueueInv, NEW d \in Drains, Trim(d)
    PROVE  QueueInv'
  <1>1. /\ drainPc[d] = "trim" /\ drainPc' = [drainPc EXCEPT ![d] = "requeue"]
        /\ deadLetters' = IF Len(deadLetters) <= MaxDeadLetters THEN deadLetters
                          ELSE SubSeq(deadLetters, 1, MaxDeadLetters)
        /\ discarded' = discarded \union (Parked \ Parked')
        /\ UNCHANGED <<queue, rows, destination, batch, failedApps, arrived, refusals, losses>>
    BY DEF Trim, Parked
  <1>2. QueueShape /\ OnePlace /\ OnlyArrived /\ WithinAttempts /\ TicksAreReset
    BY DEF QueueInv
  <1>3. /\ deadLetters' \in Seq(Reports) /\ Len(deadLetters') <= MaxDeadLetters
        /\ Len(deadLetters') \in Nat /\ Parked' \subseteq Parked
    <2>1. deadLetters \in Seq(Reports) /\ Len(deadLetters) \in Nat
      BY <1>2, LenProperties DEF QueueShape
    <2>2. CASE Len(deadLetters) <= MaxDeadLetters
      BY <1>1, <2>1, <2>2 DEF Parked
    <2>3. CASE ~(Len(deadLetters) <= MaxDeadLetters)
      <3>1. /\ deadLetters' = SubSeq(deadLetters, 1, MaxDeadLetters)
            /\ MaxDeadLetters \in Nat /\ MaxDeadLetters <= Len(deadLetters)
        BY <1>1, <2>1, <2>3, QueueBounds
      <3>2. /\ deadLetters' \in Seq(Reports) /\ Len(deadLetters') = MaxDeadLetters
            /\ ToSet(deadLetters') \subseteq ToSet(deadLetters)
        BY <2>1, <3>1, CutList
      <3>3. QED
        BY <3>1, <3>2 DEF Parked
    <2>4. QED
      BY <2>2, <2>3
  <1>4. /\ drainPc' \in [Drains -> {"idle", "collect", "flush", "requeue", "trim"}]
        /\ drainPc'[d] = "requeue" /\ OtherTicks(d) /\ Waiting' = Waiting
    BY <1>1, <1>2 DEF QueueShape, OtherTicks, Waiting
  <1>5. discarded' \subseteq arrived'
    BY <1>1, <1>2 DEF QueueShape, OnlyArrived
  <1>6. QueueShape'
    BY <1>1, <1>2, <1>3, <1>4, <1>5 DEF QueueShape, Messages, Kinds
  <1>7. DeadLettersFit'
    <2>1. Trimming' \in SUBSET Drains
      BY DEF Trimming
    <2>2. Cardinality(Trimming') \in Nat
      BY <2>1, QueueBounds, FS_Subset, FS_CardinalityType
    <2>3. losses' \in Nat
      BY <1>6, QueueBounds DEF QueueShape
    <2>4. QED
      BY <1>3, <2>2, <2>3, QueueBounds DEF DeadLettersFit
  <1>8. TicksAreReset'
    BY <1>1, <1>2, <1>4 DEF TicksAreReset, OtherTicks
  <1>9. OnePlace' /\ OnlyArrived'
    BY <1>1, <1>2, <1>3, <1>4 DEF OnePlace, OnlyArrived, OnePerReport
  <1>10. WithinAttempts'
    <2>1. \A e \in Drains : \A i : Past(e, i)' <=> Past(e, i)
      BY <1>1, <1>4 DEF Past, OtherTicks
    <2>2. \A e \in Drains : \A m \in batch'[e] : WrittenWithin(e, m)'
      BY <1>1, <1>2, <2>1 DEF WithinAttempts, WrittenWithin, Carries
    <2>3. \A n \in Waiting' : WaitsWithin(n)'
      BY <1>1, <1>2, <1>4 DEF WithinAttempts, WaitsWithin, Carries
    <2>4. QED
      BY <1>1, <1>2, <1>3, <2>2, <2>3 DEF WithinAttempts, DeliveriesAreBounded
  <1>11. NothingIsLost'
    <2>1. losses = 0 => \A q \in arrived \ discarded : Somewhere(q)
      BY LostOrSomewhere DEF QueueInv
    <2>2. \A q : Somewhere(q) /\ q \notin discarded' => Somewhere(q)'
      BY <1>1, <1>4 DEF Somewhere, Stored
    <2>3. losses' = 0 => \A q \in arrived' \ discarded' : Somewhere(q)'
      BY <1>1, <2>1, <2>2
    <2>4. QED
      BY <2>3 DEF NothingIsLost, Somewhere, ReportsOf, Parked, Waiting
  <1>12. QED
    BY <1>6, <1>7, <1>8, <1>9, <1>10, <1>11 DEF QueueInv

\* A tick that ends, or is lost.
LEMMA ForgetPreservesQueue ==
    ASSUME QueueInv, NEW d \in Drains, Forget(d),
           UNCHANGED <<queue, deadLetters, rows, arrived, discarded, refusals>>,
           losses' \in 0 .. MaxLosses, DeadLettersFit', NothingIsLost'
    PROVE  QueueInv'
  <1>1. QueueShape /\ OnePlace /\ OnlyArrived /\ WithinAttempts /\ TicksAreReset
    BY DEF QueueInv
  <1>2. /\ drainPc' \in [Drains -> {"idle", "collect", "flush", "requeue", "trim"}]
        /\ destination' \in [Drains -> 1 .. Len(Destinations)]
        /\ batch' \in [Drains -> SUBSET Messages]
        /\ failedApps' \in [Drains -> SUBSET Apps]
        /\ drainPc'[d] = "idle" /\ batch'[d] = {} /\ destination'[d] = 1 /\ OtherTicks(d)
    BY <1>1, ForgetTypes
  <1>3. Waiting' = Waiting /\ Parked' = Parked
    BY DEF Waiting, Parked
  <1>4. QueueShape'
    BY <1>1, <1>2 DEF QueueShape, Messages, Kinds
  <1>5. TicksAreReset'
    BY <1>1, <1>2 DEF TicksAreReset, OtherTicks
  <1>6. OnePlace' /\ OnlyArrived'
    <2>1. \A e \in Drains : batch'[e] \subseteq batch[e]
      BY <1>2 DEF OtherTicks
    <2>2. QED
      BY <1>1, <1>3, <2>1 DEF OnePlace, OnlyArrived, OnePerReport
  <1>7. WithinAttempts'
    <2>1. CountsElsewhere(d)
      BY DEF CountsElsewhere
    <2>2. /\ \A n \in Waiting : WaitsWithin(n)'
          /\ \A e \in Drains \ {d} : \A m \in batch'[e] : WrittenWithin(e, m)'
          /\ \A r \in Parked : refusals'[r] = MaxAttempts
      BY <1>2, <2>1, CountsOfOthers
    <2>3. QED
      BY <1>1, <1>2, <1>3, <2>2 DEF WithinAttempts, DeliveriesAreBounded
  <1>8. QED
    BY <1>4, <1>5, <1>6, <1>7 DEF QueueInv

LEMMA EndDrainPreservesQueue ==
    ASSUME QueueInv, NEW d \in Drains, EndDrain(d)
    PROVE  QueueInv'
  <1>1. /\ drainPc[d] = "requeue" /\ ToRetry(d) = {} /\ Forget(d)
        /\ UNCHANGED <<queue, deadLetters, rows, arrived, discarded, refusals, losses>>
    BY DEF EndDrain, lists, queueHistory
  <1>2. QueueShape /\ WithinAttempts
    BY DEF QueueInv
  <1>3. OtherTicks(d) /\ Trimming' = Trimming
    <2>1. OtherTicks(d) /\ Trimming' = Trimming \ {d}
      BY <1>1, <1>2, ForgetTypes
    <2>2. QED
      BY <1>1, <2>1 DEF Trimming
  <1>4. DeadLettersFit' /\ losses' \in 0 .. MaxLosses
    BY <1>1, <1>2, <1>3 DEF QueueInv, DeadLettersFit, QueueShape
  <1>5. \A m \in batch[d] : Stored(m.report)
    <2>1. \A i \in 1 .. Len(Destinations) : Past(d, i)
      BY <1>1 DEF Past
    <2>2. \A m \in batch[d] : WrittenWithin(d, m) /\ AppOf[m.report] \notin failedApps[d]
      BY <1>1, <1>2 DEF WithinAttempts, ToRetry
    <2>3. QED
      BY <2>1, <2>2, QueueBounds DEF WrittenWithin, Stored
  <1>6. NothingIsLost'
    <2>1. losses = 0 => \A q \in arrived \ discarded : Somewhere(q)
      BY LostOrSomewhere DEF QueueInv
    <2>2. ASSUME NEW q, Somewhere(q) PROVE Somewhere(q)'
      <3>1. CASE Stored(q)
        BY <1>1, <3>1 DEF Somewhere, Stored
      <3>2. CASE q \in Parked \/ \E n \in Waiting : n.report = q
        BY <1>1, <3>2 DEF Somewhere, Parked, Waiting
      <3>3. CASE \E e \in Drains \ {d} : \E m \in batch[e] : m.report = q
        BY <1>3, <3>3 DEF Somewhere, OtherTicks
      <3>4. QED
        BY <1>5, <2>2, <3>1, <3>2, <3>3 DEF Somewhere
    <2>3. losses' = 0 => \A q \in arrived' \ discarded' : Somewhere(q)'
      BY <1>1, <2>1, <2>2
    <2>4. QED
      BY <2>3 DEF NothingIsLost, Somewhere, ReportsOf, Parked, Waiting
  <1>7. QED
    BY <1>1, <1>4, <1>6, ForgetPreservesQueue

LEMMA LosePreservesQueue ==
    ASSUME QueueInv, NEW d \in Drains, Lose(d)
    PROVE  QueueInv'
  <1>1. /\ losses < MaxLosses /\ losses' = losses + 1 /\ Forget(d)
        /\ UNCHANGED <<queue, deadLetters, rows, arrived, discarded, refusals>>
    BY DEF Lose, lists
  <1>2. QueueShape /\ losses \in Nat
    <2>1. QueueShape /\ losses \in 0 .. MaxLosses
      BY DEF QueueInv, QueueShape
    <2>2. QED
      BY <2>1, QueueBounds
  <1>3. losses' \in 0 .. MaxLosses /\ losses' # 0
    BY <1>1, <1>2, QueueBounds
  <1>4. Trimming' = Trimming \ {d}
    BY <1>1, <1>2, ForgetTypes
  <1>5. /\ Cardinality(Trimming') \in Nat
        /\ Cardinality(Trimming) <= Cardinality(Trimming') + 1
    <2>1. /\ IsFiniteSet(Trimming')
          /\ Cardinality(Trimming') =
                 IF d \in Trimming THEN Cardinality(Trimming) - 1 ELSE Cardinality(Trimming)
      BY <1>4, TrimmingIsFinite, FS_RemoveElement
    <2>2. Cardinality(Trimming') \in Nat
      BY <2>1, FS_CardinalityType
    <2>3. QED
      BY <2>1, <2>2, TrimmingIsFinite
  <1>6. Len(deadLetters) \in Nat
    BY <1>2, LenProperties DEF QueueShape
  <1>7. DeadLettersFit'
    BY <1>1, <1>2, <1>5, <1>6, TrimmingIsFinite, QueueBounds DEF QueueInv, DeadLettersFit
  <1>8. NothingIsLost'
    BY <1>3 DEF NothingIsLost
  <1>9. QED
    BY <1>1, <1>3, <1>7, <1>8, ForgetPreservesQueue

LEMMA QueueStepPreserves == QueueInv /\ [QueueNext]_queueVars => QueueInv'
  <1> SUFFICES ASSUME QueueInv, [QueueNext]_queueVars PROVE QueueInv'
    OBVIOUS
  <1>1. ASSUME NEW r \in Reports, Arrive(r) PROVE QueueInv'
    BY <1>1, ArrivePreservesQueue
  <1>2. ASSUME NEW d \in Drains, Draining(d) PROVE QueueInv'
    <2>1. CASE Flushing(d)
      BY <2>1, FlushPreservesQueue DEF Flushing
    <2>2. CASE \E kept \in SUBSET batch[d] : Collect(d, kept)
      BY <2>2, CollectPreservesQueue
    <2>3. CASE \E m \in batch[d] : Requeue(d, m)
      BY <2>3, RequeuePreservesQueue
    <2>4. CASE Pop(d) \/ Trim(d) \/ EndDrain(d)
      BY <2>4, PopPreservesQueue, TrimPreservesQueue, EndDrainPreservesQueue
    <2>5. QED
      BY <1>2, <2>1, <2>2, <2>3, <2>4 DEF Draining
  <1>3. ASSUME NEW d \in Drains, Lose(d) PROVE QueueInv'
    BY <1>3, LosePreservesQueue
  <1>4. CASE UNCHANGED queueVars
    <2>1. UNCHANGED <<queue, deadLetters, rows, drainPc, destination, batch, failedApps,
                      arrived, discarded, refusals, losses>>
      BY <1>4 DEF queueVars
    <2>2. QueueShape'
      BY <2>1 DEF QueueInv, QueueShape, Messages, Kinds
    <2>3. Waiting' = Waiting /\ Parked' = Parked /\ Trimming' = Trimming
      BY <2>1 DEF Waiting, Parked, Trimming
    <2>4. DeadLettersFit' /\ TicksAreReset' /\ OnePlace' /\ OnlyArrived'
      BY <2>1, <2>3 DEF QueueInv, DeadLettersFit, TicksAreReset, OnePlace, OnlyArrived, OnePerReport
    <2>5. WithinAttempts'
      BY <2>1, <2>3 DEF QueueInv, WithinAttempts, WaitsWithin, WrittenWithin, Carries, Past,
                        DeliveriesAreBounded
    <2>6. NothingIsLost'
      BY <2>1 DEF QueueInv, NothingIsLost, Stored, ReportsOf, Kinds
    <2>7. QED
      BY <2>2, <2>4, <2>5, <2>6 DEF QueueInv
  <1>5. QED
    BY <1>1, <1>2, <1>3, <1>4 DEF QueueNext

LEMMA QueueInvariant == QueueSpec => []QueueInv
  BY InitEstablishesQueue, QueueStepPreserves, PTL DEF QueueSpec

\* The lists, the ticks and the counts keep their types; the dead letters stay
\* within their cap but for the trims under way or lost.
THEOREM QueueIsTyped == QueueSpec => []QueueTypeOK
  <1>1. QueueInv => QueueTypeOK
    BY QueueTypes DEF QueueInv
  <1>2. QED
    BY <1>1, QueueInvariant, PTL

\* A report that was not given up is stored, parked or under way while nothing
\* is lost; none is delivered to a destination more often than it may be
\* attempted; none is parked before its attempts are spent, or in two places.
THEOREM ReportsStayAccounted == QueueSpec => []ReportsAreAccounted
  <1>1. QueueInv => ReportsAreAccounted
    <2> SUFFICES ASSUME QueueInv PROVE ReportsAreAccounted
      OBVIOUS
    <2>1. NothingIsLost /\ DeliveriesAreBounded
      BY DEF QueueInv, WithinAttempts
    <2>2. ParkedWhenRefused
      BY DEF QueueInv, WithinAttempts, OnePlace, ParkedWhenRefused, Parked, Waiting, ReportsOf
    <2>3. QED
      BY <2>1, <2>2 DEF ReportsAreAccounted
  <1>2. QED
    BY <1>1, QueueInvariant, PTL

-----------------------------------------------------------------------------
(* Helpers on numbers and sequences *)

LEMMA LeastExists ==
    ASSUME NEW S \in SUBSET Nat, S # {}
    PROVE  Min(S) \in S /\ \A n \in S : Min(S) <= n
  <1>1. PICK m \in S : \A n \in S : <<n, m>> \notin OpToRel(<, Nat)
    BY NatLessThanWellFounded, WFMin
  <1>2. \A n \in S : m <= n
    <2>1. \A n \in S : n \in Nat /\ m \in Nat
      OBVIOUS
    <2>2. \A n \in S : ~(n < m)
      BY <1>1, <2>1 DEF OpToRel
    <2>3. QED
      BY <2>1, <2>2
  <1>3. QED
    BY <1>1, <1>2 DEF Min

LEMMA AppendedSet ==
    ASSUME NEW S, NEW s \in Seq(S), NEW x \in S
    PROVE  ToSet(Append(s, x)) = ToSet(s) \union {x}
  <1>1. /\ Append(s, x) \in Seq(S) /\ Len(Append(s, x)) = Len(s) + 1 /\ Len(s) \in Nat
        /\ \A i \in 1 .. Len(s) : Append(s, x)[i] = s[i]
        /\ Append(s, x)[Len(s) + 1] = x
    BY AppendProperties, LenProperties
  <1>2. DOMAIN Append(s, x) = 1 .. Len(s) + 1 /\ DOMAIN s = 1 .. Len(s)
    BY <1>1, LenProperties
  <1>3. 1 .. Len(s) + 1 = (1 .. Len(s)) \union {Len(s) + 1}
    BY <1>1
  <1>4. QED
    BY <1>1, <1>2, <1>3 DEF ToSet

-----------------------------------------------------------------------------
(* Migrations *)

InPlan(r) == migratePc[r] \in {"apply", "insert"}

\* What a run executed of its current file, it executed from the file it read.
EarnedSoFar(r) ==
    /\ InPlan(r) => \A v \in pending[r] : files[r][v] # NoFile
    /\ migratePc[r] # "apply" => statement[r] = 1
    /\ migratePc[r] = "apply" =>
          \A n \in 1 .. Statements :
              n < statement[r] =>
                  <<files[r][CurrentVersion(r)], n>> \in performed[CurrentVersion(r)]
    /\ migratePc[r] = "insert" =>
          \A n \in 1 .. Statements :
              <<files[r][CurrentVersion(r)], n>> \in performed[CurrentVersion(r)]

\* The plan stays ahead of the history, whose files the run has seen unchanged.
PlanIsAhead(r) ==
    InPlan(r) =>
        /\ \A v \in pending[r], row \in ToSet(history) : v > row.version
        /\ \A row \in ToSet(history) : files[r][row.version] = row.checksum

Ascending ==
    \A i, j \in 1 .. Len(history) : i < j => history[i].version < history[j].version

OneRunOnly ==
    ~runsOverlapped =>
        /\ \A q, r \in Runners : migratePc[q] # "idle" /\ migratePc[r] # "idle" => q = r
        /\ \A r \in Runners : PlanIsAhead(r)
        /\ Ascending

MigrationsInv ==
    /\ MigrationsTypeOK /\ HistoryIsEarned
    /\ (\A r \in Runners : EarnedSoFar(r))
    /\ OneRunOnly

LEMMA MigrationBounds ==
    /\ Versions \subseteq Nat /\ NoFile \notin Contents
    /\ Statements \in Nat /\ Statements > 0
    /\ MaxWorkspaceEdits \in Nat /\ MaxRunFaults \in Nat
  BY MigrationsAssumption

\* The version a run works on is the least one of its plan.
LEMMA CurrentIsLeast ==
    ASSUME MigrationsTypeOK, NEW r \in Runners, InPlan(r)
    PROVE  /\ CurrentVersion(r) \in pending[r] /\ CurrentVersion(r) \in Versions
           /\ \A v \in pending[r] : CurrentVersion(r) <= v
  <1>1. pending[r] \in SUBSET Versions /\ pending[r] # {}
    BY DEF MigrationsTypeOK, InPlan
  <1>2. pending[r] \in SUBSET Nat
    BY <1>1, MigrationBounds
  <1>3. QED
    BY <1>1, <1>2, LeastExists DEF CurrentVersion

LEMMA InitEstablishesMigrations == MigrationsInit => MigrationsInv
  <1> SUFFICES ASSUME MigrationsInit PROVE MigrationsInv
    OBVIOUS
  <1>1. /\ history \in Seq(Rows) /\ Len(history) = 0 /\ ToSet(history) = {}
    <2>1. history = << >>
      BY DEF MigrationsInit
    <2>2. history \in Seq(Rows) /\ Len(history) = 0
      BY <2>1
    <2>3. DOMAIN history = {}
      BY <2>2, LenProperties
    <2>4. QED
      BY <2>2, <2>3 DEF ToSet
  <1>2. MigrationsTypeOK
    <2>1. NoFiles \in [Versions -> Contents \union {NoFile}]
      BY DEF NoFiles
    <2>2. /\ workspace \in [Versions -> Contents \union {NoFile}]
          /\ files \in [Runners -> [Versions -> Contents \union {NoFile}]]
          /\ performed \in [Versions -> SUBSET (Contents \X (1 .. Statements))]
      BY <2>1 DEF MigrationsInit
    <2>3. /\ migratePc \in [Runners -> {"idle", "plan", "apply", "insert"}]
          /\ pending \in [Runners -> SUBSET Versions]
          /\ \A r \in Runners : migratePc[r] \notin {"apply", "insert"}
      BY DEF MigrationsInit
    <2>4. statement \in [Runners -> 1 .. Statements]
      BY MigrationBounds DEF MigrationsInit
    <2>5. runsOverlapped \in BOOLEAN
      BY Zenon DEF MigrationsInit
    <2>6. workspaceEdits \in 0 .. MaxWorkspaceEdits /\ runFaults \in 0 .. MaxRunFaults
      BY MigrationBounds DEF MigrationsInit
    <2>7. QED
      BY <1>1, <2>2, <2>3, <2>4, <2>5, <2>6 DEF MigrationsTypeOK
  <1>3. \A r \in Runners : ~InPlan(r) /\ migratePc[r] = "idle" /\ statement[r] = 1
    BY DEF MigrationsInit, InPlan
  <1>4. HistoryIsEarned /\ Ascending
    BY <1>1 DEF HistoryIsEarned, Ascending
  <1>5. (\A r \in Runners : EarnedSoFar(r)) /\ OneRunOnly
    BY <1>3, <1>4 DEF EarnedSoFar, OneRunOnly, PlanIsAhead, InPlan
  <1>6. QED
    BY <1>2, <1>4, <1>5 DEF MigrationsInv

-----------------------------------------------------------------------------
\* What a step of one run leaves alone in the others.
OthersRun(r) ==
    \A q \in Runners \ {r} :
        /\ migratePc'[q] = migratePc[q] /\ files'[q] = files[q]
        /\ pending'[q] = pending[q] /\ statement'[q] = statement[q]

\* Statements that were executed stay executed.
Grows == \A v \in Versions : performed[v] \subseteq performed'[v]

LEMMA EarnedByOthers ==
    ASSUME MigrationsInv, NEW r \in Runners, OthersRun(r), Grows
    PROVE  \A q \in Runners \ {r} : EarnedSoFar(q)'
  <1> SUFFICES ASSUME NEW q \in Runners \ {r} PROVE EarnedSoFar(q)'
    OBVIOUS
  <1>1. /\ migratePc'[q] = migratePc[q] /\ files'[q] = files[q]
        /\ pending'[q] = pending[q] /\ statement'[q] = statement[q]
    BY DEF OthersRun
  <1>2. CurrentVersion(q)' = CurrentVersion(q)
    BY <1>1 DEF CurrentVersion
  <1>3. InPlan(q) => CurrentVersion(q) \in Versions
    BY CurrentIsLeast DEF MigrationsInv
  <1>4. EarnedSoFar(q)
    BY DEF MigrationsInv
  <1>5. QED
    BY <1>1, <1>2, <1>3, <1>4 DEF EarnedSoFar, InPlan, Grows

\* A run that stops, here with or without a fault.
LEMMA StopTypes ==
    ASSUME MigrationsTypeOK, NEW r \in Runners, StopRun(r)
    PROVE  /\ migratePc' \in [Runners -> {"idle", "plan", "apply", "insert"}]
           /\ files' \in [Runners -> [Versions -> Contents \union {NoFile}]]
           /\ pending' \in [Runners -> SUBSET Versions]
           /\ statement' \in [Runners -> 1 .. Statements]
           /\ migratePc'[r] = "idle" /\ statement'[r] = 1 /\ OthersRun(r)
           /\ \A q \in Runners : InPlan(q)' => q # r /\ pending'[q] # {}
  <1>1. NoFiles \in [Versions -> Contents \union {NoFile}] /\ 1 \in 1 .. Statements
    BY MigrationBounds DEF NoFiles
  <1>2. /\ migratePc' \in [Runners -> {"idle", "plan", "apply", "insert"}]
        /\ migratePc'[r] = "idle" /\ statement'[r] = 1
    BY DEF StopRun, MigrationsTypeOK
  <1>3. /\ files' \in [Runners -> [Versions -> Contents \union {NoFile}]]
        /\ pending' \in [Runners -> SUBSET Versions]
        /\ statement' \in [Runners -> 1 .. Statements]
    BY <1>1 DEF StopRun, MigrationsTypeOK
  <1>4. OthersRun(r)
    BY DEF StopRun, OthersRun, MigrationsTypeOK
  <1>5. \A q \in Runners : InPlan(q)' => q # r /\ pending'[q] # {}
    BY <1>2, <1>4 DEF InPlan, OthersRun, MigrationsTypeOK
  <1>6. QED
    BY <1>2, <1>3, <1>4, <1>5

\* A step of r after which it is idle or its plan and the history still fit
\* keeps the runs of one at a time.
LEMMA OneRunKept ==
    ASSUME MigrationsInv, NEW r \in Runners, OthersRun(r), migratePc[r] # "idle",
           runsOverlapped' = runsOverlapped,
           runsOverlapped \/ (PlanIsAhead(r)' /\ Ascending')
    PROVE  OneRunOnly'
  <1> SUFFICES ASSUME ~runsOverlapped PROVE OneRunOnly'
    BY DEF OneRunOnly
  <1>1. \A q \in Runners \ {r} : migratePc[q] = "idle" /\ migratePc'[q] = "idle"
    BY DEF MigrationsInv, OneRunOnly, OthersRun
  <1>2. \A q \in Runners \ {r} : PlanIsAhead(q)'
    BY <1>1 DEF PlanIsAhead, InPlan
  <1>3. QED
    BY <1>1, <1>2 DEF OneRunOnly

-----------------------------------------------------------------------------
LEMMA EditPreservesMigrations ==
    ASSUME MigrationsInv, NEW v \in Versions, NEW c \in Contents \union {NoFile},
           EditWorkspace(v, c)
    PROVE  MigrationsInv'
  <1>1. /\ workspace' \in [Versions -> Contents \union {NoFile}]
        /\ workspaceEdits' \in 0 .. MaxWorkspaceEdits
    BY MigrationBounds DEF EditWorkspace, MigrationsInv, MigrationsTypeOK
  <1>2. UNCHANGED <<history, performed, migratePc, files, pending, statement, runsOverlapped,
                    runFaults>>
    BY DEF EditWorkspace, runVars
  <1>3. MigrationsTypeOK'
    BY <1>1, <1>2 DEF MigrationsInv, MigrationsTypeOK, Rows
  <1>4. HistoryIsEarned' /\ (\A r \in Runners : EarnedSoFar(r)') /\ OneRunOnly'
    BY <1>2 DEF MigrationsInv, HistoryIsEarned, EarnedSoFar, CurrentVersion, InPlan, OneRunOnly,
                PlanIsAhead, Ascending
  <1>5. QED
    BY <1>3, <1>4 DEF MigrationsInv

LEMMA StartPreservesMigrations ==
    ASSUME MigrationsInv, NEW r \in Runners, StartRun(r)
    PROVE  MigrationsInv'
  <1>1. /\ migratePc[r] = "idle" /\ migratePc' = [migratePc EXCEPT ![r] = "plan"]
        /\ files' = [files EXCEPT ![r] = workspace]
        /\ runsOverlapped' = (runsOverlapped \/ \E o \in Runners \ {r} : migratePc[o] # "idle")
        /\ UNCHANGED <<workspace, history, performed, pending, statement, workspaceEdits, runFaults>>
    BY DEF StartRun
  <1>2. /\ migratePc' \in [Runners -> {"idle", "plan", "apply", "insert"}] /\ migratePc'[r] = "plan"
        /\ files' \in [Runners -> [Versions -> Contents \union {NoFile}]]
        /\ OthersRun(r) /\ Grows
    BY <1>1 DEF MigrationsInv, MigrationsTypeOK, OthersRun, Grows
  <1>3. runsOverlapped' \in BOOLEAN
    BY <1>1, Zenon DEF MigrationsInv, MigrationsTypeOK
  <1>4. MigrationsTypeOK'
    BY <1>1, <1>2, <1>3 DEF MigrationsInv, MigrationsTypeOK, OthersRun
  <1>5. \A q \in Runners : EarnedSoFar(q)'
    <2>1. statement'[r] = 1
      BY <1>1 DEF MigrationsInv, EarnedSoFar
    <2>2. QED
      BY <1>2, <2>1, EarnedByOthers DEF EarnedSoFar, InPlan
  <1>6. OneRunOnly'
    <2> SUFFICES ASSUME ~runsOverlapped' PROVE OneRunOnly'
      BY DEF OneRunOnly
    <2>1. ~runsOverlapped /\ \A o \in Runners \ {r} : migratePc[o] = "idle"
      BY <1>1
    <2>2. \A q \in Runners : ~InPlan(q)' /\ (migratePc'[q] # "idle" => q = r)
      BY <1>2, <2>1 DEF OthersRun, InPlan
    <2>3. Ascending'
      BY <1>1, <2>1 DEF MigrationsInv, OneRunOnly, Ascending
    <2>4. QED
      BY <2>2, <2>3 DEF OneRunOnly, PlanIsAhead
  <1>7. HistoryIsEarned'
    BY <1>1 DEF MigrationsInv, HistoryIsEarned
  <1>8. QED
    BY <1>4, <1>5, <1>6, <1>7 DEF MigrationsInv

\* A run that stops keeps what it executed and recorded.
LEMMA StopPreservesMigrations ==
    ASSUME MigrationsInv, NEW r \in Runners, migratePc[r] # "idle", StopRun(r),
           UNCHANGED <<workspace, history, performed, runsOverlapped, workspaceEdits>>,
           runFaults' \in 0 .. MaxRunFaults
    PROVE  MigrationsInv'
  <1>1. MigrationsTypeOK
    BY DEF MigrationsInv
  <1>2. MigrationsTypeOK' /\ OthersRun(r) /\ migratePc'[r] = "idle" /\ statement'[r] = 1
    BY <1>1, StopTypes DEF MigrationsTypeOK, InPlan
  <1>3. \A q \in Runners : EarnedSoFar(q)'
    <2>1. Grows
      BY DEF Grows
    <2>2. QED
      BY <1>2, <2>1, EarnedByOthers DEF EarnedSoFar, InPlan
  <1>4. OneRunOnly'
    <2>1. runsOverlapped \/ Ascending'
      BY DEF MigrationsInv, OneRunOnly, Ascending
    <2>2. PlanIsAhead(r)'
      BY <1>2 DEF PlanIsAhead, InPlan
    <2>3. QED
      BY <1>2, <2>1, <2>2, OneRunKept
  <1>5. HistoryIsEarned'
    BY DEF MigrationsInv, HistoryIsEarned
  <1>6. QED
    BY <1>2, <1>3, <1>4, <1>5 DEF MigrationsInv

LEMMA PlanPreservesMigrations ==
    ASSUME MigrationsInv, NEW r \in Runners, PlanRun(r)
    PROVE  MigrationsInv'
  <1>1. CASE ~SomethingPlanned(files[r])
    <2>1. /\ migratePc[r] # "idle" /\ StopRun(r)
          /\ UNCHANGED <<workspace, history, performed, runsOverlapped, workspaceEdits, runFaults>>
      BY <1>1 DEF PlanRun
    <2>2. runFaults' \in 0 .. MaxRunFaults
      BY <2>1 DEF MigrationsInv, MigrationsTypeOK
    <2>3. QED
      BY <2>1, <2>2, StopPreservesMigrations
  <1>2. CASE SomethingPlanned(files[r])
    <2>1. /\ migratePc[r] = "plan" /\ migratePc' = [migratePc EXCEPT ![r] = "apply"]
          /\ pending' = [pending EXCEPT ![r] = Unapplied(files[r])]
          /\ UNCHANGED <<workspace, history, performed, files, statement, runsOverlapped,
                         workspaceEdits, runFaults>>
      BY <1>2 DEF PlanRun
    <2>2. /\ Unapplied(files[r]) \in SUBSET Versions /\ Unapplied(files[r]) # {}
          /\ \A v \in Unapplied(files[r]) : files[r][v] # NoFile
          /\ \A v \in Unapplied(files[r]), row \in ToSet(history) : v > row.version
          /\ \A row \in ToSet(history) : files[r][row.version] = row.checksum
      BY <1>2 DEF SomethingPlanned, PlanAccepted, Unchanged, InOrder, Unapplied, Applied
    <2>3. /\ migratePc' \in [Runners -> {"idle", "plan", "apply", "insert"}]
          /\ pending' \in [Runners -> SUBSET Versions]
          /\ migratePc'[r] = "apply" /\ pending'[r] = Unapplied(files[r])
          /\ OthersRun(r) /\ Grows
      BY <2>1, <2>2 DEF MigrationsInv, MigrationsTypeOK, OthersRun, Grows
    <2>4. MigrationsTypeOK'
      BY <2>1, <2>2, <2>3 DEF MigrationsInv, MigrationsTypeOK, OthersRun
    <2>5. statement[r] = 1
      BY <2>1 DEF MigrationsInv, EarnedSoFar
    <2>6. EarnedSoFar(r)'
      BY <2>1, <2>2, <2>3, <2>5 DEF EarnedSoFar, InPlan
    <2>7. PlanIsAhead(r)' /\ (runsOverlapped \/ Ascending')
      BY <2>1, <2>2, <2>3 DEF PlanIsAhead, MigrationsInv, OneRunOnly, Ascending
    <2>8. HistoryIsEarned'
      BY <2>1 DEF MigrationsInv, HistoryIsEarned
    <2>9. QED
      BY <2>1, <2>3, <2>4, <2>6, <2>7, <2>8, EarnedByOthers, OneRunKept DEF MigrationsInv
  <1>3. QED
    BY <1>1, <1>2

LEMMA ExecutePreservesMigrations ==
    ASSUME MigrationsInv, NEW r \in Runners, ExecuteStatement(r)
    PROVE  MigrationsInv'
  <1> DEFINE v == CurrentVersion(r)
             c == files[r][v]
             n == statement[r]
  <1>1. /\ migratePc[r] = "apply" /\ performed' = [performed EXCEPT ![v] = @ \union {<<c, n>>}]
        /\ UNCHANGED <<workspace, history, files, pending, runsOverlapped, workspaceEdits, runFaults>>
    BY DEF ExecuteStatement
  <1>2. InPlan(r) /\ MigrationsTypeOK /\ n \in 1 .. Statements
    BY <1>1 DEF InPlan, MigrationsInv, MigrationsTypeOK
  <1>3. v \in pending[r] /\ v \in Versions
    BY <1>2, CurrentIsLeast
  <1>4. c \in Contents
    BY <1>2, <1>3 DEF MigrationsInv, MigrationsTypeOK, EarnedSoFar
  <1>5. \A m \in 1 .. Statements : m < n => <<c, m>> \in performed[v]
    BY <1>1 DEF MigrationsInv, EarnedSoFar
  <1>6. CurrentVersion(r)' = v
    BY <1>1 DEF CurrentVersion
  <1> HIDE DEF v, c, n
  <1>7. /\ performed' \in [Versions -> SUBSET (Contents \X (1 .. Statements))]
        /\ performed'[v] = performed[v] \union {<<c, n>>} /\ Grows
    BY <1>1, <1>2, <1>3, <1>4 DEF MigrationsTypeOK, Grows
  <1>8. /\ migratePc' \in [Runners -> {"idle", "plan", "apply", "insert"}]
        /\ migratePc'[r] \in {"apply", "insert"}
        /\ statement' \in [Runners -> 1 .. Statements]
        /\ migratePc'[r] = "apply" => statement'[r] = n + 1
        /\ migratePc'[r] = "insert" => statement'[r] = 1 /\ n = Statements
        /\ OthersRun(r)
    <2>1. CASE LastStatement(n)
      <3>1. migratePc' = [migratePc EXCEPT ![r] = "insert"] /\ statement' = [statement EXCEPT ![r] = 1]
        BY <2>1 DEF ExecuteStatement, n
      <3>2. QED
        BY <1>1, <1>2, <2>1, <3>1, MigrationBounds DEF LastStatement, MigrationsTypeOK, OthersRun
    <2>2. CASE ~LastStatement(n)
      <3>1. migratePc' = migratePc /\ statement' = [statement EXCEPT ![r] = n + 1]
        BY <2>2 DEF ExecuteStatement, n
      <3>2. n + 1 \in 1 .. Statements
        BY <1>2, <2>2, MigrationBounds DEF LastStatement
      <3>3. QED
        BY <1>1, <1>2, <3>1, <3>2 DEF MigrationsTypeOK, OthersRun
    <2>3. QED
      BY <2>1, <2>2
  <1>9. MigrationsTypeOK'
    BY <1>1, <1>2, <1>7, <1>8 DEF MigrationsTypeOK, OthersRun, InPlan, Rows
  <1>10. EarnedSoFar(r)'
    <2>1. \A w \in pending'[r] : files'[r][w] # NoFile
      BY <1>1, <1>2 DEF MigrationsInv, EarnedSoFar
    <2>2. files'[r][CurrentVersion(r)'] = c
      BY <1>1, <1>6 DEF c
    <2>3. \A m \in 1 .. Statements : m < n + 1 => <<c, m>> \in performed'[v]
      BY <1>2, <1>5, <1>7
    <2>4. QED
      BY <1>2, <1>6, <1>8, <2>1, <2>2, <2>3, MigrationBounds DEF EarnedSoFar
  <1>11. HistoryIsEarned'
    <2>1. \A row \in ToSet(history) : row.version \in Versions
      <3>1. history \in Seq(Rows)
        BY <1>2 DEF MigrationsTypeOK
      <3>2. \A i \in DOMAIN history : history[i] \in Rows
        BY <3>1, LenProperties, ElementOfSeq
      <3>3. QED
        BY <3>2 DEF ToSet, Rows
    <2>2. QED
      BY <1>1, <1>7, <2>1 DEF MigrationsInv, HistoryIsEarned, Grows
  <1>12. OneRunOnly'
    <2>1. runsOverlapped \/ (PlanIsAhead(r)' /\ Ascending')
      BY <1>1, <1>2 DEF MigrationsInv, OneRunOnly, PlanIsAhead, Ascending, InPlan
    <2>2. QED
      BY <1>1, <1>8, <2>1, OneRunKept
  <1>13. QED
    BY <1>7, <1>8, <1>9, <1>10, <1>11, <1>12, EarnedByOthers DEF MigrationsInv

LEMMA InsertPreservesMigrations ==
    ASSUME MigrationsInv, NEW r \in Runners, InsertHistory(r)
    PROVE  MigrationsInv'
  <1> DEFINE v == CurrentVersion(r)
             row == [version |-> v, checksum |-> files[r][v]]
             rest == pending[r] \ {v}
  <1>1. /\ migratePc[r] = "insert" /\ history' = Append(history, row)
        /\ UNCHANGED <<workspace, performed, runsOverlapped, workspaceEdits, runFaults>>
    BY DEF InsertHistory
  <1>2. InPlan(r) /\ MigrationsTypeOK
    BY <1>1 DEF InPlan, MigrationsInv
  <1>3. v \in pending[r] /\ v \in Versions /\ \A w \in pending[r] : v <= w
    BY <1>2, CurrentIsLeast
  <1>4. row \in Rows /\ history \in Seq(Rows)
    <2>1. files[r][v] \in Contents
      BY <1>2, <1>3 DEF MigrationsInv, MigrationsTypeOK, EarnedSoFar
    <2>2. QED
      BY <1>2, <1>3, <2>1 DEF Rows, MigrationsTypeOK
  <1>5. /\ history' \in Seq(Rows) /\ Len(history') = Len(history) + 1 /\ Len(history) \in Nat
        /\ \A i \in 1 .. Len(history) : history'[i] = history[i] /\ history[i] \in ToSet(history)
        /\ history'[Len(history) + 1] = row
        /\ ToSet(history') = ToSet(history) \union {row}
    <2>1. \A i \in 1 .. Len(history) : history[i] \in ToSet(history)
      BY <1>4, LenProperties DEF ToSet
    <2>2. QED
      BY <1>1, <1>4, <2>1, AppendProperties, AppendedSet, LenProperties
  <1>6. row.version = v /\ row.checksum = files[r][v]
    OBVIOUS
  <1>7. IF rest = {} THEN StopRun(r)
        ELSE /\ pending' = [pending EXCEPT ![r] = rest]
             /\ migratePc' = [migratePc EXCEPT ![r] = "apply"]
             /\ UNCHANGED <<files, statement>>
    BY DEF InsertHistory
  <1>8. /\ \A n \in 1 .. Statements : <<row.checksum, n>> \in performed[row.version]
        /\ statement[r] = 1
        /\ \A w \in pending[r] : files[r][w] # NoFile
    BY <1>1, <1>2 DEF MigrationsInv, EarnedSoFar
  <1>9. runsOverlapped \/ (PlanIsAhead(r) /\ Ascending)
    BY DEF MigrationsInv, OneRunOnly
  <1> HIDE DEF v, row
  <1>10. HistoryIsEarned'
    BY <1>1, <1>5, <1>8 DEF MigrationsInv, HistoryIsEarned
  <1>11. runsOverlapped \/ Ascending'
    <2> SUFFICES ASSUME ~runsOverlapped, NEW i \in 1 .. Len(history'), NEW j \in 1 .. Len(history'), i < j
                 PROVE  history'[i].version < history'[j].version
      BY DEF Ascending
    <2>1. i \in 1 .. Len(history) /\ history'[i] = history[i] /\ history[i] \in ToSet(history)
      BY <1>5
    <2>2. CASE j = Len(history) + 1
      BY <1>2, <1>3, <1>5, <1>6, <1>9, <2>1, <2>2 DEF PlanIsAhead
    <2>3. CASE j # Len(history) + 1
      <3>1. j \in 1 .. Len(history)
        BY <1>5, <2>3
      <3>2. QED
        BY <1>5, <1>9, <2>1, <3>1 DEF Ascending
    <2>4. QED
      BY <2>2, <2>3
  <1>12. CASE rest = {}
    <2>1. StopRun(r)
      BY <1>7, <1>12
    <2>2. MigrationsTypeOK' /\ OthersRun(r) /\ migratePc'[r] = "idle" /\ statement'[r] = 1
      BY <1>1, <1>2, <1>5, <2>1, StopTypes DEF MigrationsTypeOK, InPlan, Rows
    <2>3. Grows
      BY <1>1 DEF Grows
    <2>4. EarnedSoFar(r)' /\ PlanIsAhead(r)'
      BY <2>2 DEF EarnedSoFar, PlanIsAhead, InPlan
    <2>5. QED
      BY <1>1, <1>10, <1>11, <2>2, <2>3, <2>4, EarnedByOthers, OneRunKept DEF MigrationsInv
  <1>13. CASE rest # {}
    <2>1. /\ pending' = [pending EXCEPT ![r] = rest]
          /\ migratePc' = [migratePc EXCEPT ![r] = "apply"] /\ UNCHANGED <<files, statement>>
      BY <1>7, <1>13
    <2>2. rest \in SUBSET Versions
      BY <1>2 DEF MigrationsTypeOK
    <2>3. /\ pending' \in [Runners -> SUBSET Versions] /\ pending'[r] = rest
          /\ migratePc' \in [Runners -> {"idle", "plan", "apply", "insert"}]
          /\ migratePc'[r] = "apply" /\ OthersRun(r)
      BY <1>2, <2>1, <2>2 DEF MigrationsTypeOK, OthersRun
    <2>4. MigrationsTypeOK'
      BY <1>1, <1>2, <1>5, <1>13, <2>1, <2>3 DEF MigrationsTypeOK, OthersRun, Rows
    <2>5. Grows
      BY <1>1 DEF Grows
    <2>6. EarnedSoFar(r)'
      BY <1>8, <2>1, <2>3 DEF EarnedSoFar, InPlan
    <2>7. runsOverlapped \/ PlanIsAhead(r)'
      <3> SUFFICES ASSUME ~runsOverlapped PROVE PlanIsAhead(r)'
        OBVIOUS
      <3>1. \A w \in rest : w \in Nat /\ v \in Nat /\ v <= w /\ w # v
        BY <1>3, <2>2, MigrationBounds
      <3>2. \A w \in rest : w > v
        BY <3>1
      <3>3. QED
        BY <1>2, <1>5, <1>6, <1>9, <2>1, <2>3, <3>2 DEF PlanIsAhead, rest
    <2>8. QED
      BY <1>1, <1>10, <1>11, <2>3, <2>4, <2>5, <2>6, <2>7, EarnedByOthers, OneRunKept
      DEF MigrationsInv
  <1>14. QED
    BY <1>12, <1>13

LEMMA MigrationsStepPreserves == MigrationsInv /\ [MigrationsNext]_migrationVars => MigrationsInv'
  <1> SUFFICES ASSUME MigrationsInv, [MigrationsNext]_migrationVars PROVE MigrationsInv'
    OBVIOUS
  <1>1. ASSUME NEW v \in Versions, NEW c \in Contents \union {NoFile}, EditWorkspace(v, c)
        PROVE  MigrationsInv'
    BY <1>1, EditPreservesMigrations
  <1>2. ASSUME NEW r \in Runners, Migrating(r) PROVE MigrationsInv'
    BY <1>2, StartPreservesMigrations, PlanPreservesMigrations, ExecutePreservesMigrations,
       InsertPreservesMigrations DEF Migrating
  <1>3. ASSUME NEW r \in Runners, RunFails(r) PROVE MigrationsInv'
    <2>1. runFaults' \in 0 .. MaxRunFaults
      BY <1>3, MigrationBounds DEF RunFails, MigrationsInv, MigrationsTypeOK
    <2>2. QED
      BY <1>3, <2>1, StopPreservesMigrations DEF RunFails
  <1>4. CASE UNCHANGED migrationVars
    BY <1>4 DEF migrationVars, runVars, MigrationsInv, MigrationsTypeOK, HistoryIsEarned, EarnedSoFar,
                CurrentVersion, InPlan, OneRunOnly, PlanIsAhead, Ascending
  <1>5. QED
    BY <1>1, <1>2, <1>3, <1>4 DEF MigrationsNext

LEMMA MigrationsInvariant == MigrationsSpec => []MigrationsInv
  BY InitEstablishesMigrations, MigrationsStepPreserves, PTL DEF MigrationsSpec

\* The history table, the plans and the workspace keep their types; a run that
\* applies always has a file left.
THEOREM MigrationsAreTyped == MigrationsSpec => []MigrationsTypeOK
  <1>1. MigrationsInv => MigrationsTypeOK
    BY DEF MigrationsInv
  <1>2. QED
    BY <1>1, MigrationsInvariant, PTL

\* A history row stands for a file all of whose statements were executed with
\* the recorded content, whatever failed or ran at the same time.
THEOREM RowsAreEarned == MigrationsSpec => []HistoryIsEarned
  <1>1. MigrationsInv => HistoryIsEarned
    BY DEF MigrationsInv
  <1>2. QED
    BY <1>1, MigrationsInvariant, PTL

\* The history is earned; and as long as deployments do not overlap, it grows
\* in the order of the versions, no recorded version is executed again, and no
\* run goes on over a file that differs from the recorded one.
THEOREM HistoryStaysSound == MigrationsSpec => []HistoryIsSound
  <1>1. MigrationsInv => HistoryIsSound
    <2> SUFFICES ASSUME MigrationsInv PROVE HistoryIsSound
      OBVIOUS
    <2>1. HistoryIsOrdered
      <3> SUFFICES ASSUME ~runsOverlapped PROVE HistoryIsOrdered
        BY DEF HistoryIsOrdered
      <3>1. history \in Seq(Rows)
        BY DEF MigrationsInv, MigrationsTypeOK
      <3>2. \A i, j \in DOMAIN history : i < j => history[i].version < history[j].version
        BY <3>1, LenProperties DEF MigrationsInv, OneRunOnly, Ascending
      <3>3. ASSUME NEW r \in Runners, migratePc[r] = "apply"
            PROVE  CurrentVersion(r) \notin Applied
        <4>1. CurrentVersion(r) \in pending[r] /\ CurrentVersion(r) \in Nat
          BY <3>3, CurrentIsLeast, MigrationBounds DEF MigrationsInv, InPlan
        <4>2. \A row \in ToSet(history) : CurrentVersion(r) > row.version
          BY <3>3, <4>1 DEF MigrationsInv, OneRunOnly, PlanIsAhead, InPlan
        <4>3. QED
          BY <4>1, <4>2 DEF Applied
      <3>4. QED
        BY <3>2, <3>3 DEF HistoryIsOrdered
    <2>2. ChangedFilesStopRuns
      BY DEF ChangedFilesStopRuns, MigrationsInv, OneRunOnly, PlanIsAhead, InPlan
    <2>3. QED
      BY <2>1, <2>2 DEF HistoryIsSound, MigrationsInv
  <1>2. QED
    BY <1>1, MigrationsInvariant, PTL

-----------------------------------------------------------------------------
(* The composition *)

\* Each service of a behaviour of the composition behaves as specified.
LEMMA ServedImplementTheirSpecs ==
    ServedSpec => Spec /\ JudgmentSpec /\ QueueSpec /\ MigrationsSpec
  <1>1. ServedInit => Init /\ JudgmentInit /\ QueueInit /\ MigrationsInit
    BY DEF ServedInit
  <1>2. [ServedNext]_servedVars
          => /\ [Next]_vars /\ [JudgmentNext]_judgeVars
             /\ [QueueNext]_queueVars /\ [MigrationsNext]_migrationVars
    <2>1. CASE UNCHANGED servedVars
      BY <2>1 DEF servedVars, criteriaVars
    <2>2. CASE ServedNext
      BY <2>2 DEF ServedNext, Turn, Others, criteriaVars
    <2>3. QED
      BY <2>1, <2>2
  <1>3. ServedFairness => JudgmentProgresses
    BY PTL DEF ServedFairness
  <1>4. QED
    BY <1>1, <1>2, <1>3, PTL DEF ServedSpec, Spec, JudgmentSpec, QueueSpec, MigrationsSpec

\* In the composition too, every service is in states of its types.
THEOREM ServedAreTyped == ServedSpec => []FairTypeOK
  <1>1. CriteriaTypeOK /\ JudgmentTypeOK /\ QueueTypeOK /\ MigrationsTypeOK => FairTypeOK
    BY DEF FairTypeOK
  <1>2. QED
    BY <1>1, ServedImplementTheirSpecs, CriteriaAreTyped, JudgmentIsTyped, QueueIsTyped,
       MigrationsAreTyped, PTL

\* In the composition too, what is published keeps its criteria, a judgment names
\* its cut-offs, every report is accounted for and the history is sound.
THEOREM ServedStaySafe ==
    ServedSpec => [](/\ RubricHolds /\ EarlyStopsAreOnRecord
                     /\ ReportsAreAccounted /\ HistoryIsSound)
  BY ServedImplementTheirSpecs, RubricAlwaysHolds, CutOffsAreNamed, ReportsStayAccounted,
     HistoryStaysSound, PTL
=============================================================================
