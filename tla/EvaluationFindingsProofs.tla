----------------------- MODULE EvaluationFindingsProofs -----------------------
(***************************************************************************)
(* Safety of EvaluationFindings for every set of runs, findings and keys.  *)
(* Why a stale listing resolves nothing that was observed again: starts    *)
(* are distinct, a run stamps each of its candidates once, so no stamp     *)
(* repeats a lastSeenAt that some run has listed (StampsAreOnce).  Why the *)
(* latest run of a key decides: while runs of the key do not overlap, what *)
(* it has done so far is its verdict on the findings of the key so far     *)
(* (VerdictInv).                                                           *)
(***************************************************************************)
EXTENDS EvaluationFindings, FiniteSetTheorems, TLAPS

Begun == {r \in Runs : pc[r] # "idle"}

StartsAreDistinct ==
    /\ clock = Cardinality(Begun)
    /\ \A r \in Runs : startedAt[r] <= clock /\ (pc[r] = "idle" <=> startedAt[r] = 0)
    /\ \A q, r \in Runs : q # r /\ pc[r] # "idle" => startedAt[q] # startedAt[r]

\* What a run works on, observes or lists is of its evaluationKey.
WorkIsOfKey ==
    \A r \in Runs :
        /\ todo[r] \subseteq OfKey(KeyOf[r])
        /\ pc[r] \in {"writing", "refreshing"} => current[r] \in todo[r]
        /\ \A f \in Findings, at \in Times : <<f, at>> \in listed[r] => KeyOf[f] = KeyOf[r]

StampsAreOnce ==
    /\ \A f \in Findings : seenAt[f] <= clock
    /\ \A r \in Runs, f \in Findings, at \in Times : <<f, at>> \in listed[r] => at <= clock
    /\ \A q \in Runs, f \in Findings : f \in todo[q] => seenAt[f] # startedAt[q]
    /\ \A q, r \in Runs, f \in Findings, at \in Times :
           <<f, at>> \in listed[r] /\ f \in todo[q] => at # startedAt[q]
    /\ \A r \in Runs, f \in Findings, at \in Times :
           <<f, at>> \in listed[r] /\ f \in reobserved[r] => seenAt[f] # at

FindingsInv ==
    /\ FindingsTypeOK /\ ColumnsAgreeWithStatus
    /\ StartsAreDistinct /\ WorkIsOfKey /\ StampsAreOnce

-----------------------------------------------------------------------------
\* The clock counts the runs that began, so it never passes their number.
LEMMA ClockIsBounded ==
    ASSUME FindingsInv
    PROVE  /\ Cardinality(Runs) \in Nat /\ IsFiniteSet(Begun)
           /\ \A r \in Runs : pc[r] = "idle" =>
                 /\ Cardinality(Begun \union {r}) = clock + 1
                 /\ clock + 1 \in Times
  <1>1. IsFiniteSet(Begun) /\ Cardinality(Runs) \in Nat /\ Cardinality(Begun) \in Nat
    BY RunsFinite, FS_Subset, FS_CardinalityType DEF Begun
  <1>2. ASSUME NEW r \in Runs, pc[r] = "idle"
        PROVE  Cardinality(Begun \union {r}) = clock + 1 /\ clock + 1 \in Times
    <2>1. r \notin Begun /\ Begun \union {r} \subseteq Runs
      BY <1>2 DEF Begun
    <2>2. Cardinality(Begun \union {r}) = Cardinality(Begun) + 1
      BY <1>1, <2>1, FS_AddElement
    <2>3. Cardinality(Begun \union {r}) <= Cardinality(Runs)
      BY <2>1, RunsFinite, FS_Subset
    <2>4. QED
      BY <1>1, <2>2, <2>3 DEF FindingsInv, StartsAreDistinct, Times
  <1>3. QED
    BY <1>1, <1>2

LEMMA InitEstablishes == Init => FindingsInv
  <1> SUFFICES ASSUME Init PROVE FindingsInv
    OBVIOUS
  <1>1. Cardinality(Runs) \in Nat /\ 0 \in Times
    BY RunsFinite, FS_CardinalityType DEF Times
  <1>2. FindingsTypeOK
    <2>1. /\ fstatus \in [Findings -> FindingStatuses] /\ seenAt \in [Findings -> Times]
          /\ seenBy \in [Findings -> Runs \union {NoRun}] /\ clock \in Times
          /\ startedAt \in [Runs -> Times] /\ seen \in [Runs -> SUBSET Findings]
      BY <1>1 DEF Init
    <2>2. resolvedAt \in [Findings -> BOOLEAN] /\ note \in [Findings -> BOOLEAN]
      BY DEF Init
    <2>3. /\ pc \in [Runs -> Steps] /\ todo \in [Runs -> SUBSET Findings]
          /\ current \in [Runs -> Findings \union {NoFinding}]
          /\ held \in [Runs -> FindingStatuses]
          /\ listed \in [Runs -> SUBSET (Findings \X Times)]
      BY DEF Init, Steps, FindingStatuses
    <2>4. /\ reobserved \in [Runs -> SUBSET Findings]
          /\ decided \in SUBSET Findings /\ overlapped \in SUBSET Keys
      BY DEF Init
    <2>5. decisions \in 0 .. MaxDecisions
      BY DecisionsAssumption DEF Init
    <2>6. QED
      BY <2>1, <2>2, <2>3, <2>4, <2>5 DEF FindingsTypeOK
  <1>3. ColumnsAgreeWithStatus
    BY DEF Init, ColumnsAgreeWithStatus
  <1>4. StartsAreDistinct
    <2>1. Begun = {}
      BY DEF Init, Begun
    <2>2. QED
      BY <2>1, FS_EmptySet DEF Init, StartsAreDistinct
  <1>5. WorkIsOfKey /\ StampsAreOnce
    BY DEF Init, WorkIsOfKey, StampsAreOnce
  <1>6. QED
    BY <1>2, <1>3, <1>4, <1>5 DEF FindingsInv

-----------------------------------------------------------------------------
LEMMA BeginPreserves ==
    ASSUME FindingsInv, NEW r \in Runs, NEW cs \in SUBSET OfKey(KeyOf[r]), Begin(r, cs)
    PROVE  FindingsInv'
  <1>1. clock' = clock + 1 /\ clock' \in Times /\ Cardinality(Begun \union {r}) = clock + 1
    BY ClockIsBounded DEF Begin
  <1>2. cs \in SUBSET Findings /\ KeyOf[r] \in Keys
    BY KeyAssumption DEF OfKey
  <1>3. FindingsTypeOK'
    <2>1. /\ startedAt' \in [Runs -> Times] /\ seen' \in [Runs -> SUBSET Findings]
          /\ todo' \in [Runs -> SUBSET Findings]
      BY <1>1, <1>2 DEF Begin, FindingsInv, FindingsTypeOK
    <2>2. pc' \in [Runs -> Steps]
      BY DEF Begin, Goto, Steps, FindingsInv, FindingsTypeOK
    <2>3. decided' \in SUBSET Findings /\ overlapped' \in SUBSET Keys
      BY <1>2 DEF Begin, FindingsInv, FindingsTypeOK
    <2>4. QED
      BY <1>1, <2>1, <2>2, <2>3 DEF Begin, rowVars, FindingsInv, FindingsTypeOK
  <1>4. ColumnsAgreeWithStatus'
    BY DEF Begin, rowVars, FindingsInv, ColumnsAgreeWithStatus
  <1>5. pc'[r] # "idle" /\ \A q \in Runs \ {r} : pc'[q] = pc[q] /\ startedAt'[q] = startedAt[q]
    BY DEF Begin, Goto, FindingsInv, FindingsTypeOK
  <1>6. startedAt'[r] = clock + 1 /\ clock \in Nat
    BY ClockIsBounded DEF Begin, FindingsInv, FindingsTypeOK, Times
  <1>7. StartsAreDistinct'
    <2>1. Begun' = Begun \union {r}
      BY <1>5 DEF Begun
    <2>2. clock' = Cardinality(Begun')
      BY <1>1, <2>1
    <2>3. \A q \in Runs \ {r} : startedAt'[q] < startedAt'[r] /\ startedAt'[q] <= clock'
      BY <1>1, <1>5, <1>6 DEF FindingsInv, FindingsTypeOK, StartsAreDistinct, Times
    <2>4. \A q \in Runs : startedAt'[q] <= clock'
      BY <1>1, <1>6, <2>3
    <2>5. \A q \in Runs : pc'[q] = "idle" <=> startedAt'[q] = 0
      <3>1. startedAt'[r] # 0
        BY <1>6
      <3>2. QED
        BY <1>5, <3>1 DEF FindingsInv, StartsAreDistinct
    <2>6. \A p, q \in Runs : p # q /\ pc'[q] # "idle" => startedAt'[p] # startedAt'[q]
      <3>1. \A p \in Runs \ {r} : startedAt'[p] # startedAt'[r]
        <4>1. \A p \in Runs \ {r} : startedAt'[p] <= clock /\ startedAt'[p] \in Nat
          BY <1>5 DEF FindingsInv, FindingsTypeOK, StartsAreDistinct, Times
        <4>2. QED
          BY <1>6, <4>1
      <3>2. \A p, q \in Runs \ {r} : p # q /\ pc'[q] # "idle" => startedAt'[p] # startedAt'[q]
        BY <1>5 DEF FindingsInv, StartsAreDistinct
      <3>3. QED
        BY <3>1, <3>2
    <2>7. QED
      BY <2>2, <2>4, <2>5, <2>6 DEF StartsAreDistinct
  <1>8. /\ todo'[r] = cs /\ \A q \in Runs \ {r} : todo'[q] = todo[q]
        /\ UNCHANGED <<seenAt, current, listed, reobserved>>
    BY DEF Begin, rowVars, FindingsInv, FindingsTypeOK
  <1>9. WorkIsOfKey'
    BY <1>5, <1>8 DEF Begin, Goto, FindingsInv, FindingsTypeOK, WorkIsOfKey, OfKey
  <1>10. StampsAreOnce'
    <2>1. \A f \in Findings : seenAt[f] <= clock /\ seenAt[f] < clock + 1 /\ seenAt[f] <= clock'
      BY <1>1, <1>6 DEF FindingsInv, FindingsTypeOK, StampsAreOnce, Times
    <2>2. \A q \in Runs, f \in Findings, at \in Times : <<f, at>> \in listed[q] =>
              at < clock + 1 /\ at <= clock'
      BY <1>1, <1>6 DEF FindingsInv, StampsAreOnce, Times
    <2>3. \A q \in Runs, f \in Findings : f \in todo'[q] => seenAt'[f] # startedAt'[q]
      BY <1>5, <1>6, <1>8, <2>1 DEF FindingsInv, StampsAreOnce
    <2>4. \A q, p \in Runs, f \in Findings, at \in Times :
              <<f, at>> \in listed'[p] /\ f \in todo'[q] => at # startedAt'[q]
      BY <1>5, <1>6, <1>8, <2>2 DEF FindingsInv, StampsAreOnce
    <2>5. QED
      BY <1>8, <2>1, <2>2, <2>3, <2>4 DEF FindingsInv, StampsAreOnce
  <1>11. QED
    BY <1>3, <1>4, <1>7, <1>9, <1>10 DEF FindingsInv

\* A step that moves a run that has begun, and starts none.
LEMMA StartsUntouched ==
    ASSUME FindingsInv, NEW r \in Runs, pc[r] # "idle",
           pc' \in [Runs -> Steps], pc'[r] # "idle", \A q \in Runs \ {r} : pc'[q] = pc[q],
           UNCHANGED <<clock, startedAt>>
    PROVE  StartsAreDistinct'
  <1>1. Begun' = Begun
    BY DEF Begun
  <1>2. QED
    BY <1>1 DEF FindingsInv, StartsAreDistinct

\* Steps that move a run and touch no row and no listing.
LEMMA QuietStepPreserves ==
    ASSUME FindingsInv, NEW r \in Runs,
           Stop(r) \/ Finish(r) \/ \E f \in Findings : ObserveRead(r, f)
    PROVE  FindingsInv'
  <1>1. /\ UNCHANGED <<rowVars, runVars, todo, listed, decisions, reobserved, decided, overlapped>>
        /\ pc[r] # "idle" /\ pc' \in [Runs -> Steps] /\ pc'[r] # "idle"
        /\ \A q \in Runs \ {r} : pc'[q] = pc[q]
    BY DEF Stop, Finish, ObserveRead, Goto, InProgress, Steps, FindingsInv, FindingsTypeOK
  <1>2. /\ current' \in [Runs -> Findings \union {NoFinding}]
        /\ held' \in [Runs -> FindingStatuses]
    BY DEF Stop, Finish, ObserveRead, FindingsInv, FindingsTypeOK
  <1>3. FindingsTypeOK' /\ ColumnsAgreeWithStatus'
    BY <1>1, <1>2 DEF rowVars, runVars, FindingsInv, FindingsTypeOK, ColumnsAgreeWithStatus
  <1>4. StartsAreDistinct'
    BY <1>1, StartsUntouched DEF runVars
  <1>5. WorkIsOfKey'
    <2>1. \A q \in Runs : pc'[q] \in {"writing", "refreshing"} => current'[q] \in todo[q]
      BY DEF Stop, Finish, ObserveRead, Goto, FindingsInv, FindingsTypeOK, WorkIsOfKey
    <2>2. QED
      BY <1>1, <2>1 DEF FindingsInv, WorkIsOfKey, OfKey
  <1>6. StampsAreOnce'
    BY <1>1 DEF rowVars, runVars, FindingsInv, StampsAreOnce
  <1>7. QED
    BY <1>3, <1>4, <1>5, <1>6 DEF FindingsInv

\* The run stamps its current finding and is done with it.
LEMMA StampPreserves ==
    ASSUME FindingsInv, NEW r \in Runs, pc[r] \in {"writing", "refreshing"},
           StampObservation(r, current[r]), CandidateDone(r),
           fstatus' \in [Findings -> FindingStatuses],
           resolvedAt' \in [Findings -> BOOLEAN], note' \in [Findings -> BOOLEAN],
           ColumnsAgreeWithStatus',
           UNCHANGED <<runVars, listed, decisions, decided, overlapped>>
    PROVE  FindingsInv'
  <1> DEFINE f == current[r]
  <1>1. f \in todo[r] /\ f \in Findings /\ startedAt[r] \in Times
    BY DEF FindingsInv, FindingsTypeOK, WorkIsOfKey
  <1>2. /\ seenAt' = [seenAt EXCEPT ![f] = startedAt[r]] /\ seenBy' = [seenBy EXCEPT ![f] = r]
        /\ reobserved' = [q \in Runs |-> IF q # r THEN reobserved[q] \union {f} ELSE reobserved[q]]
        /\ todo' = [todo EXCEPT ![r] = @ \ {f}]
        /\ current' = [current EXCEPT ![r] = NoFinding] /\ held' = [held EXCEPT ![r] = "absent"]
    BY DEF StampObservation, CandidateDone
  <1>3. /\ pc' \in [Runs -> Steps] /\ pc'[r] \in {"listing", "recording"}
        /\ \A q \in Runs \ {r} : pc'[q] = pc[q]
    BY DEF CandidateDone, Goto, Steps, FindingsInv, FindingsTypeOK
  <1> HIDE DEF f
  <1>4. FindingsTypeOK'
    <2>1. /\ seenAt' \in [Findings -> Times] /\ seenBy' \in [Findings -> Runs \union {NoRun}]
          /\ current' \in [Runs -> Findings \union {NoFinding}]
      BY <1>1, <1>2 DEF FindingsInv, FindingsTypeOK
    <2>2. held' \in [Runs -> FindingStatuses]
      BY <1>2 DEF FindingsInv, FindingsTypeOK, FindingStatuses
    <2>3. reobserved' \in [Runs -> SUBSET Findings] /\ todo' \in [Runs -> SUBSET Findings]
      <3>1. \A q \in Runs : /\ reobserved[q] \in SUBSET Findings
                            /\ reobserved[q] \union {f} \in SUBSET Findings
                            /\ todo[q] \ {f} \in SUBSET Findings
        BY <1>1 DEF FindingsInv, FindingsTypeOK
      <3>2. QED
        BY <1>2, <3>1 DEF FindingsInv, FindingsTypeOK
    <2>4. QED
      BY <1>3, <2>1, <2>2, <2>3 DEF runVars, FindingsInv, FindingsTypeOK
  <1>5. StartsAreDistinct'
    BY <1>3, StartsUntouched DEF runVars
  <1>6. /\ \A q \in Runs : todo'[q] = IF q = r THEN todo[q] \ {f} ELSE todo[q]
        /\ \A g \in Findings : seenAt'[g] = IF g = f THEN startedAt[r] ELSE seenAt[g]
        /\ \A q \in Runs \ {r} : current'[q] = current[q]
        /\ listed' = listed /\ startedAt' = startedAt /\ clock' = clock
    BY <1>2 DEF runVars, FindingsInv, FindingsTypeOK
  <1>7. WorkIsOfKey'
    BY <1>3, <1>6 DEF FindingsInv, WorkIsOfKey, OfKey
  <1>8. StampsAreOnce'
    <2>1. \A g \in Findings : seenAt'[g] <= clock
      BY <1>6 DEF FindingsInv, StartsAreDistinct, StampsAreOnce
    <2>2. \A q \in Runs, g \in Findings : g \in todo'[q] => seenAt'[g] # startedAt[q]
      <3> SUFFICES ASSUME NEW q \in Runs, NEW g \in Findings, g \in todo'[q]
                   PROVE  seenAt'[g] # startedAt[q]
        OBVIOUS
      <3>1. g \in todo[q] /\ ~(q = r /\ g = f)
        BY <1>6
      <3>2. seenAt[g] # startedAt[q]
        BY <3>1 DEF FindingsInv, StampsAreOnce
      <3>3. CASE g = f
        <4>1. q # r /\ pc[r] # "idle"
          BY <3>1, <3>3
        <4>2. startedAt[r] # startedAt[q]
          BY <4>1 DEF FindingsInv, StartsAreDistinct
        <4>3. QED
          BY <1>6, <3>3, <4>2
      <3>4. CASE g # f
        BY <1>6, <3>2, <3>4
      <3>5. QED
        BY <3>3, <3>4
    <2>3. \A q, p \in Runs, g \in Findings, at \in Times :
              <<g, at>> \in listed[p] /\ g \in todo'[q] => at # startedAt[q]
      <3>1. \A q \in Runs, g \in Findings : g \in todo'[q] => g \in todo[q]
        BY <1>6
      <3>2. \A q, p \in Runs, g \in Findings, at \in Times :
                <<g, at>> \in listed[p] /\ g \in todo[q] => at # startedAt[q]
        BY DEF FindingsInv, StampsAreOnce
      <3>3. QED
        BY <3>1, <3>2
    <2>4. \A p \in Runs, g \in Findings, at \in Times :
              <<g, at>> \in listed[p] /\ g \in reobserved'[p] => seenAt'[g] # at
      BY <1>1, <1>2, <1>6 DEF FindingsInv, StampsAreOnce
    <2>5. QED
      BY <1>6, <2>1, <2>2, <2>3, <2>4 DEF FindingsInv, StampsAreOnce
  <1>9. QED
    BY <1>4, <1>5, <1>7, <1>8 DEF FindingsInv

\* A compare-and-set that missed: the run reads again or refreshes.
LEMMA RetryPreserves ==
    ASSUME FindingsInv, NEW r \in Runs, pc[r] = "writing",
           pc' \in [Runs -> Steps], pc'[r] \in {"writing", "refreshing"},
           \A q \in Runs \ {r} : pc'[q] = pc[q], held' \in [Runs -> FindingStatuses],
           UNCHANGED <<rowVars, runVars, todo, current, reobserved, listed, decisions, decided,
                       overlapped>>
    PROVE  FindingsInv'
  <1>1. FindingsTypeOK' /\ ColumnsAgreeWithStatus'
    BY DEF rowVars, runVars, FindingsInv, FindingsTypeOK, ColumnsAgreeWithStatus
  <1>2. StartsAreDistinct'
    BY StartsUntouched DEF runVars
  <1>3. WorkIsOfKey'
    BY DEF FindingsInv, WorkIsOfKey, OfKey
  <1>4. StampsAreOnce'
    BY DEF rowVars, runVars, FindingsInv, StampsAreOnce
  <1>5. QED
    BY <1>1, <1>2, <1>3, <1>4 DEF FindingsInv

LEMMA ObservationPreserves ==
    ASSUME FindingsInv, NEW r \in Runs,
           CreateFinding(r) \/ UpdateFinding(r) \/ RefreshObservation(r)
    PROVE  FindingsInv'
  <1> DEFINE f == current[r]
  <1>1. f \in Findings /\ fstatus[f] \in FindingStatuses
    BY DEF CreateFinding, UpdateFinding, RefreshObservation, FindingsInv, FindingsTypeOK, WorkIsOfKey
  <1>2. CASE CreateFinding(r) /\ Exists(f)
    <2>1. held' \in [Runs -> FindingStatuses] /\ pc' = pc
      BY <1>1, <1>2 DEF CreateFinding, FindingsInv, FindingsTypeOK
    <2>2. QED
      BY <1>2, <2>1, RetryPreserves DEF CreateFinding, FindingsInv, FindingsTypeOK
  <1>3. CASE CreateFinding(r) /\ ~Exists(f)
    <2>1. fstatus' = [fstatus EXCEPT ![f] = "OPEN"] /\ UNCHANGED <<resolvedAt, note>>
      BY <1>3 DEF CreateFinding
    <2>2. fstatus' \in [Findings -> FindingStatuses] /\ fstatus[f] = "absent"
      BY <1>1, <1>3, <2>1 DEF Exists, FindingsInv, FindingsTypeOK, FindingStatuses
    <2>3. ColumnsAgreeWithStatus'
      BY <1>1, <2>1, <2>2 DEF FindingsInv, FindingsTypeOK, ColumnsAgreeWithStatus
    <2>4. QED
      BY <1>3, <2>1, <2>2, <2>3, StampPreserves DEF CreateFinding, FindingsInv, FindingsTypeOK
  <1>4. CASE UpdateFinding(r) /\ ~StatusMatches(r)
    <2>1. /\ pc' \in [Runs -> Steps] /\ pc'[r] = "refreshing"
          /\ \A q \in Runs \ {r} : pc'[q] = pc[q]
      BY <1>4 DEF UpdateFinding, Goto, Steps, FindingsInv, FindingsTypeOK
    <2>2. QED
      BY <1>4, <2>1, RetryPreserves DEF UpdateFinding, FindingsInv, FindingsTypeOK
  <1>5. CASE UpdateFinding(r) /\ StatusMatches(r)
    <2>1. CASE held[r] = "RESOLVED"
      <3>1. /\ fstatus' = [fstatus EXCEPT ![f] = "OPEN"]
            /\ resolvedAt' = [resolvedAt EXCEPT ![f] = FALSE] /\ note' = [note EXCEPT ![f] = FALSE]
        BY <1>5, <2>1 DEF UpdateFinding
      <3>2. /\ fstatus' \in [Findings -> FindingStatuses]
            /\ resolvedAt' \in [Findings -> BOOLEAN] /\ note' \in [Findings -> BOOLEAN]
        BY <3>1 DEF FindingsInv, FindingsTypeOK, FindingStatuses
      <3>3. ColumnsAgreeWithStatus'
        BY <1>1, <3>1 DEF FindingsInv, FindingsTypeOK, ColumnsAgreeWithStatus
      <3>4. QED
        BY <1>5, <3>2, <3>3, StampPreserves DEF UpdateFinding
    <2>2. CASE held[r] # "RESOLVED"
      <3>1. UNCHANGED <<fstatus, resolvedAt, note>>
        BY <1>5, <2>2 DEF UpdateFinding
      <3>2. ColumnsAgreeWithStatus'
        BY <3>1 DEF FindingsInv, ColumnsAgreeWithStatus
      <3>3. QED
        BY <1>5, <3>1, <3>2, StampPreserves DEF UpdateFinding, FindingsInv, FindingsTypeOK
    <2>3. QED
      BY <2>1, <2>2
  <1>6. CASE RefreshObservation(r)
    <2>1. ColumnsAgreeWithStatus'
      BY <1>6 DEF RefreshObservation, FindingsInv, ColumnsAgreeWithStatus
    <2>2. QED
      BY <1>6, <2>1, StampPreserves DEF RefreshObservation, FindingsInv, FindingsTypeOK
  <1>7. QED
    BY <1>2, <1>3, <1>4, <1>5, <1>6

-----------------------------------------------------------------------------
LEMMA ListPreserves ==
    ASSUME FindingsInv, NEW r \in Runs, ListAbsent(r)
    PROVE  FindingsInv'
  <1> DEFINE found == {<<f, seenAt[f]>> : f \in Absent(r)}
  <1>1. found \in SUBSET (Findings \X Times)
        /\ \A f \in Findings, at \in Times :
              <<f, at>> \in found => KeyOf[f] = KeyOf[r] /\ at = seenAt[f]
    BY DEF Absent, OfKey, FindingsInv, FindingsTypeOK
  <1>2. /\ listed' = [listed EXCEPT ![r] = found] /\ reobserved' = [reobserved EXCEPT ![r] = {}]
        /\ pc[r] = "listing" /\ pc' = [pc EXCEPT ![r] = "resolving"]
        /\ UNCHANGED <<rowVars, runVars, todo, current, held, decisions, decided, overlapped>>
    BY DEF ListAbsent, Goto
  <1> HIDE DEF found
  <1>3. /\ pc' \in [Runs -> Steps] /\ pc'[r] = "resolving"
        /\ \A q \in Runs \ {r} : pc'[q] = pc[q]
    BY <1>2 DEF FindingsInv, FindingsTypeOK, Steps
  <1>4. /\ \A q \in Runs : listed'[q] = IF q = r THEN found ELSE listed[q]
        /\ \A q \in Runs : reobserved'[q] = IF q = r THEN {} ELSE reobserved[q]
    BY <1>2 DEF FindingsInv, FindingsTypeOK
  <1>5. FindingsTypeOK' /\ ColumnsAgreeWithStatus'
    <2>1. listed' \in [Runs -> SUBSET (Findings \X Times)] /\ reobserved' \in [Runs -> SUBSET Findings]
      BY <1>1, <1>2 DEF FindingsInv, FindingsTypeOK
    <2>2. QED
      BY <1>2, <1>3, <2>1 DEF rowVars, runVars, FindingsInv, FindingsTypeOK, ColumnsAgreeWithStatus
  <1>6. StartsAreDistinct'
    BY <1>2, <1>3, StartsUntouched DEF runVars
  <1>7. WorkIsOfKey'
    BY <1>1, <1>2, <1>3, <1>4 DEF FindingsInv, WorkIsOfKey, OfKey
  <1>8. StampsAreOnce'
    BY <1>1, <1>2, <1>4 DEF rowVars, runVars, FindingsInv, StampsAreOnce
  <1>9. QED
    BY <1>5, <1>6, <1>7, <1>8 DEF FindingsInv

LEMMA ResolvePreserves ==
    ASSUME FindingsInv, NEW r \in Runs, NEW f \in Findings, NEW at \in Times,
           ResolveAbsent(r, f, at)
    PROVE  FindingsInv'
  <1>1. /\ listed' = [listed EXCEPT ![r] = @ \ {<<f, at>>}]
        /\ UNCHANGED <<seenAt, seenBy, note, runVars, pc, todo, current, held,
                       decisions, reobserved, decided, overlapped>>
    BY DEF ResolveAbsent
  <1>2. \A q \in Runs : listed'[q] \in SUBSET listed[q]
    BY <1>1 DEF FindingsInv, FindingsTypeOK
  <1>3. listed' \in [Runs -> SUBSET (Findings \X Times)]
    <2>1. listed[r] \ {<<f, at>>} \in SUBSET (Findings \X Times)
      BY DEF FindingsInv, FindingsTypeOK
    <2>2. QED
      BY <1>1, <2>1 DEF FindingsInv, FindingsTypeOK
  <1>4. /\ fstatus' \in [Findings -> FindingStatuses] /\ resolvedAt' \in [Findings -> BOOLEAN]
        /\ ColumnsAgreeWithStatus'
    <2>1. CASE StillAbsent(f, at)
      <3>1. /\ fstatus' = [fstatus EXCEPT ![f] = "RESOLVED"]
            /\ resolvedAt' = [resolvedAt EXCEPT ![f] = TRUE] /\ fstatus[f] = "OPEN"
        BY <2>1 DEF ResolveAbsent, StillAbsent
      <3>2. fstatus' \in [Findings -> FindingStatuses]
        BY <3>1 DEF FindingsInv, FindingsTypeOK, FindingStatuses
      <3>3. resolvedAt' \in [Findings -> BOOLEAN]
        BY <3>1 DEF FindingsInv, FindingsTypeOK
      <3>4. ColumnsAgreeWithStatus'
        BY <1>1, <3>1 DEF FindingsInv, FindingsTypeOK, ColumnsAgreeWithStatus
      <3>5. QED
        BY <3>2, <3>3, <3>4
    <2>2. CASE ~StillAbsent(f, at)
      <3>1. UNCHANGED <<fstatus, resolvedAt, note>>
        BY <1>1, <2>2 DEF ResolveAbsent
      <3>2. QED
        BY <3>1 DEF FindingsInv, FindingsTypeOK, ColumnsAgreeWithStatus
    <2>3. QED
      BY <2>1, <2>2
  <1>5. FindingsTypeOK'
    BY <1>1, <1>3, <1>4 DEF runVars, FindingsInv, FindingsTypeOK
  <1>6. StartsAreDistinct'
    BY <1>1 DEF runVars, FindingsInv, StartsAreDistinct, Begun
  <1>7. WorkIsOfKey' /\ StampsAreOnce'
    BY <1>1, <1>2 DEF runVars, FindingsInv, WorkIsOfKey, OfKey, StampsAreOnce
  <1>8. QED
    BY <1>4, <1>5, <1>6, <1>7 DEF FindingsInv

LEMMA HumanPreserves ==
    ASSUME FindingsInv, NEW f \in Findings, SuppressFinding(f) \/ ReopenFinding(f)
    PROVE  FindingsInv'
  <1>1. /\ fstatus' \in [Findings -> FindingStatuses] /\ resolvedAt' \in [Findings -> BOOLEAN]
        /\ note' \in [Findings -> BOOLEAN]
    BY DEF SuppressFinding, ReopenFinding, FindingsInv, FindingsTypeOK, FindingStatuses
  <1>2. ColumnsAgreeWithStatus'
    BY DEF SuppressFinding, ReopenFinding, FindingsInv, FindingsTypeOK, ColumnsAgreeWithStatus
  <1>3. /\ decided' \in SUBSET Findings /\ decisions' \in 0 .. MaxDecisions
        /\ UNCHANGED <<seenAt, seenBy, runVars, execVars, reobserved, overlapped>>
    BY DecisionsAssumption
    DEF SuppressFinding, ReopenFinding, Decide, FindingsInv, FindingsTypeOK
  <1>4. FindingsTypeOK'
    BY <1>1, <1>3 DEF runVars, execVars, FindingsInv, FindingsTypeOK
  <1>5. StartsAreDistinct'
    BY <1>3 DEF runVars, execVars, FindingsInv, StartsAreDistinct, Begun
  <1>6. WorkIsOfKey' /\ StampsAreOnce'
    BY <1>3 DEF runVars, execVars, FindingsInv, WorkIsOfKey, OfKey, StampsAreOnce
  <1>7. QED
    BY <1>2, <1>4, <1>5, <1>6 DEF FindingsInv

LEMMA StepPreserves == FindingsInv /\ [Next]_vars => FindingsInv'
  <1> SUFFICES ASSUME FindingsInv, [Next]_vars PROVE FindingsInv'
    OBVIOUS
  <1>1. ASSUME NEW r \in Runs, RunStep(r) PROVE FindingsInv'
    BY <1>1, BeginPreserves, QuietStepPreserves, ObservationPreserves, ListPreserves,
       ResolvePreserves DEF RunStep
  <1>2. ASSUME NEW f \in Findings, SuppressFinding(f) \/ ReopenFinding(f) PROVE FindingsInv'
    BY <1>2, HumanPreserves
  <1>3. CASE UNCHANGED vars
    BY <1>3 DEF vars, rowVars, runVars, execVars, FindingsInv, FindingsTypeOK,
                ColumnsAgreeWithStatus, StartsAreDistinct, Begun, WorkIsOfKey, OfKey, StampsAreOnce
  <1>4. QED
    BY <1>1, <1>2, <1>3 DEF Next

-----------------------------------------------------------------------------
LEMMA FindingsInvariant == Spec => []FindingsInv
  BY InitEstablishes, StepPreserves, PTL DEF Spec

\* Every row and every local of a run keeps its type.
THEOREM FindingsAreTyped == Spec => []FindingsTypeOK
  <1>1. FindingsInv => FindingsTypeOK
    BY DEF FindingsInv
  <1>2. QED
    BY <1>1, FindingsInvariant, PTL

\* resolvedAt and the suppression columns agree with the status of the row
\* whatever compare-and-sets of runs and decisions of humans interleave.
THEOREM ColumnsFollowStatus == Spec => []ColumnsAgreeWithStatus
  <1>1. FindingsInv => ColumnsAgreeWithStatus
    BY DEF FindingsInv
  <1>2. QED
    BY <1>1, FindingsInvariant, PTL

\* What shrinks a listing is a resolution from it, and a status leaves
\* SUPPRESSED under recordFindings only by a compare-and-set that saw RESOLVED.
LEMMA ResolutionsComeFromListings ==
    ASSUME FindingsInv, Next, NEW r \in Runs, NEW f \in Findings, Resolves(r, f)
    PROVE  pc[r] = "resolving" /\ \E at \in Times : <<f, at>> \in listed[r] /\ seenAt[f] = at
  <1>1. PICK q \in Runs, g \in Findings, at \in Times : ResolveAbsent(q, g, at)
    <2>1. ASSUME NEW q \in Runs, \E cs \in SUBSET OfKey(KeyOf[q]) : Begin(q, cs) PROVE FALSE
      BY <2>1 DEF Begin, rowVars, Resolves
    <2>2. ASSUME NEW q \in Runs,
                 Stop(q) \/ Finish(q) \/ ListAbsent(q) \/ \E g \in Findings : ObserveRead(q, g)
          PROVE  FALSE
      BY <2>2 DEF Stop, Finish, ListAbsent, ObserveRead, rowVars, Resolves
    <2>3. ASSUME NEW q \in Runs, CreateFinding(q) \/ UpdateFinding(q) \/ RefreshObservation(q)
          PROVE  FALSE
      BY <2>3 DEF CreateFinding, UpdateFinding, RefreshObservation, rowVars, Resolves
    <2>4. ASSUME NEW g \in Findings, SuppressFinding(g) \/ ReopenFinding(g) PROVE FALSE
      BY <2>4 DEF SuppressFinding, ReopenFinding, Decide, execVars, Resolves
    <2>5. QED
      BY <2>1, <2>2, <2>3, <2>4 DEF Next, RunStep
  <1>2. q = r /\ pc[r] = "resolving" /\ <<g, at>> \in listed[q]
    BY <1>1 DEF ResolveAbsent, Resolves, FindingsInv, FindingsTypeOK
  <1>3. g = f /\ StillAbsent(g, at)
    BY <1>1 DEF ResolveAbsent, Resolves, FindingsInv, FindingsTypeOK
  <1>4. QED
    BY <1>2, <1>3 DEF StillAbsent

\* resolveAbsentFindings closes findings of the run's own evaluationKey only.
THEOREM ResolutionsStayInTheKey == Spec => KeysAreIsolated
  <1>1. FindingsInv /\ [Next]_vars
          => [\A r \in Runs, f \in Findings : Resolves(r, f) => KeyOf[f] = KeyOf[r]]_vars
    <2> SUFFICES ASSUME FindingsInv, [Next]_vars, vars' # vars,
                        NEW r \in Runs, NEW f \in Findings, Resolves(r, f)
                 PROVE  KeyOf[f] = KeyOf[r]
      OBVIOUS
    <2>1. Next
      OBVIOUS
    <2>2. QED
      BY <2>1, ResolutionsComeFromListings DEF FindingsInv, WorkIsOfKey
  <1>2. QED
    BY <1>1, FindingsInvariant, PTL DEF Spec, KeysAreIsolated

\* A finding that another run observed after the listing is never closed from
\* that listing: its lastSeenAt differs from the listed one.
THEOREM ReobservedStaysOpen == Spec => ReobservationWins
  <1>1. FindingsInv /\ [Next]_vars
          => [\A r \in Runs, f \in Findings : Resolves(r, f) => f \notin reobserved[r]]_vars
    <2> SUFFICES ASSUME FindingsInv, [Next]_vars, vars' # vars,
                        NEW r \in Runs, NEW f \in Findings, Resolves(r, f)
                 PROVE  f \notin reobserved[r]
      OBVIOUS
    <2>1. Next
      OBVIOUS
    <2>2. PICK at \in Times : <<f, at>> \in listed[r] /\ seenAt[f] = at
      BY <2>1, ResolutionsComeFromListings
    <2>3. QED
      BY <2>2 DEF FindingsInv, StampsAreOnce
  <1>2. QED
    BY <1>1, FindingsInvariant, PTL DEF Spec, ReobservationWins

\* Only a human decision takes a finding out of SUPPRESSED, also when a run
\* read the finding before it was suppressed.
THEOREM SuppressionsAreLiftedByHumans == Spec => SuppressionIsHuman
  <1>1. FindingsInv /\ [Next]_vars
          => [\A f \in Findings : fstatus[f] = "SUPPRESSED" /\ fstatus'[f] # "SUPPRESSED"
                                      => decisions' = decisions + 1]_vars
    <2> SUFFICES ASSUME FindingsInv, [Next]_vars, vars' # vars, NEW f \in Findings,
                        fstatus[f] = "SUPPRESSED", fstatus'[f] # "SUPPRESSED"
                 PROVE  decisions' = decisions + 1
      OBVIOUS
    <2>1. ASSUME NEW r \in Runs, RunStep(r) PROVE FALSE
      <3>1. ASSUME \/ \E cs \in SUBSET OfKey(KeyOf[r]) : Begin(r, cs)
                   \/ Stop(r) \/ Finish(r) \/ ListAbsent(r)
                   \/ \E g \in Findings : ObserveRead(r, g)
            PROVE  FALSE
        BY <3>1 DEF Begin, Stop, Finish, ListAbsent, ObserveRead, rowVars
      <3>2. ASSUME CreateFinding(r) PROVE FALSE
        BY <3>2 DEF CreateFinding, Exists, rowVars, FindingsInv, FindingsTypeOK
      <3>3. ASSUME UpdateFinding(r) \/ RefreshObservation(r) PROVE FALSE
        BY <3>3 DEF UpdateFinding, RefreshObservation, StatusMatches, rowVars,
                    FindingsInv, FindingsTypeOK
      <3>4. ASSUME NEW g \in Findings, NEW at \in Times, ResolveAbsent(r, g, at) PROVE FALSE
        BY <3>4 DEF ResolveAbsent, StillAbsent, FindingsInv, FindingsTypeOK
      <3>5. QED
        BY <2>1, <3>1, <3>2, <3>3, <3>4 DEF RunStep
    <2>2. ASSUME NEW g \in Findings, SuppressFinding(g) \/ ReopenFinding(g)
          PROVE  decisions' = decisions + 1
      BY <2>2 DEF SuppressFinding, ReopenFinding, Decide
    <2>3. QED
      BY <2>1, <2>2 DEF Next, vars
  <1>2. QED
    BY <1>1, FindingsInvariant, PTL DEF Spec, SuppressionIsHuman

-----------------------------------------------------------------------------
(* What a run has decided so far, as long as it is the latest of a key     *)
(* whose runs have not overlapped.                                         *)

\* The run in progress is the latest of its key.
OneAtATime ==
    \A q, p \in Runs :
        InProgress(q) /\ KeyOf[q] \notin overlapped /\ KeyOf[p] = KeyOf[q]
            => startedAt[p] <= startedAt[q]

IdleUnseen == \A r \in Runs, f \in Findings : pc[r] = "idle" => seenBy[f] # r

Deciding(r) ==
    pc[r] \notin {"idle", "stopped"} /\ Latest(r) /\ KeyOf[r] \notin overlapped

\* A finding the run does not report: older than the run, and listed when it
\* is still open after resolveAbsentFindings has read the rows.
UnseenPart(r, f) ==
    f \notin seen[r] =>
        /\ seenAt[f] < startedAt[r] /\ seenBy[f] # r
        /\ pc[r] \in {"resolving", "done"} /\ f \notin decided /\ fstatus[f] = "OPEN"
               => <<f, seenAt[f]>> \in listed[r]

\* A finding the run has recorded: stamped with its start, open or suppressed,
\* and in no listing of it.
RecordedPart(r, f) ==
    f \in seen[r] \ todo[r] =>
        /\ seenAt[f] = startedAt[r]
        /\ f \notin decided => fstatus[f] \in {"OPEN", "SUPPRESSED"}
        /\ pc[r] = "resolving" => \A at \in Times : <<f, at>> \notin listed[r]

\* The finding it is recording: what was read holds unless a human decided.
CurrentPart(r, f) ==
    f = current[r] /\ f \notin decided =>
        /\ pc[r] # "refreshing"
        /\ pc[r] = "writing" => held[r] = fstatus[f]

VerdictOf(r) ==
    /\ todo[r] \subseteq seen[r]
    /\ pc[r] \in {"listing", "resolving", "done"} => todo[r] = {}
    /\ pc[r] = "done" => listed[r] = {}
    /\ \A f \in OfKey(KeyOf[r]) : UnseenPart(r, f) /\ RecordedPart(r, f) /\ CurrentPart(r, f)

VerdictInv ==
    /\ FindingsInv /\ OneAtATime /\ IdleUnseen
    /\ \A r \in Runs : Deciding(r) => VerdictOf(r)

-----------------------------------------------------------------------------
\* What a statement of one run leaves alone: the other runs, and the rows and
\* decisions of the other keys.
StepFrame(q) ==
    /\ \A p \in Runs \ {q} :
           /\ pc'[p] = pc[p] /\ startedAt'[p] = startedAt[p] /\ seen'[p] = seen[p]
           /\ todo'[p] = todo[p] /\ current'[p] = current[p]
           /\ held'[p] = held[p] /\ listed'[p] = listed[p]
    /\ \A f \in Findings : KeyOf[f] # KeyOf[q] =>
           /\ fstatus'[f] = fstatus[f] /\ seenAt'[f] = seenAt[f] /\ seenBy'[f] = seenBy[f]
           /\ f \in decided' <=> f \in decided
    /\ \A f \in Findings : seenBy'[f] = seenBy[f] \/ (seenBy'[f] = q /\ pc[q] # "idle")
    /\ pc'[q] # "idle"

LEMMA BeginFrame ==
    ASSUME FindingsInv, NEW q \in Runs, NEW cs \in SUBSET OfKey(KeyOf[q]), Begin(q, cs)
    PROVE  StepFrame(q)
  <1>1. \A p \in Runs \ {q} : /\ pc'[p] = pc[p] /\ startedAt'[p] = startedAt[p]
                             /\ seen'[p] = seen[p] /\ todo'[p] = todo[p]
    BY DEF Begin, Goto, FindingsInv, FindingsTypeOK
  <1>2. UNCHANGED <<fstatus, seenAt, seenBy, current, held, listed>> /\ pc'[q] # "idle"
    BY DEF Begin, Goto, rowVars, FindingsInv, FindingsTypeOK
  <1>3. \A f \in Findings : KeyOf[f] # KeyOf[q] => (f \in decided' <=> f \in decided)
    BY DEF Begin, OfKey
  <1>4. QED
    BY <1>1, <1>2, <1>3 DEF StepFrame

LEMMA QuietFrame ==
    ASSUME FindingsInv, NEW q \in Runs,
           Stop(q) \/ Finish(q) \/ ListAbsent(q) \/ \E f \in Findings : ObserveRead(q, f)
    PROVE  StepFrame(q) /\ InProgress(q) /\ UNCHANGED <<startedAt, seen, overlapped, decided>>
  <1>1. UNCHANGED <<fstatus, seenAt, seenBy, startedAt, seen, todo, overlapped, decided>>
    BY DEF Stop, Finish, ListAbsent, ObserveRead, rowVars, runVars
  <1>2. \A p \in Runs \ {q} : pc'[p] = pc[p] /\ listed'[p] = listed[p]
    BY DEF Stop, Finish, ListAbsent, ObserveRead, Goto, FindingsInv, FindingsTypeOK
  <1>3. \A p \in Runs \ {q} : current'[p] = current[p] /\ held'[p] = held[p]
    BY DEF Stop, Finish, ListAbsent, ObserveRead, FindingsInv, FindingsTypeOK
  <1>4. pc'[q] # "idle" /\ InProgress(q)
    BY DEF Stop, Finish, ListAbsent, ObserveRead, Goto, InProgress, FindingsInv, FindingsTypeOK
  <1>5. QED
    BY <1>1, <1>2, <1>3, <1>4 DEF StepFrame

\* The row a recording run writes is its current one.
LEMMA ObservationFrame ==
    ASSUME FindingsInv, NEW q \in Runs,
           CreateFinding(q) \/ UpdateFinding(q) \/ RefreshObservation(q)
    PROVE  StepFrame(q) /\ InProgress(q) /\ UNCHANGED <<startedAt, seen, overlapped, decided>>
  <1>1. UNCHANGED <<startedAt, seen, listed, overlapped, decided>> /\ InProgress(q)
    BY DEF CreateFinding, UpdateFinding, RefreshObservation, runVars, InProgress
  <1>2. current[q] \in todo[q] /\ KeyOf[current[q]] = KeyOf[q]
    BY DEF CreateFinding, UpdateFinding, RefreshObservation, FindingsInv, WorkIsOfKey, OfKey
  <1>3. \A f \in Findings : f # current[q] =>
            fstatus'[f] = fstatus[f] /\ seenAt'[f] = seenAt[f] /\ seenBy'[f] = seenBy[f]
    BY DEF CreateFinding, UpdateFinding, RefreshObservation, StampObservation, rowVars,
           FindingsInv, FindingsTypeOK
  <1>4. \A f \in Findings : seenBy'[f] = seenBy[f] \/ seenBy'[f] = q
    BY DEF CreateFinding, UpdateFinding, RefreshObservation, StampObservation, rowVars,
           FindingsInv, FindingsTypeOK
  <1>5. \A p \in Runs \ {q} : pc'[p] = pc[p] /\ todo'[p] = todo[p]
    BY DEF CreateFinding, UpdateFinding, RefreshObservation, CandidateDone, Goto,
           FindingsInv, FindingsTypeOK
  <1>6. \A p \in Runs \ {q} : current'[p] = current[p] /\ held'[p] = held[p]
    BY DEF CreateFinding, UpdateFinding, RefreshObservation, CandidateDone,
           FindingsInv, FindingsTypeOK
  <1>7. pc'[q] # "idle"
    BY DEF CreateFinding, UpdateFinding, RefreshObservation, CandidateDone, Goto,
           FindingsInv, FindingsTypeOK
  <1>8. \A f \in Findings : KeyOf[f] # KeyOf[q] => f # current[q]
    BY <1>2
  <1>9. QED
    BY <1>1, <1>3, <1>4, <1>5, <1>6, <1>7, <1>8 DEF StepFrame, InProgress

LEMMA ResolveFrame ==
    ASSUME FindingsInv, NEW q \in Runs, NEW f \in Findings, NEW at \in Times,
           ResolveAbsent(q, f, at)
    PROVE  StepFrame(q) /\ InProgress(q) /\ UNCHANGED <<startedAt, seen, overlapped, decided>>
  <1>1. UNCHANGED <<seenAt, seenBy, pc, startedAt, seen, todo, current, held, overlapped, decided>>
    BY DEF ResolveAbsent, runVars
  <1>2. KeyOf[f] = KeyOf[q]
    BY DEF ResolveAbsent, FindingsInv, WorkIsOfKey
  <1>3. \A g \in Findings \ {f} : fstatus'[g] = fstatus[g]
    BY DEF ResolveAbsent, FindingsInv, FindingsTypeOK
  <1>4. \A p \in Runs \ {q} : listed'[p] = listed[p]
    BY DEF ResolveAbsent, FindingsInv, FindingsTypeOK
  <1>5. InProgress(q) /\ pc[q] # "idle"
    BY DEF ResolveAbsent, InProgress
  <1>6. QED
    BY <1>1, <1>2, <1>3, <1>4, <1>5 DEF StepFrame

\* The statements of a run that has begun.
Works(q) == RunStep(q) /\ ~\E cs \in SUBSET OfKey(KeyOf[q]) : Begin(q, cs)

LEMMA WorkFrame ==
    ASSUME FindingsInv, NEW q \in Runs, Works(q)
    PROVE  StepFrame(q) /\ InProgress(q) /\ UNCHANGED <<startedAt, seen, overlapped, decided>>
  <1>1. CASE Stop(q) \/ Finish(q) \/ ListAbsent(q) \/ \E f \in Findings : ObserveRead(q, f)
    BY <1>1, QuietFrame
  <1>2. CASE CreateFinding(q) \/ UpdateFinding(q) \/ RefreshObservation(q)
    BY <1>2, ObservationFrame
  <1>3. CASE \E f \in Findings, at \in Times : ResolveAbsent(q, f, at)
    BY <1>3, ResolveFrame
  <1>4. QED
    BY <1>1, <1>2, <1>3 DEF Works, RunStep

-----------------------------------------------------------------------------
LEMMA OneAtATimeKept ==
    ASSUME VerdictInv, NEW r \in Runs, RunStep(r)
    PROVE  OneAtATime'
  <1> SUFFICES ASSUME NEW q \in Runs, NEW p \in Runs, InProgress(q)', KeyOf[q] \notin overlapped',
                      KeyOf[p] = KeyOf[q]
               PROVE  startedAt'[p] <= startedAt'[q]
    BY DEF OneAtATime
  <1>0. FindingsInv
    BY DEF VerdictInv
  <1>1. CASE Works(r)
    <2>1. StepFrame(r) /\ InProgress(r) /\ UNCHANGED <<startedAt, overlapped>>
      BY <1>0, <1>1, WorkFrame
    <2>2. InProgress(q)
      BY <2>1 DEF StepFrame, InProgress
    <2>3. QED
      BY <2>1, <2>2 DEF VerdictInv, OneAtATime
  <1>2. ASSUME NEW cs \in SUBSET OfKey(KeyOf[r]), Begin(r, cs) PROVE startedAt'[p] <= startedAt'[q]
    <2>1. StepFrame(r)
      BY <1>0, <1>2, BeginFrame
    <2>2. startedAt'[r] = clock + 1 /\ clock \in Nat
      BY <1>0, <1>2, ClockIsBounded DEF Begin, FindingsInv, FindingsTypeOK, Times
    <2>3. \A s \in Runs : startedAt[s] <= clock /\ startedAt[s] \in Nat
      BY <1>0 DEF FindingsInv, FindingsTypeOK, StartsAreDistinct, Times
    <2>4. CASE q = r
      BY <2>1, <2>2, <2>3, <2>4 DEF StepFrame
    <2>5. CASE q # r
      <3>1. InProgress(q)
        BY <2>1, <2>5 DEF StepFrame, InProgress
      <3>2. KeyOf[q] # KeyOf[r] /\ KeyOf[q] \notin overlapped
        BY <1>2, <3>1 DEF Begin
      <3>3. startedAt[p] <= startedAt[q]
        BY <3>1, <3>2 DEF VerdictInv, OneAtATime
      <3>4. p # r
        BY <3>2
      <3>5. QED
        BY <2>1, <2>5, <3>3, <3>4 DEF StepFrame
    <2>6. QED
      BY <2>4, <2>5
  <1>3. QED
    BY <1>1, <1>2 DEF Works

LEMMA IdleUnseenKept ==
    ASSUME VerdictInv, NEW r \in Runs, RunStep(r)
    PROVE  IdleUnseen'
  <1>1. StepFrame(r)
    BY BeginFrame, WorkFrame DEF VerdictInv, Works
  <1>2. \A p \in Runs : pc'[p] = "idle" => p # r /\ pc[p] = "idle"
    BY <1>1 DEF StepFrame
  <1>3. QED
    BY <1>1, <1>2 DEF StepFrame, VerdictInv, IdleUnseen

\* The verdict of r survives what leaves r and the rows of its key alone.
LEMMA VerdictFrame ==
    ASSUME NEW r \in Runs, VerdictOf(r),
           pc'[r] = pc[r], startedAt'[r] = startedAt[r], seen'[r] = seen[r], todo'[r] = todo[r],
           current'[r] = current[r], held'[r] = held[r], listed'[r] = listed[r],
           \A f \in OfKey(KeyOf[r]) :
               /\ f \in decided \/ f \in decided' => f \in decided'
               /\ f \notin decided' => fstatus'[f] = fstatus[f]
               /\ seenAt'[f] = seenAt[f] /\ seenBy'[f] = seenBy[f]
    PROVE  VerdictOf(r)'
  <1>1. ASSUME NEW f \in OfKey(KeyOf[r])
        PROVE  UnseenPart(r, f)' /\ RecordedPart(r, f)' /\ CurrentPart(r, f)'
    <2>1. UnseenPart(r, f) /\ RecordedPart(r, f) /\ CurrentPart(r, f)
      BY DEF VerdictOf
    <2>2. UnseenPart(r, f)'
      BY <2>1 DEF UnseenPart
    <2>3. RecordedPart(r, f)'
      BY <2>1 DEF RecordedPart
    <2>4. CurrentPart(r, f)'
      BY <2>1 DEF CurrentPart
    <2>5. QED
      BY <2>2, <2>3, <2>4
  <1>2. /\ todo'[r] \subseteq seen'[r]
        /\ pc'[r] \in {"listing", "resolving", "done"} => todo'[r] = {}
        /\ pc'[r] = "done" => listed'[r] = {}
    BY DEF VerdictOf
  <1>3. OfKey(KeyOf[r])' = OfKey(KeyOf[r])
    BY DEF OfKey
  <1>4. QED
    BY <1>1, <1>2, <1>3 DEF VerdictOf

\* Another run of the key cannot move while r decides: if it begins, r is the
\* latest no more, and if it is in progress, it is the latest.
LEMMA OthersKeepVerdict ==
    ASSUME VerdictInv, NEW q \in Runs, NEW r \in Runs, q # r, RunStep(q), Deciding(r)'
    PROVE  VerdictOf(r)'
  <1>0. FindingsInv /\ StepFrame(q)
    BY BeginFrame, WorkFrame DEF VerdictInv, Works
  <1>1. /\ pc[r] \notin {"idle", "stopped"} /\ startedAt'[r] = startedAt[r]
        /\ KeyOf[r] \notin overlapped'
        /\ \A p \in Runs : KeyOf[p] = KeyOf[r] => startedAt'[p] <= startedAt'[r]
    BY <1>0 DEF StepFrame, Deciding, Latest
  <1>2. /\ \A s \in Runs : startedAt[s] <= clock /\ startedAt[s] \in Nat
        /\ clock \in Nat /\ startedAt[q] # startedAt[r]
    BY <1>0, <1>1 DEF FindingsInv, FindingsTypeOK, StartsAreDistinct, Times
  <1>3. KeyOf[q] # KeyOf[r] /\ KeyOf[r] \notin overlapped
    <2>1. ASSUME NEW cs \in SUBSET OfKey(KeyOf[q]), Begin(q, cs)
          PROVE  KeyOf[q] # KeyOf[r] /\ KeyOf[r] \notin overlapped
      <3>1. startedAt'[q] = clock + 1
        BY <1>0, <2>1 DEF Begin, FindingsInv, FindingsTypeOK
      <3>2. overlapped \subseteq overlapped'
        BY <2>1 DEF Begin
      <3>3. QED
        BY <1>1, <1>2, <3>1, <3>2
    <2>2. CASE Works(q)
      <3>1. InProgress(q) /\ UNCHANGED <<startedAt, overlapped>>
        BY <1>0, <2>2, WorkFrame
      <3>2. ASSUME KeyOf[q] = KeyOf[r] PROVE FALSE
        <4>1. startedAt[q] <= startedAt[r]
          BY <1>1, <3>1, <3>2
        <4>2. startedAt[r] <= startedAt[q]
          BY <1>1, <3>1, <3>2 DEF VerdictInv, OneAtATime
        <4>3. QED
          BY <1>2, <4>1, <4>2
      <3>3. QED
        BY <1>1, <3>1, <3>2
    <2>3. QED
      BY <2>1, <2>2 DEF Works
  <1>4. \A p \in Runs : KeyOf[p] = KeyOf[r] => startedAt'[p] = startedAt[p]
    BY <1>0, <1>3 DEF StepFrame
  <1>5. VerdictOf(r)
    BY <1>1, <1>3, <1>4 DEF VerdictInv, Deciding, Latest
  <1>6. \A f \in OfKey(KeyOf[r]) :
            /\ fstatus'[f] = fstatus[f] /\ seenAt'[f] = seenAt[f] /\ seenBy'[f] = seenBy[f]
            /\ f \in decided' <=> f \in decided
    BY <1>0, <1>3 DEF StepFrame, OfKey
  <1>7. QED
    BY <1>0, <1>5, <1>6, VerdictFrame DEF StepFrame

-----------------------------------------------------------------------------
(* The statements of the run itself *)

LEMMA BeginVerdict ==
    ASSUME VerdictInv, NEW r \in Runs, NEW cs \in SUBSET OfKey(KeyOf[r]), Begin(r, cs)
    PROVE  VerdictOf(r)'
  <1>0. FindingsInv
    BY DEF VerdictInv
  <1>1. /\ pc[r] = "idle" /\ seen'[r] = cs /\ todo'[r] = cs /\ startedAt'[r] = clock + 1
        /\ UNCHANGED <<fstatus, seenAt, seenBy, current, held, listed>>
    BY <1>0 DEF Begin, rowVars, FindingsInv, FindingsTypeOK
  <1>2. /\ pc'[r] \in {"listing", "recording"}
        /\ pc'[r] = "listing" => cs = {}
    BY <1>0 DEF Begin, Goto, FindingsInv, FindingsTypeOK
  <1>3. ASSUME NEW f \in OfKey(KeyOf[r])
        PROVE  UnseenPart(r, f)' /\ RecordedPart(r, f)' /\ CurrentPart(r, f)'
    <2>1. f \in Findings
      BY DEF OfKey
    <2>2. seenAt[f] < clock + 1
      BY <1>0, <2>1, ClockIsBounded DEF FindingsInv, FindingsTypeOK, StampsAreOnce, Times
    <2>3. seenBy[f] # r
      BY <1>1, <2>1 DEF VerdictInv, IdleUnseen
    <2>4. UnseenPart(r, f)'
      BY <1>1, <1>2, <2>2, <2>3 DEF UnseenPart
    <2>5. RecordedPart(r, f)'
      BY <1>1 DEF RecordedPart
    <2>6. CurrentPart(r, f)'
      BY <1>2 DEF CurrentPart
    <2>7. QED
      BY <2>4, <2>5, <2>6
  <1>4. OfKey(KeyOf[r])' = OfKey(KeyOf[r])
    BY DEF OfKey
  <1>5. QED
    BY <1>1, <1>2, <1>3, <1>4 DEF VerdictOf

\* recordFindings stamps its current finding; it is open or suppressed then.
LEMMA StampVerdict ==
    ASSUME VerdictInv, NEW r \in Runs, VerdictOf(r), pc[r] \in {"writing", "refreshing"},
           StampObservation(r, current[r]), CandidateDone(r),
           UNCHANGED <<startedAt, seen, listed, decided>>,
           \A f \in Findings \ {current[r]} : fstatus'[f] = fstatus[f],
           current[r] \notin decided => fstatus'[current[r]] \in {"OPEN", "SUPPRESSED"}
    PROVE  VerdictOf(r)'
  <1> DEFINE c == current[r]
  <1>0. FindingsInv /\ c \in todo[r] /\ c \in Findings
    BY DEF VerdictInv, FindingsInv, FindingsTypeOK, WorkIsOfKey
  <1>1. /\ todo'[r] = todo[r] \ {c} /\ current'[r] = NoFinding
        /\ pc'[r] \in {"listing", "recording"} /\ (pc'[r] = "listing" => todo[r] = {c})
    BY <1>0 DEF CandidateDone, Goto, FindingsInv, FindingsTypeOK
  <1>2. /\ seenAt'[c] = startedAt[r]
        /\ \A f \in Findings \ {c} : seenAt'[f] = seenAt[f] /\ seenBy'[f] = seenBy[f]
    BY <1>0 DEF StampObservation, FindingsInv, FindingsTypeOK
  <1>3. todo[r] \subseteq seen[r] /\ c \in seen[r]
    BY <1>0 DEF VerdictOf
  <1> HIDE DEF c
  <1>4. ASSUME NEW f \in OfKey(KeyOf[r])
        PROVE  UnseenPart(r, f)' /\ RecordedPart(r, f)' /\ CurrentPart(r, f)'
    <2>1. f \in Findings /\ UnseenPart(r, f) /\ RecordedPart(r, f)
      BY DEF OfKey, VerdictOf
    <2>2. UnseenPart(r, f)'
      BY <1>1, <1>2, <1>3, <2>1 DEF UnseenPart
    <2>3. RecordedPart(r, f)'
      <3>1. CASE f = c
        BY <1>1, <1>2, <3>1 DEF RecordedPart, c
      <3>2. CASE f # c
        BY <1>1, <1>2, <2>1, <3>2 DEF RecordedPart, c
      <3>3. QED
        BY <3>1, <3>2
    <2>4. CurrentPart(r, f)'
      BY <1>1 DEF CurrentPart
    <2>5. QED
      BY <2>2, <2>3, <2>4
  <1>5. OfKey(KeyOf[r])' = OfKey(KeyOf[r])
    BY DEF OfKey
  <1>6. QED
    BY <1>1, <1>3, <1>4, <1>5 DEF VerdictOf

\* Reads, and compare-and-sets that missed: no row moves, and what is held of
\* the current finding is its status unless a human decided.
LEMMA ReadVerdict ==
    ASSUME VerdictInv, NEW r \in Runs, VerdictOf(r), pc[r] \in {"recording", "writing"},
           pc'[r] \in {"writing", "refreshing"},
           UNCHANGED <<rowVars, startedAt, seen, todo, listed, decided>>,
           \A f \in OfKey(KeyOf[r]) : CurrentPart(r, f)'
    PROVE  VerdictOf(r)'
  <1>1. ASSUME NEW f \in OfKey(KeyOf[r]) PROVE UnseenPart(r, f)' /\ RecordedPart(r, f)'
    <2>1. UnseenPart(r, f) /\ RecordedPart(r, f)
      BY DEF VerdictOf
    <2>2. UnseenPart(r, f)'
      BY <2>1 DEF UnseenPart, rowVars
    <2>3. RecordedPart(r, f)'
      BY <2>1 DEF RecordedPart, rowVars
    <2>4. QED
      BY <2>2, <2>3
  <1>2. OfKey(KeyOf[r])' = OfKey(KeyOf[r])
    BY DEF OfKey
  <1>3. QED
    BY <1>1, <1>2 DEF VerdictOf

LEMMA RecordVerdict ==
    ASSUME VerdictInv, NEW r \in Runs, VerdictOf(r),
           \/ \E f \in Findings : ObserveRead(r, f)
           \/ CreateFinding(r) \/ UpdateFinding(r) \/ RefreshObservation(r)
    PROVE  VerdictOf(r)'
  <1> DEFINE c == current[r]
  <1>0. FindingsInv
    BY DEF VerdictInv
  <1>1. \A f \in OfKey(KeyOf[r]) : CurrentPart(r, f)
    BY DEF VerdictOf
  <1>2. ASSUME NEW f \in Findings, ObserveRead(r, f) PROVE VerdictOf(r)'
    <2>1. /\ pc[r] = "recording" /\ pc'[r] = "writing" /\ current'[r] = f /\ held'[r] = fstatus[f]
          /\ UNCHANGED <<rowVars, startedAt, seen, todo, listed, decided>>
      BY <1>0, <1>2 DEF ObserveRead, Goto, runVars, FindingsInv, FindingsTypeOK
    <2>2. \A g \in OfKey(KeyOf[r]) : CurrentPart(r, g)'
      BY <2>1 DEF CurrentPart, rowVars
    <2>3. QED
      BY <2>1, <2>2, ReadVerdict
  <1>3. ASSUME pc[r] \in {"writing", "refreshing"}
        PROVE  c \in Findings /\ c \in OfKey(KeyOf[r]) /\ fstatus[c] \in FindingStatuses
    BY <1>0, <1>3 DEF FindingsInv, FindingsTypeOK, WorkIsOfKey, OfKey
  <1>4. CASE CreateFinding(r) /\ Exists(c)
    <2>1. /\ pc[r] = "writing" /\ pc' = pc /\ current' = current /\ held'[r] = fstatus[c]
          /\ UNCHANGED <<rowVars, startedAt, seen, todo, listed, decided>>
      BY <1>0, <1>4 DEF CreateFinding, runVars, FindingsInv, FindingsTypeOK
    <2>2. \A g \in OfKey(KeyOf[r]) : CurrentPart(r, g)'
      BY <2>1 DEF CurrentPart, rowVars
    <2>3. QED
      BY <2>1, <2>2, ReadVerdict
  <1>5. CASE CreateFinding(r) /\ ~Exists(c)
    <2>1. /\ pc[r] = "writing" /\ StampObservation(r, c) /\ CandidateDone(r)
          /\ fstatus' = [fstatus EXCEPT ![c] = "OPEN"]
          /\ UNCHANGED <<startedAt, seen, listed, decided>>
      BY <1>5 DEF CreateFinding, runVars
    <2>2. fstatus'[c] = "OPEN" /\ \A f \in Findings \ {c} : fstatus'[f] = fstatus[f]
      BY <1>0, <1>3, <2>1 DEF FindingsInv, FindingsTypeOK
    <2>3. QED
      BY <2>1, <2>2, StampVerdict
  <1>6. CASE UpdateFinding(r) /\ ~StatusMatches(r)
    <2>1. /\ pc[r] = "writing" /\ pc'[r] = "refreshing" /\ UNCHANGED <<current, held>>
          /\ UNCHANGED <<rowVars, startedAt, seen, todo, listed, decided>>
      BY <1>0, <1>6 DEF UpdateFinding, Goto, runVars, FindingsInv, FindingsTypeOK
    <2>2. c \in decided
      BY <1>1, <1>3, <1>6, <2>1 DEF CurrentPart, StatusMatches
    <2>3. \A g \in OfKey(KeyOf[r]) : CurrentPart(r, g)'
      BY <2>1, <2>2 DEF CurrentPart
    <2>4. QED
      BY <2>1, <2>3, ReadVerdict
  <1>7. CASE UpdateFinding(r) /\ StatusMatches(r)
    <2>1. /\ pc[r] = "writing" /\ StampObservation(r, c) /\ CandidateDone(r)
          /\ UNCHANGED <<startedAt, seen, listed, decided>>
      BY <1>7 DEF UpdateFinding, runVars
    <2>2. held[r] = fstatus[c] /\ held[r] # "absent"
      BY <1>7 DEF UpdateFinding, StatusMatches
    <2>3. IF held[r] = "RESOLVED" THEN fstatus' = [fstatus EXCEPT ![c] = "OPEN"]
                                   ELSE fstatus' = fstatus
      BY <1>7 DEF UpdateFinding
    <2>4. /\ fstatus'[c] \in {"OPEN", "SUPPRESSED"}
          /\ \A f \in Findings \ {c} : fstatus'[f] = fstatus[f]
      BY <1>0, <1>3, <2>1, <2>2, <2>3 DEF FindingsInv, FindingsTypeOK, FindingStatuses
    <2>5. QED
      BY <2>1, <2>4, StampVerdict
  <1>8. CASE RefreshObservation(r)
    <2>1. /\ pc[r] = "refreshing" /\ StampObservation(r, c) /\ CandidateDone(r)
          /\ UNCHANGED <<fstatus, startedAt, seen, listed, decided>>
      BY <1>8 DEF RefreshObservation, runVars
    <2>2. c \in decided
      BY <1>1, <1>3, <2>1 DEF CurrentPart
    <2>3. QED
      BY <2>1, <2>2, StampVerdict
  <1>9. QED
    BY <1>2, <1>4, <1>5, <1>6, <1>7, <1>8

LEMMA ListVerdict ==
    ASSUME VerdictInv, NEW r \in Runs, VerdictOf(r), ListAbsent(r)
    PROVE  VerdictOf(r)'
  <1>0. FindingsInv
    BY DEF VerdictInv
  <1> DEFINE found == {<<f, seenAt[f]>> : f \in Absent(r)}
  <1>1. /\ pc[r] = "listing" /\ pc'[r] = "resolving" /\ listed'[r] = found
        /\ UNCHANGED <<fstatus, seenAt, seenBy, startedAt, seen, todo, decided>>
    BY <1>0 DEF ListAbsent, Goto, rowVars, runVars, FindingsInv, FindingsTypeOK
  <1>2. ASSUME NEW f \in OfKey(KeyOf[r])
        PROVE  UnseenPart(r, f)' /\ RecordedPart(r, f)' /\ CurrentPart(r, f)'
    <2>1. UnseenPart(r, f) /\ RecordedPart(r, f) /\ todo[r] = {} /\ f \in Findings
      BY <1>1 DEF VerdictOf, OfKey
    <2>2. seenAt[f] \in Nat /\ startedAt[r] \in Nat
      BY <1>0, <2>1 DEF FindingsInv, FindingsTypeOK, Times
    <2>3. ASSUME f \in seen[r], NEW at \in Times PROVE <<f, at>> \notin found
      BY <2>1, <2>2, <2>3 DEF RecordedPart, Absent
    <2>4. ASSUME f \notin seen[r], fstatus[f] = "OPEN" PROVE <<f, seenAt[f]>> \in found
      BY <2>1, <2>4 DEF UnseenPart, Absent
    <2>5. QED
      BY <1>1, <2>1, <2>3, <2>4 DEF UnseenPart, RecordedPart, CurrentPart
  <1>3. /\ todo'[r] \subseteq seen'[r]
        /\ pc'[r] \in {"listing", "resolving", "done"} => todo'[r] = {}
        /\ pc'[r] = "done" => listed'[r] = {}
    BY <1>1 DEF VerdictOf
  <1>4. OfKey(KeyOf[r])' = OfKey(KeyOf[r])
    BY DEF OfKey
  <1>5. QED
    BY <1>2, <1>3, <1>4 DEF VerdictOf

LEMMA ResolveVerdict ==
    ASSUME VerdictInv, NEW r \in Runs, VerdictOf(r), NEW f \in Findings, NEW at \in Times,
           ResolveAbsent(r, f, at)
    PROVE  VerdictOf(r)'
  <1>0. FindingsInv
    BY DEF VerdictInv
  <1>1. /\ pc[r] = "resolving" /\ <<f, at>> \in listed[r] /\ listed'[r] = listed[r] \ {<<f, at>>}
        /\ UNCHANGED <<seenAt, seenBy, pc, startedAt, seen, todo, decided>>
    BY <1>0 DEF ResolveAbsent, runVars, FindingsInv, FindingsTypeOK
  <1>2. /\ \A g \in Findings \ {f} : fstatus'[g] = fstatus[g]
        /\ fstatus[f] = "OPEN" /\ seenAt[f] = at => fstatus'[f] = "RESOLVED"
        /\ ~(fstatus[f] = "OPEN" /\ seenAt[f] = at) => fstatus'[f] = fstatus[f]
    BY <1>0 DEF ResolveAbsent, StillAbsent, FindingsInv, FindingsTypeOK
  <1>3. ASSUME NEW g \in OfKey(KeyOf[r])
        PROVE  UnseenPart(r, g)' /\ RecordedPart(r, g)' /\ CurrentPart(r, g)'
    <2>1. UnseenPart(r, g) /\ RecordedPart(r, g) /\ CurrentPart(r, g) /\ todo[r] = {} /\ g \in Findings
      BY <1>1 DEF VerdictOf, OfKey
    <2>2. UnseenPart(r, g)'
      BY <1>1, <1>2, <2>1 DEF UnseenPart
    <2>3. RecordedPart(r, g)'
      <3>1. g \in seen[r] => g # f
        BY <1>1, <2>1 DEF RecordedPart
      <3>2. QED
        BY <1>1, <1>2, <2>1, <3>1 DEF RecordedPart
    <2>4. CurrentPart(r, g)'
      BY <1>1 DEF CurrentPart
    <2>5. QED
      BY <2>2, <2>3, <2>4
  <1>4. /\ todo'[r] \subseteq seen'[r] /\ todo'[r] = {} /\ pc'[r] # "done"
    BY <1>1 DEF VerdictOf
  <1>5. OfKey(KeyOf[r])' = OfKey(KeyOf[r])
    BY DEF OfKey
  <1>6. QED
    BY <1>3, <1>4, <1>5 DEF VerdictOf

LEMMA FinishVerdict ==
    ASSUME VerdictInv, NEW r \in Runs, VerdictOf(r), Finish(r)
    PROVE  VerdictOf(r)'
  <1>1. /\ pc[r] = "resolving" /\ pc'[r] = "done" /\ listed'[r] = {}
        /\ UNCHANGED <<fstatus, seenAt, seenBy, startedAt, seen, todo, listed, decided>>
    BY DEF Finish, Goto, rowVars, runVars, VerdictInv, FindingsInv, FindingsTypeOK
  <1>2. ASSUME NEW f \in OfKey(KeyOf[r])
        PROVE  UnseenPart(r, f)' /\ RecordedPart(r, f)' /\ CurrentPart(r, f)'
    BY <1>1 DEF VerdictOf, UnseenPart, RecordedPart, CurrentPart
  <1>3. todo'[r] \subseteq seen'[r] /\ todo'[r] = {}
    BY <1>1 DEF VerdictOf
  <1>4. OfKey(KeyOf[r])' = OfKey(KeyOf[r])
    BY DEF OfKey
  <1>5. QED
    BY <1>1, <1>2, <1>3, <1>4 DEF VerdictOf

LEMMA OwnStepsKeepVerdict ==
    ASSUME VerdictInv, NEW r \in Runs, RunStep(r), Deciding(r)'
    PROVE  VerdictOf(r)'
  <1>1. ASSUME NEW cs \in SUBSET OfKey(KeyOf[r]), Begin(r, cs) PROVE VerdictOf(r)'
    BY <1>1, BeginVerdict
  <1>2. CASE Works(r)
    <2>1. ~Stop(r)
      BY DEF Stop, Goto, Deciding, VerdictInv, FindingsInv, FindingsTypeOK
    <2>2. InProgress(r) /\ UNCHANGED <<startedAt, overlapped>>
      BY <1>2, WorkFrame DEF VerdictInv
    <2>3. VerdictOf(r)
      BY <2>2 DEF Deciding, Latest, InProgress, VerdictInv
    <2>4. CASE \/ \E f \in Findings : ObserveRead(r, f)
               \/ CreateFinding(r) \/ UpdateFinding(r) \/ RefreshObservation(r)
      BY <2>3, <2>4, RecordVerdict
    <2>5. CASE ListAbsent(r) \/ Finish(r) \/ \E f \in Findings, at \in Times : ResolveAbsent(r, f, at)
      BY <2>3, <2>5, ListVerdict, FinishVerdict, ResolveVerdict
    <2>6. QED
      BY <1>2, <2>1, <2>4, <2>5 DEF Works, RunStep
  <1>3. QED
    BY <1>1, <1>2 DEF Works

-----------------------------------------------------------------------------
LEMMA VerdictInit == Init => VerdictInv
  <1> SUFFICES ASSUME Init PROVE VerdictInv
    OBVIOUS
  <1>1. FindingsInv
    BY InitEstablishes
  <1>2. OneAtATime
    BY DEF Init, OneAtATime, InProgress
  <1>3. IdleUnseen
    BY FindingNullAssumption DEF Init, IdleUnseen
  <1>4. \A r \in Runs : ~Deciding(r)
    BY DEF Init, Deciding
  <1>5. QED
    BY <1>1, <1>2, <1>3, <1>4 DEF VerdictInv

LEMMA HumansKeepVerdict ==
    ASSUME VerdictInv, NEW f \in Findings, SuppressFinding(f) \/ ReopenFinding(f)
    PROVE  OneAtATime' /\ IdleUnseen' /\ \A r \in Runs : Deciding(r)' => VerdictOf(r)'
  <1>1. /\ UNCHANGED <<pc, startedAt, seen, todo, current, held, listed, seenAt, seenBy, overlapped>>
        /\ decided' = decided \union {f}
        /\ \A g \in Findings \ {f} : fstatus'[g] = fstatus[g]
    BY DEF SuppressFinding, ReopenFinding, Decide, runVars, execVars, VerdictInv, FindingsInv,
           FindingsTypeOK
  <1>2. OneAtATime' /\ IdleUnseen'
    BY <1>1 DEF VerdictInv, OneAtATime, IdleUnseen, InProgress
  <1>3. ASSUME NEW r \in Runs, Deciding(r)' PROVE VerdictOf(r)'
    <2>1. VerdictOf(r)
      BY <1>1, <1>3 DEF VerdictInv, Deciding, Latest
    <2>2. \A g \in OfKey(KeyOf[r]) :
              /\ g \in decided \/ g \in decided' => g \in decided'
              /\ g \notin decided' => fstatus'[g] = fstatus[g]
      BY <1>1 DEF OfKey
    <2>3. QED
      BY <1>1, <2>1, <2>2, VerdictFrame
  <1>4. QED
    BY <1>2, <1>3

LEMMA VerdictStep == VerdictInv /\ [Next]_vars => VerdictInv'
  <1> SUFFICES ASSUME VerdictInv, [Next]_vars PROVE VerdictInv'
    OBVIOUS
  <1>1. FindingsInv'
    BY StepPreserves DEF VerdictInv
  <1>2. ASSUME NEW q \in Runs, RunStep(q) PROVE VerdictInv'
    <2>1. \A r \in Runs : Deciding(r)' => VerdictOf(r)'
      BY <1>2, OthersKeepVerdict, OwnStepsKeepVerdict
    <2>2. QED
      BY <1>1, <1>2, <2>1, OneAtATimeKept, IdleUnseenKept DEF VerdictInv
  <1>3. ASSUME NEW f \in Findings, SuppressFinding(f) \/ ReopenFinding(f) PROVE VerdictInv'
    BY <1>1, <1>3, HumansKeepVerdict DEF VerdictInv
  <1>4. CASE UNCHANGED vars
    <2>1. UNCHANGED <<pc, startedAt, seen, todo, current, held, listed, fstatus, seenAt, seenBy,
                      overlapped, decided>>
      BY <1>4 DEF vars, rowVars, runVars, execVars
    <2>2. OneAtATime' /\ IdleUnseen'
      BY <2>1 DEF VerdictInv, OneAtATime, IdleUnseen, InProgress
    <2>3. ASSUME NEW r \in Runs, Deciding(r)' PROVE VerdictOf(r)'
      <3>1. VerdictOf(r)
        BY <2>1, <2>3 DEF VerdictInv, Deciding, Latest
      <3>2. QED
        BY <2>1, <3>1, VerdictFrame
    <2>4. QED
      BY <1>1, <2>2, <2>3 DEF VerdictInv
  <1>5. QED
    BY <1>2, <1>3, <1>4 DEF Next

LEMMA VerdictInvariant == Spec => []VerdictInv
  BY VerdictInit, VerdictStep, PTL DEF Spec

\* As long as the runs of a key do not overlap, what the latest completed run
\* reported is open or suppressed and what it did not report is not open, save
\* for what humans decided since it began: whatever was suppressed or reopened
\* between its reads and its writes, and whatever runs stopped before it.
THEOREM LatestRunHasTheVerdict == Spec => []LatestRunDecides
  <1>1. VerdictInv => LatestRunDecides
    <2> SUFFICES ASSUME VerdictInv, NEW r \in Runs, pc[r] = "done", Latest(r),
                        KeyOf[r] \notin overlapped, NEW f \in OfKey(KeyOf[r]) \ decided
                 PROVE  /\ f \in seen[r] => fstatus[f] \in {"OPEN", "SUPPRESSED"}
                        /\ f \notin seen[r] => fstatus[f] # "OPEN"
      BY DEF LatestRunDecides
    <2>1. VerdictOf(r)
      BY DEF VerdictInv, Deciding
    <2>2. todo[r] = {} /\ listed[r] = {} /\ UnseenPart(r, f) /\ RecordedPart(r, f)
      BY <2>1 DEF VerdictOf
    <2>3. QED
      BY <2>2 DEF UnseenPart, RecordedPart
  <1>2. QED
    BY <1>1, VerdictInvariant, PTL

\* resolveAbsentFindings never closes a finding that its own run observed,
\* unless runs of the key have overlapped.
THEOREM OwnObservationsStayOpen == Spec => ResolvesOnlyUnseen
  <1>1. VerdictInv /\ [Next]_vars
          => [\A r \in Runs, f \in Findings :
                  Resolves(r, f) /\ KeyOf[r] \notin overlapped => f \notin seen[r]]_vars
    <2> SUFFICES ASSUME VerdictInv, [Next]_vars, vars' # vars, NEW r \in Runs, NEW f \in Findings,
                        Resolves(r, f), KeyOf[r] \notin overlapped
                 PROVE  f \notin seen[r]
      OBVIOUS
    <2>1. FindingsInv /\ Next
      BY DEF VerdictInv
    <2>2. PICK at \in Times : <<f, at>> \in listed[r] /\ seenAt[f] = at
      BY <2>1, ResolutionsComeFromListings
    <2>3. f \in OfKey(KeyOf[r])
      BY <2>1, <2>2 DEF FindingsInv, WorkIsOfKey, OfKey
    <2>4. pc[r] = "resolving"
      BY <2>1, ResolutionsComeFromListings
    <2>5. Deciding(r)
      BY <2>4 DEF VerdictInv, OneAtATime, InProgress, Deciding, Latest
    <2>6. todo[r] = {} /\ RecordedPart(r, f)
      BY <2>3, <2>4, <2>5 DEF VerdictInv, VerdictOf
    <2>7. QED
      BY <2>2, <2>4, <2>6 DEF RecordedPart
  <1>2. QED
    BY <1>1, VerdictInvariant, PTL DEF Spec, ResolvesOnlyUnseen

\* The three together: a run closes a finding only of its key, only unobserved
\* by others since the listing, and only unobserved by itself.
THEOREM ResolutionsStaySound == Spec => ResolutionsAreSound
  BY ResolutionsStayInTheKey, ReobservedStaysOpen, OwnObservationsStayOpen DEF ResolutionsAreSound
=============================================================================
