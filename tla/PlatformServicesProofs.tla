------------------------ MODULE PlatformServicesProofs ------------------------
(***************************************************************************)
(* Safety of the services that MCPlatformServices composes, for all values *)
(* of their constants (CopilotRunsProofs has the chats, AccountProofs the  *)
(* sessions and codes).                                                    *)
(*   Alerts.  While no two evaluations overlap there is one at a time      *)
(*     (OneInProgress), so what it read of the state still holds when it   *)
(*     writes: the firing it found was announced (FiringsAreAnnounced),    *)
(*     and the count it found is that of the clean evaluations             *)
(*     (CountsAreExact).                                                   *)
(*   Notifications.  A record is pushed once because only the request that *)
(*     created it goes on, and no push is counted before it                *)
(*     (PushersOwnTheirRecord); the failures are those of the last push    *)
(*     because the results still to be written say what it reached         *)
(*     (ResultsArePending).                                                *)
(*   Catalog.  A pass over the rows finds the one that is newer than all   *)
(*     others, whatever the order of reading, because NewerRelease orders  *)
(*     the rows of a catalog (PassFindsMostRecent).  Only commits that the *)
(*     branch reached are catalogued (CatalogIsReached) and dates grow     *)
(*     along the branch, so after a sync the latest row has the date of    *)
(*     the head.                                                           *)
(* In the composition each service behaves as specified.                   *)
(***************************************************************************)
EXTENDS MCPlatformServices, CopilotRunsProofs, AccountProofs, WellFoundedInduction

HIDE CopilotAssumption DEF ChatRuns, NoRun, Times

-----------------------------------------------------------------------------
(* Threshold alerts *)

LockIsHeld ==
    redisFaults + expiredEarly = 0 =>
        ~evalsOverlapped /\ \A e \in Evaluators : evalPc[e] # "idle" => evaluationLock = e

OneInProgress ==
    ~evalsOverlapped =>
        \A d, e \in Evaluators :
            evalPc[d] \in InProgress /\ evalPc[e] \in InProgress => d = e

CleanWritesKnow ==
    \A e \in Evaluators : evalPc[e] = "write" /\ ~saw[e] => known[e] # NoAlert

Announcing == \E e \in Evaluators : evalPc[e] = "emit" /\ saw[e]

FiringsAreAnnounced ==
    (evaluatorCrashes = 0 /\ ~evalsOverlapped) =>
        /\ alert # NoAlert => announced = "firing" \/ Announcing
        /\ \A e \in Evaluators :
               /\ evalPc[e] = "write" /\ known[e] # NoAlert => announced = "firing"
               /\ evalPc[e] = "emit" /\ ~saw[e] => alert = NoAlert /\ announced = "firing"

Judging == {"get", "write", "emit"}

CountsAreExact ==
    (redisFaults + evaluatorCrashes = 0 /\ ~evalsOverlapped) =>
        /\ alert # NoAlert /\ (\A e \in Evaluators : evalPc[e] \notin Judging)
               => alert.clean = cleanRun
        /\ \A e \in Evaluators :
               /\ evalPc[e] = "get" /\ ~saw[e] /\ alert # NoAlert => cleanRun = alert.clean + 1
               /\ evalPc[e] = "write" /\ ~saw[e] => cleanRun = known[e].clean + 1
               /\ evalPc[e] \in Judging /\ saw[e] => cleanRun = 0
               /\ evalPc[e] = "emit" /\ saw[e] /\ alert # NoAlert => alert.clean = 0
               /\ evalPc[e] = "emit" /\ ~saw[e] => cleanRun = Windows

AlertsInv ==
    /\ AlertsTypeOK /\ LockIsHeld /\ OneInProgress /\ CleanWritesKnow
    /\ FiringsAreAnnounced /\ CountsAreExact

-----------------------------------------------------------------------------
LEMMA InitEstablishesAlerts == AlertsInit => AlertsInv
  <1> SUFFICES ASSUME AlertsInit PROVE AlertsInv
    OBVIOUS
  <1>1. /\ 0 \in 0 .. Windows /\ 0 \in 0 .. MaxEarlyExpiries /\ 0 \in 0 .. MaxRedisFaults
        /\ 0 \in 0 .. MaxQueryFaults /\ 0 \in 0 .. MaxEvaluatorCrashes
    BY AlertsAssumption
  <1>2. AlertsTypeOK
    BY <1>1 DEF AlertsInit, AlertsTypeOK
  <1>3. LockIsHeld /\ OneInProgress /\ CleanWritesKnow
    BY DEF AlertsInit, LockIsHeld, OneInProgress, CleanWritesKnow, InProgress
  <1>4. FiringsAreAnnounced /\ CountsAreExact
    BY DEF AlertsInit, FiringsAreAnnounced, CountsAreExact, Judging
  <1>5. QED
    BY <1>2, <1>3, <1>4 DEF AlertsInv

\* The counters are numbers, and a sum of two is zero when both are.
LEMMA FaultsAreCounted ==
    ASSUME AlertsInv
    PROVE  /\ redisFaults \in Nat /\ queryFaults \in Nat /\ evaluatorCrashes \in Nat
           /\ expiredEarly \in Nat /\ cleanRun \in Nat /\ Windows \in Nat \ {0}
           /\ MaxRedisFaults \in Nat /\ MaxQueryFaults \in Nat
           /\ MaxEvaluatorCrashes \in Nat /\ MaxEarlyExpiries \in Nat
  BY AlertsAssumption DEF AlertsInv, AlertsTypeOK

LEMMA TakeLockPreserves ==
    ASSUME AlertsInv, NEW e \in Evaluators, TakeLock(e)
    PROVE  AlertsInv'
  <1>1. /\ evalPc[e] = "idle" /\ evalPc' = [evalPc EXCEPT ![e] = "verify"]
        /\ evaluationLock = NoEvaluator /\ evaluationLock' = e
        /\ UNCHANGED <<breaching, alert, saw, known, alertHistory, alertFaults>>
    BY DEF TakeLock, SetLock
  <1>2. AlertsTypeOK'
    BY <1>1 DEF AlertsInv, AlertsTypeOK, alertHistory, alertFaults
  <1>3. /\ evalPc'[e] = "verify" /\ \A d \in Evaluators \ {e} : evalPc'[d] = evalPc[d]
    BY <1>1 DEF AlertsInv, AlertsTypeOK
  <1>4. LockIsHeld'
    BY <1>1, <1>3, AlertsAssumption DEF AlertsInv, LockIsHeld, alertHistory, alertFaults
  <1>5. OneInProgress' /\ CleanWritesKnow'
    BY <1>1, <1>3 DEF AlertsInv, OneInProgress, CleanWritesKnow, InProgress, alertHistory
  <1>6. FiringsAreAnnounced'
    BY <1>1, <1>3 DEF AlertsInv, FiringsAreAnnounced, Announcing, alertHistory, alertFaults
  <1>7. CountsAreExact'
    BY <1>1, <1>3 DEF AlertsInv, CountsAreExact, Judging, alertHistory, alertFaults
  <1>8. QED
    BY <1>2, <1>4, <1>5, <1>6, <1>7 DEF AlertsInv

\* The evaluator starts; another one in progress is an overlap.
LEMMA BeginPreservesAlerts ==
    ASSUME AlertsInv, NEW e \in Evaluators, evalPc[e] \in {"idle", "verify"}, Begin(e),
           redisFaults' \in 0 .. MaxRedisFaults, redisFaults <= redisFaults',
           redisFaults' = 0 => evaluationLock = e /\ evaluationLock' = e /\ evalPc[e] = "verify",
           evaluationLock' \in Evaluators \union {NoEvaluator},
           UNCHANGED <<breaching, alert, saw, known, announced, cleanRun, expiredEarly,
                       queryFaults, evaluatorCrashes>>
    PROVE  AlertsInv'
  <1>1. evalPc' = [evalPc EXCEPT ![e] = "query"]
        /\ evalsOverlapped' = (evalsOverlapped \/ \E o \in Evaluators : evalPc[o] \in InProgress)
    BY DEF Begin
  <1>2. evalPc'[e] = "query" /\ \A d \in Evaluators \ {e} : evalPc'[d] = evalPc[d]
    BY <1>1 DEF AlertsInv, AlertsTypeOK
  <1>3. AlertsTypeOK'
    <2>1. evalPc' \in [Evaluators -> {"idle", "verify"} \union InProgress]
      BY <1>1 DEF AlertsInv, AlertsTypeOK, InProgress
    <2>2. evalsOverlapped' \in BOOLEAN
      BY <1>1 DEF AlertsInv, AlertsTypeOK
    <2>3. QED
      BY <2>1, <2>2 DEF AlertsInv, AlertsTypeOK
  <1>4. redisFaults' = 0 => redisFaults = 0
    BY FaultsAreCounted
  <1>5. LockIsHeld'
    <2>1. SUFFICES ASSUME redisFaults' + expiredEarly' = 0
                   PROVE  /\ ~evalsOverlapped'
                          /\ \A d \in Evaluators : evalPc'[d] # "idle" => evaluationLock' = d
      BY DEF LockIsHeld
    <2>2. redisFaults' = 0 /\ redisFaults = 0 /\ expiredEarly = 0
      BY <2>1, <1>4, FaultsAreCounted
    <2>3. ~evalsOverlapped /\ \A d \in Evaluators : evalPc[d] # "idle" => d = e
      BY <2>2, FaultsAreCounted DEF AlertsInv, LockIsHeld
    <2>4. \A d \in Evaluators : evalPc[d] \notin InProgress
      BY <2>3 DEF InProgress
    <2>5. QED
      BY <1>1, <1>2, <2>2, <2>3, <2>4
  <1>6. ~evalsOverlapped' => ~evalsOverlapped /\ \A d \in Evaluators : evalPc[d] \notin InProgress
    BY <1>1
  <1>7. OneInProgress' /\ CleanWritesKnow'
    BY <1>2, <1>6 DEF AlertsInv, OneInProgress, CleanWritesKnow, InProgress
  <1>8. FiringsAreAnnounced'
    BY <1>2, <1>6 DEF AlertsInv, FiringsAreAnnounced, Announcing
  <1>9. CountsAreExact'
    <2> SUFFICES ASSUME redisFaults' + evaluatorCrashes' = 0, ~evalsOverlapped'
                 PROVE  CountsAreExact'
      BY DEF CountsAreExact
    <2>1. redisFaults + evaluatorCrashes = 0
      BY <1>4, FaultsAreCounted
    <2>2. ~evalsOverlapped /\ \A d \in Evaluators : evalPc[d] \notin Judging
      BY <1>6 DEF Judging, InProgress
    <2>3. \A d \in Evaluators : evalPc'[d] \notin Judging
      BY <1>2, <2>2 DEF Judging
    <2>4. alert # NoAlert => alert.clean = cleanRun
      BY <2>1, <2>2 DEF AlertsInv, CountsAreExact
    <2>5. QED
      BY <2>3, <2>4 DEF CountsAreExact, Judging
  <1>10. QED
    BY <1>3, <1>5, <1>7, <1>8, <1>9 DEF AlertsInv

\* The evaluator forgets what it read.
EndOf(e) ==
    /\ evalPc' \in [Evaluators -> {"idle", "verify"} \union InProgress]
    /\ saw' \in [Evaluators -> BOOLEAN]
    /\ known' \in [Evaluators -> AlertStates \union {NoAlert}]
    /\ evalPc'[e] = "idle"
    /\ \A d \in Evaluators \ {e} :
           evalPc'[d] = evalPc[d] /\ saw'[d] = saw[d] /\ known'[d] = known[d]

LEMMA EndIsTyped ==
    ASSUME AlertsInv, NEW e \in Evaluators, End(e)
    PROVE  EndOf(e)
  <1>1. evalPc' = [evalPc EXCEPT ![e] = "idle"] /\ saw' = [saw EXCEPT ![e] = FALSE]
        /\ known' = [known EXCEPT ![e] = NoAlert]
    BY DEF End
  <1>2. /\ evalPc' \in [Evaluators -> {"idle", "verify"} \union InProgress] /\ evalPc'[e] = "idle"
        /\ \A d \in Evaluators \ {e} : evalPc'[d] = evalPc[d]
    BY <1>1 DEF AlertsInv, AlertsTypeOK
  <1>3. /\ saw' \in [Evaluators -> BOOLEAN] /\ \A d \in Evaluators \ {e} : saw'[d] = saw[d]
    BY <1>1 DEF AlertsInv, AlertsTypeOK
  <1>4. /\ known' \in [Evaluators -> AlertStates \union {NoAlert}]
        /\ \A d \in Evaluators \ {e} : known'[d] = known[d]
    BY <1>1 DEF AlertsInv, AlertsTypeOK
  <1>5. QED
    BY <1>2, <1>3, <1>4 DEF EndOf

\* The evaluation returns without a write: it was not in progress, could not
\* query or found nothing to do.
LEMMA EndPreserves ==
    ASSUME AlertsInv, NEW e \in Evaluators, End(e),
           \/ evalPc[e] \in {"verify", "query"}
           \/ evalPc[e] = "get" /\ ~saw[e] /\ alert = NoAlert,
           queryFaults' \in 0 .. MaxQueryFaults,
           UNCHANGED <<breaching, evaluationLock, alert, alertHistory, redisFaults,
                       evaluatorCrashes>>
    PROVE  AlertsInv'
  <1>1. EndOf(e)
    BY EndIsTyped
  <1>2. AlertsTypeOK'
    BY <1>1 DEF EndOf, AlertsInv, AlertsTypeOK, alertHistory
  <1>3. LockIsHeld' /\ OneInProgress' /\ CleanWritesKnow'
    BY <1>1 DEF EndOf, AlertsInv, LockIsHeld, OneInProgress, CleanWritesKnow, InProgress,
                alertHistory
  <1>4. FiringsAreAnnounced'
    BY <1>1 DEF EndOf, AlertsInv, FiringsAreAnnounced, Announcing, alertHistory
  <1>5. CountsAreExact'
    BY <1>1 DEF EndOf, AlertsInv, CountsAreExact, Judging, alertHistory
  <1>6. QED
    BY <1>2, <1>3, <1>4, <1>5 DEF AlertsInv

LEMMA VerifyLockPreserves ==
    ASSUME AlertsInv, NEW e \in Evaluators, VerifyLock(e)
    PROVE  AlertsInv'
  <1>1. CASE evaluationLock = e
    <2>1. /\ evalPc[e] = "verify" /\ Begin(e)
          /\ UNCHANGED <<breaching, evaluationLock, alert, saw, known, announced, cleanRun,
                         expiredEarly, redisFaults, queryFaults, evaluatorCrashes>>
      BY <1>1 DEF VerifyLock, alertFaults
    <2>2. /\ redisFaults' \in 0 .. MaxRedisFaults /\ redisFaults <= redisFaults'
          /\ evaluationLock' \in Evaluators \union {NoEvaluator}
      BY <2>1, FaultsAreCounted DEF AlertsInv, AlertsTypeOK
    <2>3. QED
      BY <1>1, <2>1, <2>2, BeginPreservesAlerts
  <1>2. CASE evaluationLock # e
    <2>1. /\ evalPc[e] = "verify" /\ End(e) /\ queryFaults' \in 0 .. MaxQueryFaults
          /\ UNCHANGED <<breaching, evaluationLock, alert, alertHistory, redisFaults,
                         evaluatorCrashes>>
      BY <1>2 DEF VerifyLock, alertFaults, alertHistory, AlertsInv, AlertsTypeOK
    <2>2. QED
      BY <2>1, EndPreserves
  <1>3. QED
    BY <1>1, <1>2

LEMMA LockFailsPreserves ==
    ASSUME AlertsInv, NEW e \in Evaluators, LockFails(e)
    PROVE  AlertsInv'
  <1>1. /\ redisFaults' \in 0 .. MaxRedisFaults /\ redisFaults <= redisFaults' /\ redisFaults' # 0
    BY FaultsAreCounted DEF LockFails
  <1>2. evalPc[e] \in {"idle", "verify"}
    BY DEF LockFails
  <1>3. evaluationLock' \in Evaluators \union {NoEvaluator}
    BY DEF LockFails, AlertsInv, AlertsTypeOK
  <1>4. Begin(e) /\ UNCHANGED <<breaching, alert, saw, known, announced, cleanRun, expiredEarly,
                                queryFaults, evaluatorCrashes>>
    BY DEF LockFails
  <1>5. QED
    BY <1>1, <1>2, <1>3, <1>4, BeginPreservesAlerts

LEMMA LockExpiresPreserves ==
    ASSUME AlertsInv, LockExpires
    PROVE  AlertsInv'
  <1>1. /\ evaluationLock # NoEvaluator /\ evaluationLock' = NoEvaluator
        /\ UNCHANGED <<breaching, alert, evalPc, saw, known, announced, cleanRun,
                       evalsOverlapped, redisFaults, queryFaults, evaluatorCrashes>>
        /\ \/ evalPc[evaluationLock] = "idle" /\ expiredEarly' = expiredEarly
           \/ expiredEarly' = expiredEarly + 1 /\ expiredEarly < MaxEarlyExpiries
    BY DEF LockExpires, evalVars, alertFaults
  <1>2. evaluationLock \in Evaluators /\ expiredEarly' \in 0 .. MaxEarlyExpiries
    BY <1>1, FaultsAreCounted DEF AlertsInv, AlertsTypeOK
  <1>3. AlertsTypeOK'
    BY <1>1, <1>2 DEF AlertsInv, AlertsTypeOK
  <1>4. LockIsHeld'
    <2>1. SUFFICES ASSUME redisFaults + expiredEarly' = 0
                   PROVE  ~evalsOverlapped /\ \A e \in Evaluators : evalPc[e] = "idle"
      BY <1>1 DEF LockIsHeld
    <2>2. evalPc[evaluationLock] = "idle" /\ redisFaults + expiredEarly = 0
      BY <1>1, <2>1, FaultsAreCounted
    <2>3. QED
      BY <1>2, <2>2 DEF AlertsInv, LockIsHeld
  <1>5. OneInProgress' /\ CleanWritesKnow' /\ FiringsAreAnnounced' /\ CountsAreExact'
    BY <1>1 DEF AlertsInv, OneInProgress, CleanWritesKnow, FiringsAreAnnounced, Announcing,
                CountsAreExact
  <1>6. QED
    BY <1>3, <1>4, <1>5 DEF AlertsInv

-----------------------------------------------------------------------------
LEMMA QueryPreserves ==
    ASSUME AlertsInv, NEW e \in Evaluators, Query(e)
    PROVE  AlertsInv'
  <1>1. /\ evalPc[e] = "query" /\ evalPc' = [evalPc EXCEPT ![e] = "get"]
        /\ saw' = [saw EXCEPT ![e] = breaching]
        /\ cleanRun' = IF breaching THEN 0
                       ELSE IF cleanRun < Windows THEN cleanRun + 1 ELSE cleanRun
        /\ UNCHANGED <<breaching, evaluationLock, alert, known, announced, evalsOverlapped,
                       expiredEarly, redisFaults, queryFaults, evaluatorCrashes>>
    BY DEF Query, alertFaults
  <1>2. /\ evalPc'[e] = "get" /\ saw'[e] = breaching
        /\ \A d \in Evaluators \ {e} : evalPc'[d] = evalPc[d] /\ saw'[d] = saw[d]
    BY <1>1 DEF AlertsInv, AlertsTypeOK
  <1>3. AlertsTypeOK'
    <2>1. evalPc' \in [Evaluators -> {"idle", "verify"} \union InProgress]
      BY <1>1 DEF AlertsInv, AlertsTypeOK, InProgress
    <2>2. saw' \in [Evaluators -> BOOLEAN]
      BY <1>1 DEF AlertsInv, AlertsTypeOK
    <2>3. cleanRun' \in 0 .. Windows
      BY <1>1, AlertsAssumption DEF AlertsInv, AlertsTypeOK
    <2>4. QED
      BY <1>1, <2>1, <2>2, <2>3 DEF AlertsInv, AlertsTypeOK
  <1>4. LockIsHeld' /\ OneInProgress' /\ CleanWritesKnow'
    BY <1>1, <1>2 DEF AlertsInv, LockIsHeld, OneInProgress, CleanWritesKnow, InProgress
  <1>5. FiringsAreAnnounced'
    BY <1>1, <1>2 DEF AlertsInv, FiringsAreAnnounced, Announcing
  <1>6. ~evalsOverlapped => \A d \in Evaluators \ {e} : evalPc[d] \notin Judging
    BY <1>1 DEF AlertsInv, OneInProgress, InProgress, Judging
  <1>7. CountsAreExact'
    <2>1. SUFFICES ASSUME redisFaults + evaluatorCrashes = 0, ~evalsOverlapped
                   PROVE  /\ ~breaching /\ alert # NoAlert => cleanRun' = alert.clean + 1
                          /\ breaching => cleanRun' = 0
      BY <1>1, <1>2, <1>6 DEF CountsAreExact, Judging
    <2>2. alert # NoAlert => alert.clean = cleanRun /\ cleanRun < Windows
      BY <1>1, <1>6, <2>1, AlertsAssumption
      DEF AlertsInv, AlertsTypeOK, AlertStates, CountsAreExact, Judging
    <2>3. QED
      BY <1>1, <2>2
  <1>8. QED
    BY <1>3, <1>4, <1>5, <1>7 DEF AlertsInv

\* An evaluation that has nothing to write reads no state.
LEMMA GetPreserves ==
    ASSUME AlertsInv, NEW e \in Evaluators, Get(e)
    PROVE  AlertsInv'
  <1>1. CASE ~saw[e] /\ alert = NoAlert
    <2>1. /\ evalPc[e] = "get" /\ End(e) /\ queryFaults' \in 0 .. MaxQueryFaults
          /\ UNCHANGED <<breaching, evaluationLock, alert, alertHistory, redisFaults,
                         evaluatorCrashes>>
      BY <1>1 DEF Get, alertFaults, AlertsInv, AlertsTypeOK
    <2>2. QED
      BY <1>1, <2>1, EndPreserves
  <1>2. CASE ~(~saw[e] /\ alert = NoAlert)
    <2>1. /\ evalPc[e] = "get" /\ evalPc' = [evalPc EXCEPT ![e] = "write"]
          /\ known' = [known EXCEPT ![e] = alert]
          /\ UNCHANGED <<breaching, evaluationLock, alert, saw, announced, cleanRun,
                         evalsOverlapped, expiredEarly, redisFaults, queryFaults, evaluatorCrashes>>
      BY <1>2 DEF Get, alertHistory, alertFaults
    <2>2. /\ evalPc'[e] = "write" /\ known'[e] = alert
          /\ \A d \in Evaluators \ {e} : evalPc'[d] = evalPc[d] /\ known'[d] = known[d]
      BY <2>1 DEF AlertsInv, AlertsTypeOK
    <2>3. AlertsTypeOK'
      <3>1. evalPc' \in [Evaluators -> {"idle", "verify"} \union InProgress]
        BY <2>1 DEF AlertsInv, AlertsTypeOK, InProgress
      <3>2. known' \in [Evaluators -> AlertStates \union {NoAlert}]
        BY <2>1 DEF AlertsInv, AlertsTypeOK
      <3>3. QED
        BY <2>1, <3>1, <3>2 DEF AlertsInv, AlertsTypeOK
    <2>4. LockIsHeld' /\ OneInProgress' /\ CleanWritesKnow'
      BY <1>2, <2>1, <2>2 DEF AlertsInv, LockIsHeld, OneInProgress, CleanWritesKnow, InProgress
    <2>5. ~evalsOverlapped => \A d \in Evaluators \ {e} : evalPc[d] \notin Judging
      BY <2>1 DEF AlertsInv, OneInProgress, InProgress, Judging
    <2>6. FiringsAreAnnounced'
      BY <2>1, <2>2, <2>5 DEF AlertsInv, FiringsAreAnnounced, Announcing, Judging
    <2>7. CountsAreExact'
      BY <1>2, <2>1, <2>2, <2>5 DEF AlertsInv, CountsAreExact, Judging
    <2>8. QED
      BY <2>3, <2>4, <2>6, <2>7 DEF AlertsInv
  <1>3. QED
    BY <1>1, <1>2

\* The evaluation of this evaluator is the only one, unless some overlapped.
LEMMA AloneInProgress ==
    ASSUME AlertsInv, NEW e \in Evaluators, evalPc[e] \in InProgress, ~evalsOverlapped
    PROVE  \A d \in Evaluators \ {e} : evalPc[d] \notin InProgress
  BY DEF AlertsInv, OneInProgress

LEMMA StoreIsTyped ==
    ASSUME AlertsInv, NEW e \in Evaluators, evalPc[e] = "write"
    PROVE  /\ Written(e) \in AlertStates \union {NoAlert}
           /\ saw[e] => Written(e).clean = 0
           /\ ~saw[e] => known[e] # NoAlert /\ known[e] \in AlertStates
           /\ ~saw[e] /\ Recovers(e) => Written(e) = NoAlert
           /\ ~saw[e] /\ ~Recovers(e) => Written(e).clean = known[e].clean + 1
           /\ ~saw[e] /\ Recovers(e) => known[e].clean + 1 = Windows
  <1>1. Firing(e) \in AlertStates /\ Firing(e).clean = 0
    BY AlertsAssumption DEF Firing, AlertStates
  <1>2. ~saw[e] => known[e] # NoAlert /\ known[e] \in AlertStates
    BY DEF AlertsInv, AlertsTypeOK, CleanWritesKnow
  <1>3. CASE saw[e]
    BY <1>1, <1>3 DEF Written
  <1>4. CASE ~saw[e] /\ Recovers(e)
    <2>1. known[e].clean \in 0 .. Windows - 1 /\ known[e].clean + 1 >= Windows
      BY <1>2, <1>4 DEF AlertStates, Recovers
    <2>2. QED
      BY <1>2, <1>4, <2>1, AlertsAssumption DEF Written
  <1>5. CASE ~saw[e] /\ ~Recovers(e)
    <2>1. known[e].clean \in 0 .. Windows - 1 /\ ~(known[e].clean + 1 >= Windows)
      BY <1>2, <1>5 DEF AlertStates, Recovers
    <2>2. Written(e) = [known[e] EXCEPT !.clean = @ + 1]
      BY <1>5 DEF Written
    <2>3. known[e].clean + 1 \in 0 .. Windows - 1
      BY <2>1, AlertsAssumption
    <2>4. QED
      BY <1>2, <1>5, <2>2, <2>3 DEF AlertStates
  <1>6. QED
    BY <1>3, <1>4, <1>5

LEMMA StorePreserves ==
    ASSUME AlertsInv, NEW e \in Evaluators, StoreState(e)
    PROVE  AlertsInv'
  <1>1. /\ evalPc[e] = "write" /\ alert' = Written(e)
        /\ UNCHANGED <<breaching, evaluationLock, announced, cleanRun, evalsOverlapped,
                       expiredEarly, redisFaults, queryFaults, evaluatorCrashes>>
    BY DEF StoreState, alertHistory, alertFaults
  <1>2. ~evalsOverlapped => \A d \in Evaluators \ {e} : evalPc[d] \notin InProgress
    BY <1>1, AloneInProgress DEF InProgress
  <1>3. alert' \in AlertStates \union {NoAlert}
    BY <1>1, StoreIsTyped
  <1>4. (evaluatorCrashes = 0 /\ ~evalsOverlapped /\ known[e] # NoAlert) => announced = "firing"
    BY <1>1 DEF AlertsInv, FiringsAreAnnounced
  <1>5. (redisFaults + evaluatorCrashes = 0 /\ ~evalsOverlapped) =>
            /\ saw[e] => cleanRun = 0
            /\ ~saw[e] => cleanRun = known[e].clean + 1
    BY <1>1 DEF AlertsInv, CountsAreExact, Judging
  <1>6. CASE Tells(e)
    <2>1. evalPc' = [evalPc EXCEPT ![e] = "emit"] /\ UNCHANGED <<saw, known>>
      BY <1>6 DEF StoreState
    <2>2. evalPc'[e] = "emit" /\ \A d \in Evaluators \ {e} : evalPc'[d] = evalPc[d]
      BY <2>1 DEF AlertsInv, AlertsTypeOK
    <2>3. evalPc' \in [Evaluators -> {"idle", "verify"} \union InProgress]
      BY <2>1 DEF AlertsInv, AlertsTypeOK, InProgress
    <2>4. AlertsTypeOK'
      BY <1>1, <1>3, <2>1, <2>3 DEF AlertsInv, AlertsTypeOK
    <2>5. LockIsHeld' /\ OneInProgress' /\ CleanWritesKnow'
      BY <1>1, <2>1, <2>2
      DEF AlertsInv, LockIsHeld, OneInProgress, CleanWritesKnow, InProgress
    <2>6. ~saw[e] => Recovers(e)
      BY <1>6 DEF Tells
    <2>7. FiringsAreAnnounced'
      BY <1>1, <1>2, <1>4, <2>1, <2>2, <2>6, StoreIsTyped
      DEF FiringsAreAnnounced, Announcing, InProgress
    <2>8. CountsAreExact'
      BY <1>1, <1>2, <1>5, <2>1, <2>2, <2>6, StoreIsTyped DEF CountsAreExact, Judging, InProgress
    <2>9. QED
      BY <2>4, <2>5, <2>7, <2>8 DEF AlertsInv
  <1>7. CASE ~Tells(e)
    <2>1. EndOf(e)
      BY <1>7, EndIsTyped DEF StoreState
    <2>2. AlertsTypeOK'
      BY <1>1, <1>3, <2>1 DEF EndOf, AlertsInv, AlertsTypeOK
    <2>3. LockIsHeld' /\ OneInProgress' /\ CleanWritesKnow'
      BY <1>1, <2>1
      DEF EndOf, AlertsInv, LockIsHeld, OneInProgress, CleanWritesKnow, InProgress
    <2>4. (saw[e] => known[e] # NoAlert) /\ (~saw[e] => ~Recovers(e))
      BY <1>7 DEF Tells, Suppressed
    <2>5. FiringsAreAnnounced'
      BY <1>1, <1>2, <1>4, <2>1, <2>4, StoreIsTyped
      DEF EndOf, FiringsAreAnnounced, Announcing, InProgress
    <2>6. CountsAreExact'
      BY <1>1, <1>2, <1>5, <2>1, <2>4, StoreIsTyped
      DEF EndOf, CountsAreExact, Judging, InProgress
    <2>7. QED
      BY <2>2, <2>3, <2>5, <2>6 DEF AlertsInv
  <1>8. QED
    BY <1>6, <1>7

\* A command of the state fails: a breach is announced, a recovery is not.
LEMMA StateFailsPreserves ==
    ASSUME AlertsInv, NEW e \in Evaluators, StateFails(e)
    PROVE  AlertsInv'
  <1>1. /\ evalPc[e] \in {"get", "write"} /\ redisFaults' \in 0 .. MaxRedisFaults
        /\ redisFaults' # 0
        /\ UNCHANGED <<breaching, evaluationLock, announced, cleanRun, evalsOverlapped,
                       expiredEarly, queryFaults, evaluatorCrashes>>
    BY FaultsAreCounted DEF StateFails, alertHistory
  <1>2. /\ alert' = alert \/ (evalPc[e] = "write" /\ alert' = Written(e))
        /\ alert' \in AlertStates \union {NoAlert}
    BY StoreIsTyped DEF StateFails, AlertsInv, AlertsTypeOK
  <1>3. ~evalsOverlapped => \A d \in Evaluators \ {e} : evalPc[d] \notin InProgress
    BY <1>1, AloneInProgress DEF InProgress
  <1>4. LockIsHeld' /\ CountsAreExact'
    BY <1>1, FaultsAreCounted DEF LockIsHeld, CountsAreExact
  <1>5. CASE saw[e]
    <2>1. evalPc' = [evalPc EXCEPT ![e] = "emit"] /\ UNCHANGED <<saw, known>>
      BY <1>5 DEF StateFails, FailsOpen
    <2>2. evalPc'[e] = "emit" /\ \A d \in Evaluators \ {e} : evalPc'[d] = evalPc[d]
      BY <2>1 DEF AlertsInv, AlertsTypeOK
    <2>3. evalPc' \in [Evaluators -> {"idle", "verify"} \union InProgress]
      BY <2>1 DEF AlertsInv, AlertsTypeOK, InProgress
    <2>4. AlertsTypeOK'
      BY <1>1, <1>2, <2>1, <2>3 DEF AlertsInv, AlertsTypeOK
    <2>5. OneInProgress' /\ CleanWritesKnow'
      BY <1>1, <2>1, <2>2 DEF AlertsInv, OneInProgress, CleanWritesKnow, InProgress
    <2>6. FiringsAreAnnounced'
      BY <1>1, <1>3, <1>5, <2>1, <2>2 DEF FiringsAreAnnounced, Announcing, InProgress
    <2>7. QED
      BY <1>4, <2>4, <2>5, <2>6 DEF AlertsInv
  <1>6. CASE ~saw[e]
    <2>1. EndOf(e)
      BY <1>6, EndIsTyped DEF StateFails, FailsOpen
    <2>2. AlertsTypeOK'
      BY <1>1, <1>2, <2>1 DEF EndOf, AlertsInv, AlertsTypeOK
    <2>3. OneInProgress' /\ CleanWritesKnow'
      BY <1>1, <2>1 DEF EndOf, AlertsInv, OneInProgress, CleanWritesKnow, InProgress
    <2>4. FiringsAreAnnounced'
      <3>1. SUFFICES ASSUME evaluatorCrashes = 0, ~evalsOverlapped
                     PROVE  alert' # NoAlert => announced = "firing"
        BY <1>1, <1>3, <2>1 DEF EndOf, FiringsAreAnnounced, Announcing, InProgress
      <3>2. CASE evalPc[e] = "get"
        BY <1>2, <1>3, <1>6, <3>1, <3>2
        DEF AlertsInv, FiringsAreAnnounced, Announcing, InProgress
      <3>3. CASE evalPc[e] = "write"
        BY <1>6, <3>1, <3>3, StoreIsTyped DEF AlertsInv, FiringsAreAnnounced
      <3>4. QED
        BY <1>1, <3>2, <3>3
    <2>5. QED
      BY <1>4, <2>2, <2>3, <2>4 DEF AlertsInv
  <1>7. QED
    BY <1>5, <1>6

LEMMA EmitPreserves ==
    ASSUME AlertsInv, NEW e \in Evaluators, Emit(e)
    PROVE  AlertsInv'
  <1>1. /\ evalPc[e] = "emit" /\ announced' = IF saw[e] THEN "firing" ELSE "recovered"
        /\ UNCHANGED <<breaching, evaluationLock, alert, cleanRun, evalsOverlapped,
                       expiredEarly, redisFaults, queryFaults, evaluatorCrashes>>
    BY DEF Emit, alertFaults
  <1>2. EndOf(e)
    BY EndIsTyped DEF Emit
  <1>3. ~evalsOverlapped => \A d \in Evaluators \ {e} : evalPc[d] \notin InProgress
    BY <1>1, AloneInProgress DEF InProgress
  <1>4. AlertsTypeOK'
    BY <1>1, <1>2 DEF EndOf, AlertsInv, AlertsTypeOK
  <1>5. LockIsHeld' /\ OneInProgress' /\ CleanWritesKnow'
    BY <1>1, <1>2 DEF EndOf, AlertsInv, LockIsHeld, OneInProgress, CleanWritesKnow, InProgress
  <1>6. FiringsAreAnnounced'
    BY <1>1, <1>2, <1>3 DEF EndOf, AlertsInv, FiringsAreAnnounced, Announcing, InProgress
  <1>7. CountsAreExact'
    BY <1>1, <1>2, <1>3, FaultsAreCounted
    DEF EndOf, AlertsInv, FiringsAreAnnounced, CountsAreExact, Judging, InProgress
  <1>8. QED
    BY <1>4, <1>5, <1>6, <1>7 DEF AlertsInv

\* An evaluation that dies may leave a firing unannounced and a clean one uncounted.
LEMMA CrashPreserves ==
    ASSUME AlertsInv, NEW e \in Evaluators, EvaluatorCrash(e)
    PROVE  AlertsInv'
  <1>1. /\ evaluatorCrashes' \in 0 .. MaxEvaluatorCrashes /\ evaluatorCrashes' # 0
        /\ UNCHANGED <<breaching, evaluationLock, alert, announced, cleanRun, evalsOverlapped,
                       expiredEarly, redisFaults, queryFaults>>
    BY FaultsAreCounted DEF EvaluatorCrash, alertHistory
  <1>2. EndOf(e)
    BY EndIsTyped DEF EvaluatorCrash
  <1>3. AlertsTypeOK'
    BY <1>1, <1>2 DEF EndOf, AlertsInv, AlertsTypeOK
  <1>4. LockIsHeld' /\ OneInProgress' /\ CleanWritesKnow'
    BY <1>1, <1>2 DEF EndOf, AlertsInv, LockIsHeld, OneInProgress, CleanWritesKnow, InProgress
  <1>5. FiringsAreAnnounced' /\ CountsAreExact'
    BY <1>1, FaultsAreCounted DEF FiringsAreAnnounced, CountsAreExact
  <1>6. QED
    BY <1>3, <1>4, <1>5 DEF AlertsInv

-----------------------------------------------------------------------------
LEMMA TimePreserves ==
    ASSUME AlertsInv, CooldownElapses \/ StateExpires \/ LoadChanges
    PROVE  AlertsInv'
  <1>1. UNCHANGED <<evaluationLock, evalPc, saw, announced, cleanRun, evalsOverlapped,
                    expiredEarly, redisFaults, queryFaults, evaluatorCrashes>>
    BY DEF CooldownElapses, StateExpires, LoadChanges, evalVars, alertHistory, alertFaults
  <1>2. /\ alert' \in AlertStates \union {NoAlert}
        /\ known' \in [Evaluators -> AlertStates \union {NoAlert}]
        /\ breaching' \in BOOLEAN
        /\ alert' # NoAlert => alert # NoAlert /\ alert'.clean = alert.clean
        /\ \A e \in Evaluators : /\ known'[e] = NoAlert <=> known[e] = NoAlert
                                 /\ known[e] # NoAlert => known'[e].clean = known[e].clean
    <2>1. CASE StateExpires \/ LoadChanges
      BY <2>1 DEF StateExpires, LoadChanges, evalVars, AlertsInv, AlertsTypeOK
    <2>2. CASE CooldownElapses
      <3>1. /\ UNCHANGED breaching /\ alert' = [alert EXCEPT !.recent = FALSE]
            /\ alert # NoAlert
            /\ known' = [e \in Evaluators |-> IF known[e] = NoAlert THEN known[e]
                                              ELSE [known[e] EXCEPT !.recent = FALSE]]
        BY <2>2 DEF CooldownElapses
      <3>2. \A a \in AlertStates : /\ [a EXCEPT !.recent = FALSE] \in AlertStates
                                   /\ [a EXCEPT !.recent = FALSE].clean = a.clean
        BY DEF AlertStates
      <3>3. alert \in AlertStates /\ \A e \in Evaluators : known[e] \in AlertStates \union {NoAlert}
        BY <3>1 DEF AlertsInv, AlertsTypeOK
      <3>4. QED
        BY <3>1, <3>2, <3>3, NoAlertAssumption DEF AlertsInv, AlertsTypeOK
    <2>3. QED
      BY <2>1, <2>2
  <1>3. AlertsTypeOK'
    BY <1>1, <1>2 DEF AlertsInv, AlertsTypeOK
  <1>4. LockIsHeld' /\ OneInProgress' /\ CleanWritesKnow'
    BY <1>1, <1>2 DEF AlertsInv, LockIsHeld, OneInProgress, CleanWritesKnow
  <1>5. FiringsAreAnnounced'
    BY <1>1, <1>2 DEF AlertsInv, FiringsAreAnnounced, Announcing
  <1>6. CountsAreExact'
    BY <1>1, <1>2 DEF AlertsInv, CleanWritesKnow, CountsAreExact, Judging
  <1>7. QED
    BY <1>3, <1>4, <1>5, <1>6 DEF AlertsInv

LEMMA AlertsStepPreserves == AlertsInv /\ [AlertsNext]_alertVars => AlertsInv'
  <1> SUFFICES ASSUME AlertsInv, [AlertsNext]_alertVars PROVE AlertsInv'
    OBVIOUS
  <1>1. ASSUME NEW e \in Evaluators, Evaluating(e) PROVE AlertsInv'
    BY <1>1, TakeLockPreserves, VerifyLockPreserves, QueryPreserves, GetPreserves,
       StorePreserves, EmitPreserves DEF Evaluating
  <1>2. ASSUME NEW e \in Evaluators, QueryFails(e) PROVE AlertsInv'
    <2>1. /\ evalPc[e] = "query" /\ End(e) /\ queryFaults' \in 0 .. MaxQueryFaults
          /\ UNCHANGED <<breaching, evaluationLock, alert, alertHistory, redisFaults,
                         evaluatorCrashes>>
      BY <1>2, FaultsAreCounted DEF QueryFails
    <2>2. QED
      BY <2>1, EndPreserves
  <1>3. ASSUME NEW e \in Evaluators, LockFails(e) \/ StateFails(e) \/ EvaluatorCrash(e)
        PROVE  AlertsInv'
    BY <1>3, LockFailsPreserves, StateFailsPreserves, CrashPreserves
  <1>4. CASE LockExpires \/ CooldownElapses \/ StateExpires \/ LoadChanges
    BY <1>4, LockExpiresPreserves, TimePreserves
  <1>5. CASE UNCHANGED alertVars
    BY <1>5 DEF alertVars, evalVars, alertHistory, alertFaults, AlertsInv, AlertsTypeOK,
                LockIsHeld, OneInProgress, CleanWritesKnow, FiringsAreAnnounced, Announcing,
                CountsAreExact
  <1>6. QED
    BY <1>1, <1>2, <1>3, <1>4, <1>5 DEF AlertsNext

LEMMA AlertsInvariant == AlertsSpec => []AlertsInv
  BY InitEstablishesAlerts, AlertsStepPreserves, PTL DEF AlertsSpec

-----------------------------------------------------------------------------
\* The state in Redis and the locals of the evaluations keep their types; a
\* recovery never writes a count past the last window.
THEOREM AlertsAreTyped == AlertsSpec => []AlertsTypeOK
  <1>1. AlertsInv => AlertsTypeOK
    BY DEF AlertsInv
  <1>2. QED
    BY <1>1, AlertsInvariant, PTL

\* Two instances evaluate together only after a failed lock command or a lock
\* that expired under its holder.
THEOREM EvaluationsAreExclusive == AlertsSpec => []LockExcludes
  <1>1. AlertsInv => LockExcludes
    BY FaultsAreCounted DEF AlertsInv, LockIsHeld, LockExcludes
  <1>2. QED
    BY <1>1, AlertsInvariant, PTL

\* A recovery is told only of a firing that was told, after exactly Windows
\* clean evaluations.
THEOREM RecoveriesAreEarned == AlertsSpec => []RecoveryIsEarned
  <1>1. AlertsInv => RecoveryIsEarned
    BY FaultsAreCounted DEF AlertsInv, FiringsAreAnnounced, CountsAreExact, RecoveryIsEarned
  <1>2. QED
    BY <1>1, AlertsInvariant, PTL

\* A state that suppresses breaches stands for a firing that was or is being
\* told, whatever Redis commands fail.
THEOREM SilenceWasAnnounced == AlertsSpec => []SuppressionWasAnnounced
  <1>1. AlertsInv => SuppressionWasAnnounced
    BY DEF AlertsInv, FiringsAreAnnounced, Announcing, SuppressionWasAnnounced
  <1>2. QED
    BY <1>1, AlertsInvariant, PTL

\* Neither a recovery nor a silence comes without what justifies it, and one
\* evaluation works at a time.
THEOREM WarrantedAlways == AlertsSpec => []AnnouncementsAreWarranted
  <1>1. LockExcludes /\ RecoveryIsEarned /\ SuppressionWasAnnounced => AnnouncementsAreWarranted
    BY DEF AnnouncementsAreWarranted
  <1>2. QED
    BY <1>1, EvaluationsAreExclusive, RecoveriesAreEarned, SilenceWasAnnounced, PTL

-----------------------------------------------------------------------------
(* Notifications *)

\* What a request has a record for, or nothing to record for.
TopicsAreKnown ==
    \A n \in Notifiers :
        /\ notifyPc[n] = "idle" => topic[n] = NoTopic
        /\ notifyPc[n] \in {"find", "create", "record"} => topic[n] \in Topics
        /\ notifyPc[n] = "results" =>
               \A r \in Recipients : <<r, FALSE>> \in results[n] => topic[n] \in records

PushersOwnTheirRecord ==
    \A n \in Notifiers : notifyPc[n] = "push" /\ topic[n] # NoTopic =>
        /\ topic[n] \in records /\ pushes[topic[n]] = 0
        /\ \A m \in Notifiers : m # n /\ notifyPc[m] = "push" => topic[m] # topic[n]

Pending(r) == \E n \in Notifiers : notifyPc[n] = "results" /\ \E ok \in BOOLEAN : <<r, ok>> \in results[n]

ResultsArePending ==
    (notifyFaults = 0 /\ ~pushesOverlapped) =>
        /\ \A m, n \in Notifiers :
               notifyPc[m] = "results" /\ notifyPc[n] = "results" => m = n
        /\ \A n \in Notifiers, r \in Recipients : notifyPc[n] = "results" =>
               /\ <<r, TRUE>> \in results[n] => r \notin unreached
               /\ <<r, FALSE>> \in results[n] => r \in unreached
        /\ \A r \in Recipients : ~Pending(r) => (unresolved[r] # {} <=> r \in unreached)

CenterInv ==
    /\ NotificationsTypeOK /\ PushedOnce
    /\ TopicsAreKnown /\ PushersOwnTheirRecord /\ ResultsArePending

-----------------------------------------------------------------------------
LEMMA InitEstablishesCenter == CenterInit => CenterInv
  <1> SUFFICES ASSUME CenterInit PROVE CenterInv
    OBVIOUS
  <1>1. 0 \in 0 .. MaxCenterEdits /\ 0 \in 0 .. MaxNotifyFaults /\ 0 \in 0 .. MaxTests
    BY CenterAssumption
  <1>2. Defaults \in Settings
    BY DEF Defaults, Settings
  <1>3. NotificationsTypeOK
    <2>1. /\ center \in Settings \union {NoCenter} /\ records \subseteq Topics
          /\ unresolved \in [Recipients -> SUBSET Topics]
          /\ \A r \in Recipients : unresolved[r] \subseteq records
      BY DEF CenterInit
    <2>2. /\ notifyPc \in [Notifiers -> {"idle", "find", "create", "record", "push", "results"}]
          /\ topic \in [Notifiers -> Topics \union {NoTopic}]
          /\ setting \in [Notifiers -> Settings]
          /\ results \in [Notifiers -> SUBSET (Recipients \X BOOLEAN)]
      BY <1>2 DEF CenterInit
    <2>3. /\ pushes = [t \in Topics |-> 0] /\ 0 \in 0 .. 2 /\ unreached \subseteq Recipients
      BY DEF CenterInit
    <2>4. pushes \in [Topics -> 0 .. 2]
      BY <2>3
    <2>5. QED
      BY <1>1, <2>1, <2>2, <2>3, <2>4 DEF CenterInit, NotificationsTypeOK
  <1>4. PushedOnce /\ TopicsAreKnown /\ PushersOwnTheirRecord
    BY DEF CenterInit, PushedOnce, TopicsAreKnown, PushersOwnTheirRecord
  <1>5. ResultsArePending
    BY DEF CenterInit, ResultsArePending, Pending
  <1>6. QED
    BY <1>3, <1>4, <1>5 DEF CenterInv

\* The request n takes a step to s that writes no failure and pushes nothing.
Moves(n, s) ==
    /\ notifyPc' \in [Notifiers -> {"idle", "find", "create", "record", "push", "results"}]
    /\ topic' \in [Notifiers -> Topics \union {NoTopic}]
    /\ setting' \in [Notifiers -> Settings]
    /\ results' \in [Notifiers -> SUBSET (Recipients \X BOOLEAN)]
    /\ notifyPc'[n] = s /\ (s = "idle" => topic'[n] = NoTopic)
    /\ \A m \in Notifiers \ {n} :
           notifyPc'[m] = notifyPc[m] /\ topic'[m] = topic[m] /\ results'[m] = results[m]

LEMMA FinishMoves ==
    ASSUME CenterInv, NEW n \in Notifiers, Finish(n)
    PROVE  Moves(n, "idle")
  <1>1. Defaults \in Settings
    BY DEF Defaults, Settings
  <1>2. /\ notifyPc' = [notifyPc EXCEPT ![n] = "idle"] /\ topic' = [topic EXCEPT ![n] = NoTopic]
        /\ setting' = [setting EXCEPT ![n] = Defaults] /\ results' = [results EXCEPT ![n] = {}]
    BY DEF Finish
  <1>3. notifyPc' \in [Notifiers -> {"idle", "find", "create", "record", "push", "results"}]
    BY <1>2 DEF CenterInv, NotificationsTypeOK
  <1>4. /\ topic' \in [Notifiers -> Topics \union {NoTopic}] /\ setting' \in [Notifiers -> Settings]
        /\ results' \in [Notifiers -> SUBSET (Recipients \X BOOLEAN)]
    BY <1>1, <1>2 DEF CenterInv, NotificationsTypeOK
  <1>5. QED
    BY <1>2, <1>3, <1>4 DEF CenterInv, NotificationsTypeOK, Moves

\* Resolve ends the request or lets it go on to the record.
LEMMA ResolveMoves ==
    ASSUME CenterInv, NEW n \in Notifiers, NEW s \in Settings, Resolve(n, s)
    PROVE  Moves(n, "idle") \/ (Moves(n, "record") /\ topic' = topic)
  <1>1. CASE topic[n] \in Quiet /\ s.strict
    BY <1>1, FinishMoves DEF Resolve
  <1>2. CASE ~(topic[n] \in Quiet /\ s.strict)
    <2>1. /\ setting' = [setting EXCEPT ![n] = s] /\ notifyPc' = [notifyPc EXCEPT ![n] = "record"]
          /\ topic' = topic /\ results' = results
      BY <1>2 DEF Resolve
    <2>2. QED
      BY <2>1 DEF CenterInv, NotificationsTypeOK, Moves
  <1>3. QED
    BY <1>1, <1>2

\* Steps of a request before its push, and its end.
LEMMA QuietStepPreserves ==
    ASSUME CenterInv, NEW n \in Notifiers,
           \/ Moves(n, "idle") /\ (notifyPc[n] # "results" \/ results[n] = {})
           \/ /\ notifyPc[n] \notin {"push", "results"} /\ topic'[n] \in Topics
              /\ Moves(n, "find") \/ Moves(n, "create") \/ Moves(n, "record"),
           center' \in Settings \union {NoCenter},
           UNCHANGED <<records, unresolved, centerHistory>>
    PROVE  CenterInv'
  <1>1. NotificationsTypeOK'
    BY DEF Moves, CenterInv, NotificationsTypeOK, centerHistory
  <1>a. PushedOnce'
    BY DEF CenterInv, PushedOnce, centerHistory
  <1>b. TopicsAreKnown'
    BY DEF Moves, CenterInv, TopicsAreKnown
  <1>c. PushersOwnTheirRecord'
    <2>1. \A m \in Notifiers :
              notifyPc'[m] = "push" => notifyPc[m] = "push" /\ topic'[m] = topic[m]
      BY DEF Moves
    <2>2. QED
      BY <2>1 DEF CenterInv, PushersOwnTheirRecord, centerHistory
  <1>2. PushedOnce' /\ TopicsAreKnown' /\ PushersOwnTheirRecord'
    BY <1>a, <1>b, <1>c
  <1>3. \A r \in Recipients : Pending(r)' <=> Pending(r)
    BY DEF Moves, CenterInv, NotificationsTypeOK, Pending
  <1>4. ResultsArePending'
    <2>1. \A m \in Notifiers :
              notifyPc'[m] = "results" => notifyPc[m] = "results" /\ results'[m] = results[m]
      BY DEF Moves
    <2>2. SUFFICES ASSUME notifyFaults = 0, ~pushesOverlapped
                   PROVE  ResultsArePending'
      BY DEF ResultsArePending, centerHistory
    <2>3. \A r \in Recipients : ~Pending(r)' => (unresolved'[r] # {} <=> r \in unreached')
      BY <1>3, <2>2 DEF CenterInv, ResultsArePending, centerHistory
    <2>4. \A l, m \in Notifiers : notifyPc'[l] = "results" /\ notifyPc'[m] = "results" => l = m
      BY <2>1, <2>2 DEF CenterInv, ResultsArePending
    <2>5. \A m \in Notifiers, r \in Recipients : notifyPc'[m] = "results" =>
              /\ <<r, TRUE>> \in results'[m] => r \notin unreached'
              /\ <<r, FALSE>> \in results'[m] => r \in unreached'
      BY <2>1, <2>2 DEF CenterInv, ResultsArePending, centerHistory
    <2>6. QED
      BY <2>3, <2>4, <2>5 DEF ResultsArePending
  <1>5. QED
    BY <1>1, <1>2, <1>4 DEF CenterInv

LEMMA BeforeRecordPreserves ==
    ASSUME CenterInv, NEW n \in Notifiers,
           FindCenter(n) \/ CreateCenter(n) \/ FinishNotify(n) \/ \E t \in Topics : Notify(n, t)
    PROVE  CenterInv'
  <1>1. CASE \E t \in Topics : Notify(n, t)
    <2>1. PICK t \in Topics : Notify(n, t)
      BY <1>1
    <2>2. /\ notifyPc[n] = "idle" /\ notifyPc' = [notifyPc EXCEPT ![n] = "find"]
          /\ topic' = [topic EXCEPT ![n] = t]
          /\ UNCHANGED <<center, records, unresolved, setting, results, centerHistory>>
      BY <2>1 DEF Notify
    <2>3. Moves(n, "find") /\ topic'[n] \in Topics
      BY <2>2 DEF Moves, CenterInv, NotificationsTypeOK
    <2>4. QED
      BY <2>2, <2>3, QuietStepPreserves DEF CenterInv, NotificationsTypeOK
  <1>2. CASE FindCenter(n) /\ center = NoCenter
    <2>1. /\ notifyPc[n] = "find" /\ notifyPc' = [notifyPc EXCEPT ![n] = "create"]
          /\ UNCHANGED <<topic, setting, results, center, records, unresolved, centerHistory>>
      BY <1>2 DEF FindCenter
    <2>2. Moves(n, "create") /\ topic'[n] \in Topics
      BY <2>1 DEF Moves, CenterInv, NotificationsTypeOK, TopicsAreKnown
    <2>3. QED
      BY <2>1, <2>2, QuietStepPreserves DEF CenterInv, NotificationsTypeOK
  <1>3. CASE FindCenter(n) /\ center # NoCenter
    <2>1. /\ notifyPc[n] = "find" /\ Resolve(n, center) /\ center \in Settings
          /\ UNCHANGED <<center, records, unresolved, centerHistory>>
      BY <1>3 DEF FindCenter, CenterInv, NotificationsTypeOK
    <2>2. topic[n] \in Topics
      BY <2>1 DEF CenterInv, TopicsAreKnown
    <2>3. QED
      BY <2>1, <2>2, ResolveMoves, QuietStepPreserves
  <1>4. CASE CreateCenter(n)
    <2> Defaults \in Settings
      BY DEF Defaults, Settings
    <2>1. /\ notifyPc[n] = "create" /\ topic[n] \in Topics
          /\ center' \in Settings \union {NoCenter}
          /\ UNCHANGED <<records, unresolved, centerHistory>>
      BY <1>4 DEF CreateCenter, CenterInv, NotificationsTypeOK, TopicsAreKnown
    <2>2. Resolve(n, Defaults) \/ Finish(n)
      BY <1>4 DEF CreateCenter
    <2>3. QED
      BY <2>1, <2>2, ResolveMoves, FinishMoves, QuietStepPreserves
  <1>5. CASE FinishNotify(n)
    <2>1. /\ results[n] = {} /\ Finish(n)
          /\ UNCHANGED <<center, records, unresolved, centerHistory>>
      BY <1>5 DEF FinishNotify
    <2>2. QED
      BY <2>1, FinishMoves, QuietStepPreserves DEF CenterInv, NotificationsTypeOK
  <1>6. QED
    BY <1>1, <1>2, <1>3, <1>4, <1>5

\* Who created the record is the only one to push it, and nobody has before.
LEMMA CreateRecordPreserves ==
    ASSUME CenterInv, NEW n \in Notifiers, CreateRecord(n)
    PROVE  CenterInv'
  <1>1. /\ notifyPc[n] = "record" /\ topic[n] \in Topics
        /\ records' = records \union {topic[n]}
        /\ UNCHANGED <<center, unresolved, centerHistory>>
    BY DEF CreateRecord, CenterInv, TopicsAreKnown
  <1>2. Moves(n, "idle") \/ (Moves(n, "push") /\ GoesOn(n) /\ topic' = topic)
    <2>1. CASE GoesOn(n)
      <3>1. /\ notifyPc' = [notifyPc EXCEPT ![n] = "push"] /\ UNCHANGED <<topic, setting, results>>
        BY <2>1 DEF CreateRecord
      <3>2. QED
        BY <2>1, <3>1 DEF Moves, CenterInv, NotificationsTypeOK
    <2>2. CASE ~GoesOn(n)
      BY <2>2, FinishMoves DEF CreateRecord
    <2>3. QED
      BY <2>1, <2>2
  <1>3. NotificationsTypeOK'
    BY <1>1, <1>2 DEF Moves, CenterInv, NotificationsTypeOK, centerHistory
  <1>4. PushedOnce' /\ TopicsAreKnown'
    BY <1>1, <1>2 DEF Moves, CenterInv, PushedOnce, TopicsAreKnown, centerHistory
  <1>5. PushersOwnTheirRecord'
    <2>1. GoesOn(n) => pushes[topic[n]] = 0
      BY <1>1 DEF GoesOn, CenterInv, NotificationsTypeOK, PushedOnce
    <2>2. \A m \in Notifiers \ {n} : notifyPc'[m] = "push" /\ topic'[m] # NoTopic =>
              notifyPc[m] = "push" /\ topic'[m] = topic[m] /\ topic[m] \in records
      BY <1>2 DEF Moves, CenterInv, PushersOwnTheirRecord
    <2>3. QED
      BY <1>1, <1>2, <2>1, <2>2
      DEF Moves, GoesOn, CenterInv, PushersOwnTheirRecord, centerHistory
  <1>6. ResultsArePending'
    <2>1. \A m \in Notifiers :
              notifyPc'[m] = "results" <=> notifyPc[m] = "results" /\ results'[m] = results[m]
      BY <1>1, <1>2 DEF Moves
    <2>2. \A r \in Recipients : Pending(r)' <=> Pending(r)
      BY <2>1, <1>1, <1>2 DEF Pending, Moves
    <2>3. QED
      BY <1>1, <2>1, <2>2 DEF CenterInv, ResultsArePending, centerHistory
  <1>7. QED
    BY <1>3, <1>4, <1>5, <1>6 DEF CenterInv

LEMMA TestPushPreserves ==
    ASSUME CenterInv, NEW n \in Notifiers, TestPush(n)
    PROVE  CenterInv'
  <1>1. /\ notifyPc[n] = "idle" /\ topic[n] = NoTopic
        /\ notifyPc' = [notifyPc EXCEPT ![n] = "push"] /\ tests' \in 0 .. MaxTests
        /\ UNCHANGED <<center, records, unresolved, topic, setting, results, pushes, unreached,
                       pushesOverlapped, centerEdits, notifyFaults>>
    <2>1. notifyPc[n] = "idle" /\ tests < MaxTests /\ tests' = tests + 1
      BY DEF TestPush
    <2>2. tests' \in 0 .. MaxTests
      BY <2>1, CenterAssumption DEF CenterInv, NotificationsTypeOK
    <2>3. topic[n] = NoTopic
      BY <2>1 DEF CenterInv, TopicsAreKnown
    <2>4. QED
      BY <2>2, <2>3 DEF TestPush
  <1>2. notifyPc'[n] = "push" /\ \A m \in Notifiers \ {n} : notifyPc'[m] = notifyPc[m]
    BY <1>1 DEF CenterInv, NotificationsTypeOK
  <1>3. notifyPc' \in [Notifiers -> {"idle", "find", "create", "record", "push", "results"}]
    BY <1>1 DEF CenterInv, NotificationsTypeOK
  <1>4. NotificationsTypeOK'
    BY <1>1, <1>3 DEF CenterInv, NotificationsTypeOK
  <1>a. PushedOnce'
    BY <1>1 DEF CenterInv, PushedOnce
  <1>b. TopicsAreKnown'
    BY <1>1, <1>2 DEF CenterInv, TopicsAreKnown
  <1>c. PushersOwnTheirRecord'
    <2>1. \A m \in Notifiers : notifyPc'[m] = "push" /\ topic[m] # NoTopic => notifyPc[m] = "push"
      BY <1>1, <1>2
    <2>2. QED
      BY <1>1, <2>1 DEF CenterInv, PushersOwnTheirRecord
  <1>5. PushedOnce' /\ TopicsAreKnown' /\ PushersOwnTheirRecord'
    BY <1>a, <1>b, <1>c
  <1>6. ResultsArePending'
    <2>1. \A m \in Notifiers : notifyPc'[m] = "results" <=> notifyPc[m] = "results"
      BY <1>1, <1>2
    <2>2. \A r \in Recipients : Pending(r)' <=> Pending(r)
      BY <1>1, <2>1 DEF Pending
    <2>3. QED
      BY <1>1, <2>1, <2>2 DEF CenterInv, ResultsArePending
  <1>7. QED
    BY <1>4, <1>5, <1>6 DEF CenterInv

LEMMA PushPreserves ==
    ASSUME CenterInv, NEW n \in Notifiers, NEW reached \in SUBSET Recipients, Push(n, reached)
    PROVE  CenterInv'
  <1>1. /\ notifyPc[n] = "push" /\ notifyPc' = [notifyPc EXCEPT ![n] = "results"]
        /\ results' = [results EXCEPT ![n] = ResultsOf(n, reached)]
        /\ unreached' = IF topic[n] = NoTopic THEN unreached \ reached ELSE Recipients \ reached
        /\ pushes' = IF topic[n] = NoTopic THEN pushes
                     ELSE [pushes EXCEPT ![topic[n]] = IF @ < 2 THEN @ + 1 ELSE @]
        /\ pushesOverlapped' =
               (pushesOverlapped \/ \E o \in Notifiers : notifyPc[o] = "results")
        /\ UNCHANGED <<center, records, unresolved, topic, setting, centerEdits, notifyFaults,
                       tests>>
    BY DEF Push
  <1>2. ResultsOf(n, reached) \in SUBSET (Recipients \X BOOLEAN)
    <2>1. SUFFICES ASSUME NEW x \in ResultsOf(n, reached)
                   PROVE  x \in Recipients \X BOOLEAN
      OBVIOUS
    <2>2. PICK r \in Recipients : x = <<r, r \in reached>>
      BY DEF ResultsOf
    <2>3. (r \in reached) \in BOOLEAN
      OBVIOUS
    <2>4. QED
      BY <2>2, <2>3
  <1>3. /\ notifyPc'[n] = "results" /\ results'[n] = ResultsOf(n, reached)
        /\ \A m \in Notifiers \ {n} : notifyPc'[m] = notifyPc[m] /\ results'[m] = results[m]
    BY <1>1 DEF CenterInv, NotificationsTypeOK
  <1>4. \A r \in Recipients, ok \in BOOLEAN : <<r, ok>> \in ResultsOf(n, reached)
            <=> (ok <=> r \in reached) /\ (topic[n] = NoTopic => r \in reached)
    BY DEF ResultsOf
  <1>5. topic[n] # NoTopic => /\ topic[n] \in Topics /\ topic[n] \in records
                              /\ pushes[topic[n]] = 0 /\ pushes'[topic[n]] = 1
                              /\ \A t \in Topics \ {topic[n]} : pushes'[t] = pushes[t]
    BY <1>1 DEF CenterInv, NotificationsTypeOK, PushersOwnTheirRecord
  <1>6. NotificationsTypeOK'
    <2>1. notifyPc' \in [Notifiers -> {"idle", "find", "create", "record", "push", "results"}]
      BY <1>1 DEF CenterInv, NotificationsTypeOK
    <2>2. results' \in [Notifiers -> SUBSET (Recipients \X BOOLEAN)]
      BY <1>1, <1>2 DEF CenterInv, NotificationsTypeOK
    <2>3. pushes' \in [Topics -> 0 .. 2]
      BY <1>1, <1>5 DEF CenterInv, NotificationsTypeOK
    <2>4. unreached' \subseteq Recipients /\ pushesOverlapped' \in BOOLEAN
      BY <1>1 DEF CenterInv, NotificationsTypeOK
    <2>5. QED
      BY <1>1, <2>1, <2>2, <2>3, <2>4 DEF CenterInv, NotificationsTypeOK
  <1>7. PushedOnce'
    BY <1>1, <1>5 DEF CenterInv, PushedOnce
  <1>8. TopicsAreKnown'
    BY <1>1, <1>3, <1>4, <1>5 DEF CenterInv, TopicsAreKnown
  <1>9. PushersOwnTheirRecord'
    BY <1>1, <1>3, <1>5 DEF CenterInv, NotificationsTypeOK, PushersOwnTheirRecord
  <1>10. ResultsArePending'
    <2>1. SUFFICES ASSUME notifyFaults = 0, ~pushesOverlapped'
                   PROVE  ResultsArePending'
      BY <1>1 DEF ResultsArePending
    <2>2. ~pushesOverlapped /\ \A o \in Notifiers : notifyPc[o] # "results"
      BY <1>1, <2>1
    <2>3. \A r \in Recipients : unresolved[r] # {} <=> r \in unreached
      BY <2>1, <2>2 DEF CenterInv, ResultsArePending, Pending
    <2>4. \A l, m \in Notifiers : notifyPc'[l] = "results" /\ notifyPc'[m] = "results" => l = m
      BY <1>3, <2>2
    <2>5. \A m \in Notifiers, r \in Recipients : notifyPc'[m] = "results" =>
              /\ <<r, TRUE>> \in results'[m] => r \notin unreached'
              /\ <<r, FALSE>> \in results'[m] => r \in unreached'
      BY <1>1, <1>3, <1>4, <2>2
    <2>6. \A r \in Recipients : ~Pending(r)' => topic[n] = NoTopic /\ r \notin reached
      <3>1. \A r \in Recipients, ok \in BOOLEAN :
                <<r, ok>> \in ResultsOf(n, reached) => Pending(r)'
        BY <1>3 DEF Pending
      <3>2. \A r \in Recipients : r \in reached => <<r, TRUE>> \in ResultsOf(n, reached)
        BY <1>4
      <3>3. \A r \in Recipients :
                r \notin reached /\ topic[n] # NoTopic => <<r, FALSE>> \in ResultsOf(n, reached)
        BY <1>4
      <3>4. QED
        BY <3>1, <3>2, <3>3
    <2>7. \A r \in Recipients : ~Pending(r)' => (unresolved'[r] # {} <=> r \in unreached')
      BY <1>1, <2>3, <2>6
    <2>8. QED
      BY <2>4, <2>5, <2>7 DEF ResultsArePending
  <1>11. QED
    BY <1>6, <1>7, <1>8, <1>9, <1>10 DEF CenterInv

LEMMA WriteResultPreserves ==
    ASSUME CenterInv, NEW n \in Notifiers, NEW r \in Recipients, NEW ok \in BOOLEAN,
           WriteResult(n, r, ok)
    PROVE  CenterInv'
  <1>1. /\ notifyPc[n] = "results" /\ <<r, ok>> \in results[n]
        /\ unresolved' = [unresolved EXCEPT ![r] = IF ok THEN {} ELSE @ \union {topic[n]}]
        /\ results' = [results EXCEPT ![n] = @ \ {<<r, ok>>}]
        /\ UNCHANGED <<center, records, notifyPc, topic, setting, centerHistory>>
    BY DEF WriteResult, Resolved
  <1>2. ~ok => topic[n] \in records
    BY <1>1 DEF CenterInv, TopicsAreKnown
  <1>3. /\ \A q \in Recipients \ {r} : unresolved'[q] = unresolved[q]
        /\ unresolved'[r] = IF ok THEN {} ELSE unresolved[r] \union {topic[n]}
    BY <1>1 DEF CenterInv, NotificationsTypeOK
  <1>4. /\ results'[n] = results[n] \ {<<r, ok>>}
        /\ \A m \in Notifiers \ {n} : results'[m] = results[m]
    BY <1>1 DEF CenterInv, NotificationsTypeOK
  <1>5. NotificationsTypeOK'
    <2>1. \A q \in Recipients : unresolved'[q] \subseteq records
      BY <1>2, <1>3 DEF CenterInv, NotificationsTypeOK
    <2>2. unresolved' \in [Recipients -> SUBSET Topics]
      BY <1>1, <2>1 DEF CenterInv, NotificationsTypeOK
    <2>3. results' \in [Notifiers -> SUBSET (Recipients \X BOOLEAN)]
      <3>1. results[n] \ {<<r, ok>>} \in SUBSET (Recipients \X BOOLEAN)
        BY DEF CenterInv, NotificationsTypeOK
      <3>2. QED
        BY <1>1, <3>1 DEF CenterInv, NotificationsTypeOK
    <2>4. QED
      BY <1>1, <2>1, <2>2, <2>3 DEF CenterInv, NotificationsTypeOK, centerHistory
  <1>6. PushedOnce' /\ TopicsAreKnown' /\ PushersOwnTheirRecord'
    BY <1>1, <1>4 DEF CenterInv, PushedOnce, TopicsAreKnown, PushersOwnTheirRecord, centerHistory
  <1>7. ResultsArePending'
    <2>1. SUFFICES ASSUME notifyFaults = 0, ~pushesOverlapped
                   PROVE  ResultsArePending'
      BY <1>1 DEF ResultsArePending, centerHistory
    <2>2. ok <=> r \notin unreached
      BY <1>1, <2>1 DEF CenterInv, ResultsArePending
    <2>3. \A q \in Recipients \ {r} : Pending(q) => Pending(q)'
      BY <1>1, <1>4 DEF Pending
    <2>4. \A q \in Recipients : ~Pending(q)' => (unresolved'[q] # {} <=> q \in unreached)
      BY <1>3, <2>1, <2>2, <2>3 DEF CenterInv, ResultsArePending
    <2>5. \A m \in Notifiers : results'[m] \subseteq results[m]
      BY <1>4
    <2>6. QED
      BY <1>1, <2>1, <2>4, <2>5 DEF CenterInv, ResultsArePending, centerHistory
  <1>8. QED
    BY <1>5, <1>6, <1>7 DEF CenterInv

LEMMA DeathPreserves ==
    ASSUME CenterInv, NEW n \in Notifiers, RequestDies(n)
    PROVE  CenterInv'
  <1>1. /\ notifyFaults' \in 0 .. MaxNotifyFaults /\ notifyFaults' # 0
        /\ UNCHANGED <<center, records, unresolved, pushes, unreached, pushesOverlapped,
                       centerEdits, tests>>
    BY CenterAssumption DEF RequestDies, CenterInv, NotificationsTypeOK
  <1>2. Moves(n, "idle")
    BY FinishMoves DEF RequestDies
  <1>3. NotificationsTypeOK'
    BY <1>1, <1>2 DEF Moves, CenterInv, NotificationsTypeOK
  <1>4. PushedOnce' /\ TopicsAreKnown' /\ PushersOwnTheirRecord'
    <2>1. PushedOnce'
      BY <1>1 DEF CenterInv, PushedOnce
    <2>2. TopicsAreKnown'
      BY <1>1, <1>2 DEF Moves, CenterInv, TopicsAreKnown
    <2>3. PushersOwnTheirRecord'
      BY <1>1, <1>2 DEF Moves, CenterInv, PushersOwnTheirRecord
    <2>4. QED
      BY <2>1, <2>2, <2>3
  <1>5. ResultsArePending'
    BY <1>1 DEF ResultsArePending
  <1>6. QED
    BY <1>3, <1>4, <1>5 DEF CenterInv

LEMMA EditPreserves ==
    ASSUME CenterInv, NEW s \in Settings, UpdateCenter(s)
    PROVE  CenterInv'
  <1>1. /\ center' = s /\ centerEdits' \in 0 .. MaxCenterEdits
        /\ UNCHANGED <<records, unresolved, requestVars, pushes, unreached, pushesOverlapped,
                       notifyFaults, tests>>
    BY CenterAssumption DEF UpdateCenter, CenterInv, NotificationsTypeOK
  <1>2. NotificationsTypeOK'
    BY <1>1 DEF CenterInv, NotificationsTypeOK, requestVars
  <1>3. PushedOnce' /\ TopicsAreKnown' /\ PushersOwnTheirRecord' /\ ResultsArePending'
    BY <1>1 DEF CenterInv, PushedOnce, TopicsAreKnown, PushersOwnTheirRecord,
                ResultsArePending, Pending, requestVars
  <1>4. QED
    BY <1>2, <1>3 DEF CenterInv

LEMMA CenterStepPreserves == CenterInv /\ [CenterNext]_centerVars => CenterInv'
  <1> SUFFICES ASSUME CenterInv, [CenterNext]_centerVars PROVE CenterInv'
    OBVIOUS
  <1>1. CASE \E s \in Settings : UpdateCenter(s)
    BY <1>1, EditPreserves
  <1>2. ASSUME NEW n \in Notifiers,
               \/ FindCenter(n) \/ CreateCenter(n) \/ FinishNotify(n)
               \/ \E t \in Topics : Notify(n, t)
        PROVE  CenterInv'
    BY <1>2, BeforeRecordPreserves
  <1>3. ASSUME NEW n \in Notifiers,
               \/ CreateRecord(n) \/ TestPush(n) \/ RequestDies(n)
               \/ \E reached \in SUBSET Recipients : Push(n, reached)
               \/ \E r \in Recipients : \E ok \in BOOLEAN : WriteResult(n, r, ok)
        PROVE  CenterInv'
    BY <1>3, CreateRecordPreserves, TestPushPreserves, DeathPreserves, PushPreserves,
       WriteResultPreserves
  <1>4. CASE UNCHANGED centerVars
    BY <1>4 DEF centerVars, requestVars, centerHistory, CenterInv, NotificationsTypeOK, PushedOnce,
                TopicsAreKnown, PushersOwnTheirRecord, ResultsArePending, Pending
  <1>5. QED
    BY <1>1, <1>2, <1>3, <1>4 DEF CenterNext

LEMMA CenterInvariant == CenterSpec => []CenterInv
  BY InitEstablishesCenter, CenterStepPreserves, PTL DEF CenterSpec

-----------------------------------------------------------------------------
\* The rows and the locals of the requests keep their types; no failure is
\* recorded for a topic without a record.
THEOREM NotificationsAreTyped == CenterSpec => []NotificationsTypeOK
  <1>1. CenterInv => NotificationsTypeOK
    BY DEF CenterInv
  <1>2. QED
    BY <1>1, CenterInvariant, PTL

\* A deduplication key is pushed at most once, and only with its record.
THEOREM TopicsArePushedOnce == CenterSpec => []PushedOnce
  <1>1. CenterInv => PushedOnce
    BY DEF CenterInv
  <1>2. QED
    BY <1>1, CenterInvariant, PTL

\* Without deaths and overlapping pushes the unresolved failures are exactly
\* those of the recipients the last push did not reach.
THEOREM FailuresFollowTheLastPush == CenterSpec => []FailuresAreCurrent
  <1>1. CenterInv => FailuresAreCurrent
    BY DEF CenterInv, ResultsArePending, Pending, FailuresAreCurrent
  <1>2. QED
    BY <1>1, CenterInvariant, PTL

\* The requests that create the settings row overwrite no edit of an operator.
THEOREM OnlyOperatorsEdit == CenterSpec => CenterEditsSurvive
  <1>1. CenterInv /\ [CenterNext]_centerVars
          => [(center # NoCenter /\ center' # center) => centerEdits' > centerEdits]_centerVars
    <2> SUFFICES ASSUME CenterInv, CenterNext, center # NoCenter, center' # center
                 PROVE  centerEdits' > centerEdits
      BY DEF centerVars
    <2>1. \A n \in Notifiers : /\ ~FindCenter(n) /\ ~CreateCenter(n) /\ ~CreateRecord(n)
                               /\ ~TestPush(n) /\ ~FinishNotify(n) /\ ~RequestDies(n)
      BY DEF FindCenter, CreateCenter, CreateRecord, TestPush, FinishNotify, RequestDies
    <2>2. \A n \in Notifiers :
              /\ \A t \in Topics : ~Notify(n, t)
              /\ \A reached \in SUBSET Recipients : ~Push(n, reached)
              /\ \A r \in Recipients, ok \in BOOLEAN : ~WriteResult(n, r, ok)
      BY DEF Notify, Push, WriteResult
    <2>3. PICK s \in Settings : UpdateCenter(s)
      BY <2>1, <2>2 DEF CenterNext
    <2>4. QED
      BY <2>3 DEF UpdateCenter, CenterInv, NotificationsTypeOK
  <1>2. QED
    BY <1>1, CenterInvariant, PTL DEF CenterSpec, CenterEditsSurvive

\* A record is pushed once, and the failures on record are those of its push.
THEOREM PushesKeepAccount == CenterSpec => []PushesAreAccounted
  <1>1. PushedOnce /\ FailuresAreCurrent => PushesAreAccounted
    BY DEF PushesAreAccounted
  <1>2. QED
    BY <1>1, TopicsArePushedOnce, FailuresFollowTheLastPush, PTL

-----------------------------------------------------------------------------
(* The catalog of releases *)

\* What holds of 1 and is handed on holds up to n: a counterexample would have a
\* least one.
LEMMA LeastInSet ==
    ASSUME NEW S \in SUBSET Nat, S # {}
    PROVE  \E m \in S : \A n \in S : m <= n
  <1>1. PICK m \in S : \A n \in S : <<n, m>> \notin OpToRel(<, Nat)
    BY NatLessThanWellFounded, WFMin
  <1>2. \A n \in S : m <= n
    <2>1. \A n \in S : n \in Nat /\ m \in Nat
      OBVIOUS
    <2>2. \A n \in S : ~(n < m)
      BY <1>1, <2>1 DEF OpToRel
    <2>3. QED
      BY <2>1, <2>2
  <1>3. QED
    BY <1>2

LEMMA UpTo ==
    ASSUME NEW n \in Nat, NEW H \in SUBSET (1 .. n),
           n >= 1 => 1 \in H, \A m \in 1 .. n : m < n /\ m \in H => m + 1 \in H
    PROVE  H = 1 .. n
  <1>1. SUFFICES ASSUME (1 .. n) \ H # {} PROVE FALSE
    OBVIOUS
  <1>2. PICK m \in (1 .. n) \ H : \A k \in (1 .. n) \ H : m <= k
    <2>1. (1 .. n) \ H \in SUBSET Nat
      OBVIOUS
    <2>2. QED
      BY <1>1, <2>1, LeastInSet
  <1>3. m # 1
    BY <1>2
  <1>4. m - 1 \in 1 .. n /\ m - 1 < n /\ (m - 1) + 1 = m /\ ~(m <= m - 1)
    BY <1>2, <1>3
  <1>5. m - 1 \in H
    BY <1>2, <1>4
  <1>6. QED
    BY <1>2, <1>4, <1>5

\* The recursive function of PickLatest.
Picks(rows, f) ==
    f = [n \in DOMAIN rows |-> IF n = 1 THEN rows[1] ELSE Newer(f[n - 1], rows[n])]

LEMMA PicksExist ==
    ASSUME NEW R, NEW n \in Nat \ {0}, NEW rows \in [1 .. n -> R]
    PROVE  \E f : Picks(rows, f)
  <1> DEFINE Upto(m, f) ==
                 \A k \in 1 .. m : f[k] = IF k = 1 THEN rows[1] ELSE Newer(f[k - 1], rows[k])
             H == {m \in 1 .. n : \E f \in [1 .. m -> R] : Upto(m, f)}
  <1>1. 1 \in H
    <2> DEFINE first == [k \in 1 .. 1 |-> rows[1]]
    <2>1. Upto(1, first) /\ first \in [1 .. 1 -> R] /\ 1 \in 1 .. n
      OBVIOUS
    <2> HIDE DEF first, Upto
    <2>2. QED
      BY <2>1
  <1>2. ASSUME NEW m \in 1 .. n, m < n, m \in H PROVE m + 1 \in H
    <2>1. PICK f \in [1 .. m -> R] : Upto(m, f)
      BY <1>2
    <2> DEFINE g == [k \in 1 .. m + 1 |-> IF k = m + 1 THEN Newer(f[m], rows[m + 1]) ELSE f[k]]
    <2>2. m + 1 \in 1 .. n /\ m \in 1 .. m
      BY <1>2
    <2>3. g \in [1 .. m + 1 -> R]
      <3>1. Newer(f[m], rows[m + 1]) \in R
        BY <2>2 DEF Newer
      <3>2. \A k \in 1 .. m + 1 : k # m + 1 => k \in 1 .. m
        BY <2>2
      <3>3. QED
        BY <3>1, <3>2
    <2>4. ASSUME NEW k \in 1 .. m + 1
          PROVE  g[k] = IF k = 1 THEN rows[1] ELSE Newer(g[k - 1], rows[k])
      <3>1. CASE k = m + 1
        <4>1. k # 1 /\ k - 1 = m /\ m \in 1 .. m + 1 /\ m # m + 1
          BY <2>2, <3>1
        <4>2. g[k] = Newer(f[m], rows[m + 1]) /\ g[m] = f[m]
          BY <3>1, <4>1
        <4>3. QED
          BY <3>1, <4>1, <4>2
      <3>2. CASE k # m + 1
        <4>1. k \in 1 .. m /\ g[k] = f[k]
          BY <2>2, <3>2
        <4>2. k # 1 => k - 1 \in 1 .. m /\ k - 1 \in 1 .. m + 1 /\ k - 1 # m + 1
          BY <2>2, <4>1
        <4>3. k # 1 => g[k - 1] = f[k - 1]
          BY <4>2
        <4>4. QED
          BY <2>1, <4>1, <4>3
      <3>3. QED
        BY <3>1, <3>2
    <2> HIDE DEF g
    <2>5. QED
      BY <2>2, <2>3, <2>4
  <1>3. n \in H
    <2>1. H \in SUBSET (1 .. n) /\ n \in 1 .. n
      OBVIOUS
    <2> HIDE DEF H
    <2>2. QED
      BY <1>1, <1>2, <2>1, UpTo
  <1>4. PICK f \in [1 .. n -> R] : Upto(n, f)
    BY <1>3
  <1>5. Picks(rows, f)
    BY <1>4 DEF Picks
  <1>6. QED
    BY <1>5

\* PickLatest is the last value of that function.
LEMMA PickLatestPicks ==
    ASSUME NEW R, NEW n \in Nat \ {0}, NEW rows \in [1 .. n -> R]
    PROVE  \E f : Picks(rows, f) /\ PickLatest(rows) = f[n]
  <1> DEFINE pick == CHOOSE f : Picks(rows, f)
  <1>1. Picks(rows, pick)
    BY PicksExist
  <1>2. Len(rows) = n
    <2>1. rows \in Seq(R)
      BY SeqDef
    <2>2. QED
      BY <2>1, LenProperties
  <1>3. PickLatest(rows) = pick[n]
    BY <1>2 DEF PickLatest, Picks
  <1>4. QED
    BY <1>1, <1>3

LEMMA HubBounds ==
    /\ Commits \subseteq Nat /\ NoCommit \notin Commits /\ NoDate \notin Nat
    /\ \A c \in Commits : DateOf[c] \in Nat /\ ShaOf[c] \in Nat
    /\ \A c, d \in Commits : ShaOf[c] = ShaOf[d] => c = d
    /\ \A c, d \in Commits : c < d => DateOf[c] <= DateOf[d]
    /\ Legacy \subseteq Commits
    /\ MaxReports \in Nat /\ MaxLookupFaults \in Nat
  BY HubAssumption

\* Rows of a catalog: no two for one commit, or inserted at one time.
CatalogRows(R) ==
    /\ \A r \in R : r.date \in Nat \union {NoDate} /\ ShaOf[r.commit] \in Nat /\ r.published \in Nat
    /\ \A r, s \in R : ShaOf[r.commit] = ShaOf[s.commit] \/ r.published = s.published => r = s

\* Nothing in R is newer.
MostRecent(R, m) == m \in R /\ \A r \in R : ~NewerRelease(r, m)

\* isNewerRelease is a strict total order on them.
LEMMA NewerIsTotal ==
    ASSUME NEW R, CatalogRows(R), NEW a \in R, NEW b \in R
    PROVE  /\ ~NewerRelease(a, b) /\ ~NewerRelease(b, a) => a = b
           /\ ~(NewerRelease(a, b) /\ NewerRelease(b, a))
  <1>1. /\ a.date \in Nat \/ a.date = NoDate
        /\ b.date \in Nat \/ b.date = NoDate
        /\ ShaOf[a.commit] \in Nat /\ ShaOf[b.commit] \in Nat
        /\ a.published \in Nat /\ b.published \in Nat
        /\ ShaOf[a.commit] = ShaOf[b.commit] \/ a.published = b.published => a = b
    BY DEF CatalogRows
  <1>2. CASE a.date # NoDate /\ b.date # NoDate
    BY <1>1, <1>2 DEF NewerRelease
  <1>3. CASE a.date = NoDate \/ b.date = NoDate
    BY <1>1, <1>3 DEF NewerRelease
  <1>4. QED
    BY <1>2, <1>3

LEMMA NotNewerIsTransitive ==
    ASSUME NEW R, CatalogRows(R), NEW a \in R, NEW b \in R, NEW c \in R,
           ~NewerRelease(a, b), ~NewerRelease(b, c)
    PROVE  ~NewerRelease(a, c)
  <1>1. \A x \in {a, b, c} :
            /\ x.date \in Nat \/ x.date = NoDate
            /\ ShaOf[x.commit] \in Nat /\ x.published \in Nat
    BY DEF CatalogRows
  <1>2. CASE c.date # NoDate
    <2>1. CASE a.date = NoDate
      BY <1>2, <2>1 DEF NewerRelease
    <2>2. CASE a.date # NoDate
      <3>1. b.date # NoDate
        BY <2>2 DEF NewerRelease
      <3>2. /\ ~(a.date > b.date) /\ ~(a.date = b.date /\ ShaOf[a.commit] > ShaOf[b.commit])
            /\ ~(b.date > c.date) /\ ~(b.date = c.date /\ ShaOf[b.commit] > ShaOf[c.commit])
        BY <1>2, <2>2, <3>1 DEF NewerRelease
      <3>3. ~(a.date > c.date) /\ ~(a.date = c.date /\ ShaOf[a.commit] > ShaOf[c.commit])
        BY <1>1, <1>2, <2>2, <3>1, <3>2
      <3>4. QED
        BY <1>2, <2>2, <3>3 DEF NewerRelease
    <2>3. QED
      BY <2>1, <2>2
  <1>3. CASE c.date = NoDate
    <2>1. b.date = NoDate /\ ~(b.published > c.published)
      BY <1>3 DEF NewerRelease
    <2>2. a.date = NoDate /\ ~(a.published > b.published)
      BY <2>1 DEF NewerRelease
    <2>3. ~(a.published > c.published)
      BY <1>1, <2>1, <2>2
    <2>4. QED
      BY <1>3, <2>2, <2>3 DEF NewerRelease
  <1>4. QED
    BY <1>2, <1>3

LEMMA MostRecentIsUnique ==
    ASSUME NEW R, CatalogRows(R), NEW m, NEW n, MostRecent(R, m), MostRecent(R, n)
    PROVE  m = n
  BY NewerIsTotal DEF MostRecent

\* Whatever the order of the rows, one pass finds the most recent of them.
LEMMA PassFindsMostRecent ==
    ASSUME NEW R, CatalogRows(R), NEW n \in Nat \ {0}, NEW rows \in [1 .. n -> R],
           \A r \in R : \E i \in 1 .. n : rows[i] = r
    PROVE  MostRecent(R, PickLatest(rows))
  <1>1. PICK f : Picks(rows, f) /\ PickLatest(rows) = f[n]
    BY PickLatestPicks
  <1>2. \A k \in 1 .. n : f[k] = IF k = 1 THEN rows[1] ELSE Newer(f[k - 1], rows[k])
    BY <1>1 DEF Picks
  <1> DEFINE H == {k \in 1 .. n : f[k] \in R /\ \A i \in 1 .. k : ~NewerRelease(rows[i], f[k])}
  <1>3. 1 \in H
    <2>1. 1 \in 1 .. n /\ f[1] = rows[1] /\ rows[1] \in R
      BY <1>2
    <2>2. ~NewerRelease(rows[1], rows[1])
      BY <2>1, NewerIsTotal
    <2>3. \A i \in 1 .. 1 : i = 1
      OBVIOUS
    <2>4. QED
      BY <2>1, <2>2, <2>3
  <1>4. ASSUME NEW k \in 1 .. n, k < n, k \in H PROVE k + 1 \in H
    <2>1. k + 1 \in 1 .. n /\ k + 1 # 1 /\ (k + 1) - 1 = k
      BY <1>4
    <2>2. f[k + 1] = Newer(f[k], rows[k + 1]) /\ rows[k + 1] \in R /\ f[k] \in R
      BY <1>2, <1>4, <2>1
    <2>3. /\ f[k + 1] \in R
          /\ ~NewerRelease(f[k], f[k + 1]) /\ ~NewerRelease(rows[k + 1], f[k + 1])
      BY <2>2, NewerIsTotal DEF Newer
    <2>4. ASSUME NEW i \in 1 .. k + 1 PROVE ~NewerRelease(rows[i], f[k + 1])
      <3>1. CASE i = k + 1
        BY <2>3, <3>1
      <3>2. CASE i # k + 1
        <4>1. i \in 1 .. k /\ i \in 1 .. n
          BY <1>4, <3>2
        <4>2. ~NewerRelease(rows[i], f[k]) /\ rows[i] \in R
          BY <1>4, <4>1
        <4>3. QED
          BY <2>2, <2>3, <4>2, NotNewerIsTransitive
      <3>3. QED
        BY <3>1, <3>2
    <2>5. QED
      BY <2>1, <2>3, <2>4
  <1>5. n \in H
    <2>1. H \in SUBSET (1 .. n) /\ n \in 1 .. n
      OBVIOUS
    <2> HIDE DEF H
    <2>2. QED
      BY <1>3, <1>4, <2>1, UpTo
  <1>6. QED
    BY <1>1, <1>5 DEF MostRecent

\* The orders in which the rows of a finite set may be read.
LEMMA ReadingOrders ==
    ASSUME NEW R, IsFiniteSet(R), R # {}
    PROVE  /\ Cardinality(R) \in Nat \ {0}
           /\ SetToSeq(R) \in SetToSeqs(R)
           /\ \A rows \in SetToSeqs(R) :
                 /\ rows \in [1 .. Cardinality(R) -> R]
                 /\ \A r \in R : \E i \in 1 .. Cardinality(R) : rows[i] = r
  <1> DEFINE n == Cardinality(R)
  <1>1. n \in Nat \ {0} /\ Bijection(1 .. n, R) # {}
    BY FS_CardinalityType, FS_EmptySet DEF ExistsBijection
  <1>2. IsFiniteSet(1 .. n) /\ Cardinality(1 .. n) = n
    BY <1>1, FS_Interval
  <1>3. \A rows : rows \in SetToSeqs(R) <=> rows \in Injection(1 .. n, R)
    BY DEF SetToSeqs, Injection, IsInjective
  <1>4. \E rows \in [1 .. n -> R] : IsInjective(rows)
    BY <1>1 DEF Bijection, Injection
  <1>5. SetToSeq(R) \in [1 .. n -> R] /\ IsInjective(SetToSeq(R))
    BY <1>4 DEF SetToSeq
  <1>6. ASSUME NEW rows \in SetToSeqs(R)
        PROVE  rows \in [1 .. n -> R] /\ \A r \in R : \E i \in 1 .. n : rows[i] = r
    <2>1. rows \in Injection(1 .. n, R)
      BY <1>3
    <2>2. rows \in Surjection(1 .. n, R)
      BY <1>2, <2>1, FS_Injection
    <2>3. QED
      BY <2>1, <2>2 DEF Injection, Surjection
  <1>7. QED
    BY <1>1, <1>3, <1>5, <1>6 DEF Injection

\* pickLatestReleases of the rows of a catalog, in any order.
LEMMA PickLatestIsMostRecent ==
    ASSUME CatalogRows(releases), IsFiniteSet(releases), releases # {}
    PROVE  /\ MostRecent(releases, Latest)
           /\ \A rows \in SetToSeqs(releases) : PickLatest(rows) = Latest
  <1>1. \A rows \in SetToSeqs(releases) : MostRecent(releases, PickLatest(rows))
    BY ReadingOrders, PassFindsMostRecent
  <1>2. MostRecent(releases, Latest)
    BY <1>1, ReadingOrders DEF Latest
  <1>3. QED
    BY <1>1, <1>2, MostRecentIsUnique

-----------------------------------------------------------------------------
HubRows == [commit : Commits, date : Nat \union {NoDate}, published : Nat]

\* One row for each commit, numbered as they were inserted; a row is dated by
\* its commit or not at all.
CatalogOK(R) ==
    /\ IsFiniteSet(R) /\ R \subseteq HubRows
    /\ \A r \in R : r.date \in {DateOf[r.commit], NoDate} /\ r.published \in 1 .. Cardinality(R)
    /\ \A r, s \in R : r.commit = s.commit \/ r.published = s.published => r = s

\* What was synced is catalogued with its date.
SyncedIsDated == synced # NoCommit => \E r \in releases : r.commit = synced /\ r.date = DateOf[synced]

\* Nothing is catalogued, or about to be, that the branch did not reach.
CatalogIsReached ==
    /\ \A r \in releases : r.commit \in Reached
    /\ syncTarget # NoCommit => syncTarget \in Reached

\* A pin is dated by its commit or not at all.
PinIsDated ==
    lastReport.date # NoDate =>
        lastReport.commit \in Commits /\ lastReport.date = DateOf[lastReport.commit]

HubInv ==
    /\ HubTypeOK /\ CatalogOK(releases) /\ SyncedIsDated /\ CatalogIsReached /\ PinIsDated

LEMMA CatalogHasRows ==
    ASSUME NEW R, CatalogOK(R)
    PROVE  CatalogRows(R)
  <1>1. \A r \in R : r.date \in Nat \union {NoDate} /\ r.commit \in Commits /\ r.published \in Nat
    BY DEF CatalogOK, HubRows
  <1>2. QED
    BY <1>1, HubBounds DEF CatalogOK, CatalogRows

\* The upsert of a release.
LEMMA IngestKeepsCatalog ==
    ASSUME CatalogOK(releases), NEW c \in Commits, NEW date \in {DateOf[c], NoDate}
    PROVE  /\ CatalogOK(Ingest(c, date))
           /\ \A r \in Ingest(c, date) : r.commit = c \/ \E s \in releases : s.commit = r.commit
           /\ \A s \in releases : \E r \in Ingest(c, date) :
                  r.commit = s.commit /\ (s.date = DateOf[s.commit] => r.date = DateOf[s.commit])
           /\ date # NoDate => \E r \in Ingest(c, date) : r.commit = c /\ r.date = DateOf[c]
  <1>1. /\ IsFiniteSet(releases) /\ releases \subseteq HubRows /\ Cardinality(releases) \in Nat
        /\ \A r \in releases :
               r.date \in {DateOf[r.commit], NoDate} /\ r.published \in 1 .. Cardinality(releases)
        /\ \A r, s \in releases : r.commit = s.commit \/ r.published = s.published => r = s
    BY FS_CardinalityType DEF CatalogOK
  <1>2. DateOf[c] \in Nat /\ DateOf[c] # NoDate /\ date \in Nat \union {NoDate}
    BY HubBounds
  <1>3. CASE \E q \in releases : q.commit = c
    <2>1. PICK q \in releases : q.commit = c
      BY <1>3
    <2> DEFINE p == IF date # NoDate THEN [q EXCEPT !.date = date] ELSE q
    <2>2. /\ p \in HubRows /\ p.commit = c /\ p.published = q.published
          /\ p.date \in {DateOf[c], NoDate}
          /\ date # NoDate => p.date = DateOf[c]
          /\ q.date = DateOf[c] => p.date = DateOf[c]
      <3>1. q \in HubRows
        BY <1>1
      <3>2. CASE date # NoDate
        <4>1. p = [q EXCEPT !.date = date] /\ date = DateOf[c]
          BY <3>2
        <4>2. QED
          BY <1>2, <2>1, <3>1, <4>1 DEF HubRows
      <3>3. CASE date = NoDate
        BY <1>1, <2>1, <3>1, <3>3
      <3>4. QED
        BY <3>2, <3>3
    <2>3. Ingest(c, date) = (releases \ {q}) \union {p}
      <3>1. Ingest(c, date) =
                {IF r.commit = c /\ date # NoDate THEN [r EXCEPT !.date = date] ELSE r : r \in releases}
        BY <1>3 DEF Ingest
      <3>2. \A r \in releases : r.commit = c <=> r = q
        BY <1>1, <2>1
      <3>3. \A r \in releases :
                (IF r.commit = c /\ date # NoDate THEN [r EXCEPT !.date = date] ELSE r)
                    = (IF r = q THEN p ELSE r)
        BY <3>2
      <3> HIDE DEF p
      <3>4. Ingest(c, date) = {IF r = q THEN p ELSE r : r \in releases}
        <4> DEFINE new(r) == IF r.commit = c /\ date # NoDate
                            THEN [r EXCEPT !.date = date] ELSE r
                   old(r) == IF r = q THEN p ELSE r
        <4>1. Ingest(c, date) = {new(r) : r \in releases}
          BY <3>1
        <4>2. \A r \in releases : new(r) = old(r)
          BY <3>3
        <4> HIDE DEF new, old
        <4>3. {new(r) : r \in releases} = {old(r) : r \in releases}
          BY <4>2
        <4>4. {old(r) : r \in releases} = {IF r = q THEN p ELSE r : r \in releases}
          BY DEF old
        <4>5. QED
          BY <4>1, <4>3, <4>4
      <3>5. QED
        BY <2>1, <3>4
    <2> HIDE DEF p
    <2>4. p \notin releases \ {q}
      BY <1>1, <2>1, <2>2
    <2>5. IsFiniteSet(Ingest(c, date)) /\ Cardinality(Ingest(c, date)) = Cardinality(releases)
      <3>1. /\ IsFiniteSet(releases \ {q})
            /\ Cardinality(releases \ {q}) = Cardinality(releases) - 1
        BY <1>1, <2>1, FS_RemoveElement
      <3>2. /\ IsFiniteSet((releases \ {q}) \union {p})
            /\ Cardinality((releases \ {q}) \union {p}) = Cardinality(releases \ {q}) + 1
        BY <2>4, <3>1, FS_AddElement
      <3>3. QED
        BY <1>1, <2>3, <3>1, <3>2
    <2>6. CatalogOK(Ingest(c, date))
      BY <1>1, <2>1, <2>2, <2>3, <2>5 DEF CatalogOK
    <2>7. QED
      BY <1>1, <2>1, <2>2, <2>3, <2>6
  <1>4. CASE ~ \E q \in releases : q.commit = c
    <2> DEFINE p == Row(c, date, Cardinality(releases) + 1)
    <2>1. Ingest(c, date) = releases \union {p}
      BY <1>4 DEF Ingest
    <2>2. /\ p \in HubRows /\ p.commit = c /\ p.date = date
          /\ p.published = Cardinality(releases) + 1
      BY <1>1, <1>2 DEF Row, HubRows
    <2> HIDE DEF p
    <2>3. p \notin releases
      BY <1>4, <2>2
    <2>4. /\ IsFiniteSet(Ingest(c, date))
          /\ Cardinality(Ingest(c, date)) = Cardinality(releases) + 1
      BY <1>1, <2>1, <2>3, FS_AddElement
    <2>5. \A r \in releases : r.published \in Nat /\ r.published <= Cardinality(releases)
      BY <1>1
    <2>6. CatalogOK(Ingest(c, date))
      <3>1. \A r \in Ingest(c, date) :
                r.date \in {DateOf[r.commit], NoDate} /\ r.published \in 1 .. Cardinality(Ingest(c, date))
        BY <1>1, <2>1, <2>2, <2>4
      <3>2. \A r, s \in Ingest(c, date) : r.commit = s.commit \/ r.published = s.published => r = s
        BY <1>1, <1>4, <2>1, <2>2, <2>5
      <3>3. QED
        BY <1>1, <2>1, <2>2, <2>4, <3>1, <3>2 DEF CatalogOK
    <2>7. QED
      BY <2>1, <2>2, <2>6
  <1>5. QED
    BY <1>3, <1>4

\* An upsert keeps what the catalog says of the branch and of what was synced.
LEMMA IngestKeepsHub ==
    ASSUME HubInv, NEW c \in Commits, c \in Reached, NEW date \in {DateOf[c], NoDate},
           releases' = Ingest(c, date), head' = head,
           synced' = synced \/ (synced' = c /\ date # NoDate)
    PROVE  /\ CatalogOK(releases)' /\ SyncedIsDated'
           /\ \A r \in releases' : r.commit \in Reached'
           /\ \A r \in releases' : r.commit \in Commits /\ r.date \in {DateOf[r.commit], NoDate}
           /\ \A r, s \in releases' : r.commit = s.commit \/ r.published = s.published => r = s
  <1>1. CatalogOK(releases) /\ SyncedIsDated /\ CatalogIsReached
    BY DEF HubInv
  <1>2. /\ CatalogOK(releases')
        /\ \A r \in releases' : r.commit = c \/ \E s \in releases : s.commit = r.commit
        /\ \A s \in releases : \E r \in releases' :
               r.commit = s.commit /\ (s.date = DateOf[s.commit] => r.date = DateOf[s.commit])
        /\ date # NoDate => \E r \in releases' : r.commit = c /\ r.date = DateOf[c]
    BY <1>1, IngestKeepsCatalog
  <1>3. CatalogOK(releases)'
    BY <1>2 DEF CatalogOK
  <1>4. SyncedIsDated'
    BY <1>1, <1>2 DEF SyncedIsDated
  <1>5. Reached' = Reached
    BY DEF Reached
  <1>6. \A r \in releases' : r.commit \in Reached'
    BY <1>1, <1>2, <1>5 DEF CatalogIsReached
  <1>7. QED
    BY <1>2, <1>3, <1>4, <1>6 DEF CatalogOK, HubRows

LEMMA InitEstablishesHub == HubInit => HubInv
  <1> SUFFICES ASSUME HubInit PROVE HubInv
    OBVIOUS
  <1>1. /\ syncTarget = NoCommit /\ synced = NoCommit /\ installed = NoCommit
        /\ lastReport = NoPin /\ lastSeenAt = 0 /\ unknownDates = {}
        /\ reported = [r \in Reporters |-> NoCommit] /\ sentAt = [r \in Reporters |-> 0]
        /\ reportClock = 0 /\ lookupFaults = 0
    BY DEF HubInit
  <1>2. /\ lastReport.commit = NoCommit /\ lastReport.date = NoDate
        /\ 0 \in 0 .. MaxReports /\ 0 \in 0 .. MaxLookupFaults
    BY <1>1, HubBounds DEF NoPin
  <1>3. CASE releases = {} /\ head = NoCommit
    <2>1. CatalogOK(releases)
      BY <1>3, FS_EmptySet DEF CatalogOK
    <2>2. HubTypeOK
      BY <1>1, <1>2, <1>3 DEF HubTypeOK, Dates
    <2>3. QED
      BY <1>1, <1>2, <1>3, <2>1, <2>2 DEF HubInv, SyncedIsDated, CatalogIsReached, PinIsDated
  <1>4. CASE \E c \in Legacy : releases = {Row(c, NoDate, 1)} /\ head = c
    <2>1. PICK c \in Legacy : releases = {Row(c, NoDate, 1)} /\ head = c
      BY <1>4
    <2> DEFINE p == Row(c, NoDate, 1)
    <2>2. /\ c \in Commits /\ c \in Nat /\ p \in HubRows
          /\ p.commit = c /\ p.date = NoDate /\ p.published = 1
      BY HubBounds DEF Row, HubRows
    <2> HIDE DEF p
    <2>3. releases = {p}
      BY <2>1 DEF p
    <2>4. IsFiniteSet(releases) /\ Cardinality(releases) = 1
      BY <2>3, FS_Singleton
    <2>5. CatalogOK(releases)
      BY <2>2, <2>3, <2>4 DEF CatalogOK
    <2>6. HubTypeOK
      BY <1>1, <1>2, <2>1, <2>2, <2>3 DEF HubTypeOK, Dates
    <2>7. c \in Reached
      BY <2>1, <2>2, HubBounds DEF Reached
    <2>8. QED
      BY <1>1, <1>2, <2>2, <2>3, <2>5, <2>6, <2>7
      DEF HubInv, SyncedIsDated, CatalogIsReached, PinIsDated
  <1>5. QED
    BY <1>3, <1>4 DEF HubInit

\* The steps of the branch and the catalog.
LEMMA CatalogStepPreserves ==
    ASSUME HubInv,
           \/ PushCommit \/ StartSync \/ FinishSync \/ FailSync
           \/ \E c \in Commits : Deliver(c, DateOf[c]) \/ Deliver(c, NoDate)
    PROVE  HubInv'
  <1>1. HubTypeOK /\ CatalogOK(releases) /\ SyncedIsDated /\ CatalogIsReached /\ PinIsDated
    BY DEF HubInv
  <1>2. UNCHANGED <<installed, lastReport, lastSeenAt, reported, sentAt, unknownDates,
                    reportClock, lookupFaults>>
    BY DEF PushCommit, StartSync, FinishSync, FailSync, Deliver, reportVars
  <1>3. PinIsDated'
    BY <1>1, <1>2 DEF PinIsDated
  <1>4. CASE PushCommit
    <2>1. PICK c \in Commits : /\ c \notin Reached /\ head' = c
                               /\ UNCHANGED <<releases, syncTarget, synced>>
      BY <1>4 DEF PushCommit
    <2>2. Reached \subseteq Reached'
      <3> SUFFICES ASSUME NEW d \in Reached PROVE d \in Reached'
        OBVIOUS
      <3>1. head \in Commits /\ head # NoCommit /\ d \in Commits /\ d <= head
        BY <1>1 DEF Reached, HubTypeOK
      <3>2. ~(c <= head)
        BY <2>1, <3>1 DEF Reached
      <3>3. c \in Nat /\ head \in Nat /\ d \in Nat
        BY <3>1, HubBounds
      <3>4. d <= c
        BY <3>1, <3>2, <3>3
      <3>5. QED
        BY <2>1, <3>1, <3>4, HubBounds DEF Reached
    <2>3. HubTypeOK'
      BY <1>1, <1>2, <2>1 DEF HubTypeOK
    <2>4. CatalogOK(releases)' /\ SyncedIsDated' /\ CatalogIsReached'
      BY <1>1, <2>1, <2>2 DEF CatalogOK, SyncedIsDated, CatalogIsReached
    <2>5. QED
      BY <1>3, <2>3, <2>4 DEF HubInv
  <1>5. CASE StartSync \/ FailSync
    <2>1. /\ UNCHANGED <<head, releases, synced>>
          /\ syncTarget' = NoCommit \/ (head # NoCommit /\ syncTarget' = head)
      BY <1>5 DEF StartSync, FailSync
    <2>2. Reached' = Reached
      BY <2>1 DEF Reached
    <2>3. syncTarget' # NoCommit => syncTarget' \in Reached /\ syncTarget' \in Commits
      <3> SUFFICES ASSUME syncTarget' # NoCommit PROVE head \in Reached /\ syncTarget' = head /\ head \in Commits
        OBVIOUS
      <3>1. head # NoCommit /\ syncTarget' = head
        BY <2>1
      <3>2. head \in Commits /\ head \in Nat
        BY <1>1, <3>1, HubBounds DEF HubTypeOK
      <3>3. QED
        BY <3>1, <3>2 DEF Reached
    <2>4. HubTypeOK'
      BY <1>1, <1>2, <2>1, <2>3 DEF HubTypeOK
    <2>5. CatalogOK(releases)' /\ SyncedIsDated' /\ CatalogIsReached'
      BY <1>1, <2>1, <2>2, <2>3 DEF CatalogOK, SyncedIsDated, CatalogIsReached
    <2>6. QED
      BY <1>3, <2>4, <2>5 DEF HubInv
  <1>6. CASE FinishSync
    <2>1. /\ syncTarget # NoCommit /\ syncTarget \in Commits /\ syncTarget \in Reached
          /\ DateOf[syncTarget] # NoDate
          /\ releases' = Ingest(syncTarget, DateOf[syncTarget])
          /\ synced' = syncTarget /\ syncTarget' = NoCommit /\ head' = head
      BY <1>1, <1>6, HubBounds DEF FinishSync, HubTypeOK, CatalogIsReached
    <2>2. /\ CatalogOK(releases)' /\ SyncedIsDated'
          /\ \A r \in releases' : r.commit \in Reached'
          /\ \A r \in releases' : r.commit \in Commits /\ r.date \in {DateOf[r.commit], NoDate}
          /\ \A r, s \in releases' : r.commit = s.commit \/ r.published = s.published => r = s
      BY <2>1, IngestKeepsHub
    <2>3. HubTypeOK' /\ CatalogIsReached'
      BY <1>1, <1>2, <2>1, <2>2 DEF HubTypeOK, CatalogIsReached
    <2>4. QED
      BY <1>3, <2>2, <2>3 DEF HubInv
  <1>7. ASSUME NEW c \in Commits, NEW date \in {DateOf[c], NoDate}, Deliver(c, date) PROVE HubInv'
    <2>1. /\ c \in Reached /\ releases' = Ingest(c, date)
          /\ head' = head /\ syncTarget' = syncTarget /\ synced' = synced
      BY <1>7 DEF Deliver
    <2>2. /\ CatalogOK(releases)' /\ SyncedIsDated'
          /\ \A r \in releases' : r.commit \in Reached'
          /\ \A r \in releases' : r.commit \in Commits /\ r.date \in {DateOf[r.commit], NoDate}
          /\ \A r, s \in releases' : r.commit = s.commit \/ r.published = s.published => r = s
      BY <2>1, IngestKeepsHub
    <2>3. HubTypeOK'
      BY <1>1, <1>2, <2>1, <2>2 DEF HubTypeOK
    <2>4. CatalogIsReached'
      BY <1>1, <2>1, <2>2 DEF CatalogIsReached, Reached
    <2>5. QED
      BY <1>3, <2>2, <2>3, <2>4 DEF HubInv
  <1>8. QED
    BY <1>4, <1>5, <1>6, <1>7

\* The steps of the installation, and the restart of the hub.
LEMMA ReportStepPreserves ==
    ASSUME HubInv,
           \/ Ping \/ RestartHub \/ \E c \in Commits : Upgrade(c)
           \/ \E r \in Reporters : StartReport(r) \/ LookupFails(r) \/ WriteReport(r)
    PROVE  HubInv'
  <1>1. HubTypeOK /\ CatalogOK(releases) /\ SyncedIsDated /\ CatalogIsReached /\ PinIsDated
    BY DEF HubInv
  <1>2. /\ UNCHANGED <<head, releases, synced>>
        /\ syncTarget' = syncTarget \/ syncTarget' = NoCommit
    BY DEF Ping, RestartHub, Upgrade, StartReport, LookupFails, WriteReport, catalogVars
  <1>3. CatalogOK(releases)' /\ SyncedIsDated' /\ CatalogIsReached'
    BY <1>1, <1>2 DEF CatalogOK, SyncedIsDated, CatalogIsReached, Reached
  <1>4. {head, syncTarget, synced}' \subseteq Commits \union {NoCommit}
    BY <1>1, <1>2 DEF HubTypeOK
  <1>5. CASE Ping
    <2>1. reportClock' \in 0 .. MaxReports /\ lastSeenAt' \in 0 .. MaxReports
      BY <1>1, <1>5, HubBounds DEF Ping, HubTypeOK
    <2>2. UNCHANGED <<installed, lastReport, reported, sentAt, unknownDates, lookupFaults>>
      BY <1>5 DEF Ping
    <2>3. HubTypeOK' /\ PinIsDated'
      BY <1>1, <1>2, <1>4, <2>1, <2>2 DEF HubTypeOK, PinIsDated
    <2>4. QED
      BY <1>3, <2>3 DEF HubInv
  <1>6. CASE RestartHub
    <2>1. /\ unknownDates' = {} /\ reported' \in [Reporters -> Commits \union {NoCommit}]
          /\ sentAt' \in [Reporters -> 0 .. MaxReports]
          /\ UNCHANGED <<installed, lastReport, lastSeenAt, reportClock, lookupFaults>>
      BY <1>6, HubBounds DEF RestartHub
    <2>2. HubTypeOK' /\ PinIsDated'
      BY <1>1, <1>2, <1>4, <2>1 DEF HubTypeOK, PinIsDated
    <2>3. QED
      BY <1>3, <2>2 DEF HubInv
  <1>7. ASSUME NEW c \in Commits, Upgrade(c) PROVE HubInv'
    <2>1. installed' = c /\ UNCHANGED <<lastReport, lastSeenAt, reported, sentAt, unknownDates,
                                        reportClock, lookupFaults>>
      BY <1>7 DEF Upgrade
    <2>2. HubTypeOK' /\ PinIsDated'
      BY <1>1, <1>2, <1>4, <2>1 DEF HubTypeOK, PinIsDated
    <2>3. QED
      BY <1>3, <2>2 DEF HubInv
  <1>8. ASSUME NEW r \in Reporters, StartReport(r) PROVE HubInv'
    <2>1. reportClock' \in 0 .. MaxReports
      BY <1>1, <1>8, HubBounds DEF StartReport, HubTypeOK
    <2>2. /\ reported' \in [Reporters -> Commits \union {NoCommit}]
          /\ sentAt' \in [Reporters -> 0 .. MaxReports]
          /\ UNCHANGED <<installed, lastReport, lastSeenAt, unknownDates, lookupFaults>>
      BY <1>1, <1>8, <2>1 DEF StartReport, HubTypeOK
    <2>3. HubTypeOK' /\ PinIsDated'
      BY <1>1, <1>2, <1>4, <2>1, <2>2 DEF HubTypeOK, PinIsDated
    <2>4. QED
      BY <1>3, <2>3 DEF HubInv
  <1>9. ASSUME NEW r \in Reporters, LookupFails(r) PROVE HubInv'
    <2>1. lookupFaults' \in 0 .. MaxLookupFaults
      BY <1>1, <1>9, HubBounds DEF LookupFails, HubTypeOK
    <2>2. /\ unknownDates' \subseteq Commits
          /\ UNCHANGED <<installed, lastReport, lastSeenAt, reported, sentAt, reportClock>>
      BY <1>1, <1>9 DEF LookupFails, HubTypeOK, Awaiting
    <2>3. HubTypeOK' /\ PinIsDated'
      BY <1>1, <1>2, <1>4, <2>1, <2>2 DEF HubTypeOK, PinIsDated
    <2>4. QED
      BY <1>3, <2>3 DEF HubInv
  <1>10. ASSUME NEW r \in Reporters, WriteReport(r) PROVE HubInv'
    <2>1. reported[r] \in Commits /\ PinDate(reported[r]) \in {DateOf[reported[r]], NoDate}
      BY <1>1, <1>10 DEF WriteReport, HubTypeOK, Awaiting, PinDate
    <2>2. lastReport'.commit = reported[r] /\ lastReport'.date = PinDate(reported[r])
      BY <1>10 DEF WriteReport
    <2>3. /\ reported' \in [Reporters -> Commits \union {NoCommit}]
          /\ sentAt' \in [Reporters -> 0 .. MaxReports] /\ lastSeenAt' \in 0 .. MaxReports
          /\ UNCHANGED <<installed, unknownDates, reportClock, lookupFaults>>
      <3>1. 0 \in 0 .. MaxReports
        BY HubBounds
      <3>2. QED
        BY <1>1, <1>10, <3>1 DEF WriteReport, HubTypeOK
    <2>4. lastReport'.date \in Dates
      BY <2>1, <2>2 DEF Dates
    <2>5. HubTypeOK' /\ PinIsDated'
      BY <1>1, <1>2, <1>4, <2>1, <2>2, <2>3, <2>4 DEF HubTypeOK, PinIsDated
    <2>6. QED
      BY <1>3, <2>5 DEF HubInv
  <1>11. QED
    BY <1>5, <1>6, <1>7, <1>8, <1>9, <1>10

LEMMA HubStepPreserves == HubInv /\ [HubNext]_hubVars => HubInv'
  <1> SUFFICES ASSUME HubInv, [HubNext]_hubVars PROVE HubInv'
    OBVIOUS
  <1>1. CASE UNCHANGED hubVars
    BY <1>1 DEF hubVars, catalogVars, reportVars, HubInv, HubTypeOK, CatalogOK, SyncedIsDated,
                CatalogIsReached, PinIsDated, Reached
  <1>2. QED
    BY <1>1, CatalogStepPreserves, ReportStepPreserves DEF HubNext

LEMMA HubInvariant == HubSpec => []HubInv
  BY InitEstablishesHub, HubStepPreserves, PTL DEF HubSpec

\* Every reachable state of the catalog and of the reports is well typed: one
\* row for each commit, dated by it or not at all.
THEOREM HubIsTyped == HubSpec => []HubTypeOK
  <1>1. HubInv => HubTypeOK
    BY DEF HubInv
  <1>2. QED
    BY <1>1, HubInvariant, PTL

\* Whatever order pushes and syncs come in, in whatever order the rows are
\* read, the catalog has one latest release, it is not older than what was
\* synced, and a pin is compared with it by the date of its commit.
THEOREM CatalogStaysCurrent == HubSpec => []CatalogIsCurrent
  <1>1. HubInv => CatalogIsCurrent
    <2> SUFFICES ASSUME HubInv PROVE CatalogIsCurrent
      OBVIOUS
    <2>1. HubTypeOK /\ CatalogOK(releases) /\ SyncedIsDated /\ CatalogIsReached /\ PinIsDated
      BY DEF HubInv
    <2>2. CatalogRows(releases) /\ IsFiniteSet(releases)
      BY <2>1, CatalogHasRows DEF CatalogOK
    <2>3. releases # {} =>
              /\ MostRecent(releases, Latest)
              /\ \A rows \in SetToSeqs(releases) : PickLatest(rows) = Latest
      BY <2>2, PickLatestIsMostRecent
    <2>4. PickIsOrderFree
      <3> SUFFICES ASSUME NEW rows \in SetToSeqs(releases), rows # << >>
                   PROVE  PickLatest(rows) = Latest
        BY DEF PickIsOrderFree
      <3>1. CASE releases = {}
        <4>1. Cardinality(releases) = 0
          BY <3>1, FS_EmptySet
        <4>2. rows \in [1 .. 0 -> releases]
          BY <4>1 DEF SetToSeqs
        <4>3. rows = << >>
          BY <4>2
        <4>4. QED
          BY <4>3
      <3>2. QED
        BY <2>3, <3>1
    <2>5. synced # NoCommit =>
              /\ Latest \in releases /\ Latest.date \in Nat /\ Latest.date = DateOf[Latest.commit]
              /\ Latest.date # NoDate /\ Latest.date >= DateOf[synced] /\ releases # {}
              /\ Latest.commit \in Commits
      <3> SUFFICES ASSUME synced # NoCommit
                   PROVE  /\ Latest \in releases /\ Latest.date \in Nat
                          /\ Latest.date = DateOf[Latest.commit]
                          /\ Latest.date # NoDate /\ Latest.date >= DateOf[synced] /\ releases # {}
                          /\ Latest.commit \in Commits
        OBVIOUS
      <3>1. PICK r \in releases : r.commit = synced /\ r.date = DateOf[synced]
        BY <2>1 DEF SyncedIsDated
      <3>2. r.date \in Nat /\ r.date # NoDate
        BY <2>1, <3>1, HubBounds DEF HubTypeOK
      <3>3. Latest \in releases /\ ~NewerRelease(r, Latest)
        BY <2>3, <3>1 DEF MostRecent
      <3>4. Latest.date # NoDate
        BY <3>2, <3>3 DEF NewerRelease
      <3>5. Latest.commit \in Commits /\ Latest.date = DateOf[Latest.commit] /\ Latest.date \in Nat
        BY <2>1, <3>3, <3>4, HubBounds DEF HubTypeOK
      <3>6. ~(r.date > Latest.date)
        BY <3>2, <3>3, <3>4 DEF NewerRelease
      <3>7. QED
        BY <3>1, <3>2, <3>3, <3>4, <3>5, <3>6
    <2>6. SyncsAreKept
      BY <2>5 DEF SyncsAreKept
    <2>7. HintIsExact
      <3> SUFFICES ASSUME synced # NoCommit, synced = head, lastReport.date # NoDate
                   PROVE  UpdateAvailable <=> DateOf[head] > DateOf[lastReport.commit]
        BY DEF HintIsExact
      <3>1. /\ lastReport.commit \in Commits /\ lastReport.date = DateOf[lastReport.commit]
            /\ lastReport.commit # NoCommit /\ head \in Commits
        BY <2>1, HubBounds DEF PinIsDated, HubTypeOK
      <3>2. /\ Latest \in releases /\ Latest.date \in Nat /\ Latest.date = DateOf[Latest.commit]
            /\ Latest.date # NoDate /\ Latest.date >= DateOf[head] /\ releases # {}
            /\ Latest.commit \in Commits
        BY <2>5
      <3>3. Latest.commit <= head
        BY <2>1, <3>2 DEF CatalogIsReached, Reached
      <3>4. DateOf[Latest.commit] <= DateOf[head]
        <4>1. Latest.commit \in Nat /\ head \in Nat /\ DateOf[head] \in Nat
          BY <3>1, <3>2, HubBounds
        <4>2. Latest.commit = head \/ Latest.commit < head
          BY <3>3, <4>1
        <4>3. QED
          BY <3>1, <3>2, <4>1, <4>2, HubBounds
      <3>5. DateOf[head] \in Nat /\ DateOf[lastReport.commit] \in Nat
        BY <3>1, HubBounds
      <3>6. Latest.date = DateOf[head]
        BY <3>2, <3>4, <3>5
      <3>7. DateOf[head] > DateOf[lastReport.commit] => Latest.commit # lastReport.commit
        <4>1. SUFFICES ASSUME Latest.commit = lastReport.commit
                       PROVE  DateOf[head] = DateOf[lastReport.commit]
          BY <3>5
        <4>2. Latest.date = DateOf[Latest.commit]
          BY <3>2
        <4> HIDE DEF Latest
        <4>3. QED
          BY <3>6, <4>1, <4>2
      <3>8. QED
        BY <3>1, <3>2, <3>6, <3>7 DEF UpdateAvailable
    <2>8. QED
      BY <2>4, <2>6, <2>7 DEF CatalogIsCurrent
  <1>2. QED
    BY <1>1, HubInvariant, PTL

-----------------------------------------------------------------------------
(* The composition *)

\* Each service of a behaviour of the composition behaves as specified.
LEMMA PlatformImplementsTheirSpecs ==
    PlatformSpec => /\ Spec /\ AlertsSpec /\ CenterSpec /\ HubSpec
                    /\ CopilotSpec /\ SessionsSpec /\ CodesSpec
  <1>1. PlatformInit => /\ Init /\ AlertsInit /\ CenterInit /\ HubInit
                        /\ CopilotInit /\ SessionsInit /\ CodesInit
    BY DEF PlatformInit
  <1>2. [PlatformNext]_platformVars
          => /\ [Next]_vars /\ [AlertsNext]_alertVars /\ [CenterNext]_centerVars
             /\ [HubNext]_hubVars /\ [CopilotNext]_copilotVars
             /\ [SessionsNext]_sessionVars /\ [CodesNext]_codeVars
    <2>1. CASE UNCHANGED platformVars
      BY <2>1 DEF platformVars, runVars
    <2>2. CASE PlatformNext
      BY <2>2 DEF PlatformNext, Turn, Others, runVars
    <2>3. QED
      BY <2>1, <2>2
  <1>3. QED
    BY <1>1, <1>2, PTL DEF PlatformSpec, Spec, AlertsSpec, CenterSpec, HubSpec,
                           CopilotSpec, SessionsSpec, CodesSpec

\* In the composition too, every service is in states of its types.
THEOREM PlatformIsTyped == PlatformSpec => []PlatformTypeOK
  <1>1. (/\ NotificationsTypeOK /\ AlertsTypeOK /\ HubTypeOK
         /\ CopilotTypeOK /\ SessionsTypeOK /\ CodesTypeOK) => PlatformTypeOK
    BY DEF PlatformTypeOK
  <1>2. QED
    BY <1>1, PlatformImplementsTheirSpecs, NotificationsAreTyped, AlertsAreTyped, HubIsTyped,
       CopilotIsTyped, SessionsAreTyped, CodesAreTyped, PTL

\* In the composition too, pushes are accounted for, alarms are warranted, the
\* catalogue is current, tools run only approved, a conversation has one owner,
\* tabs share a session, codes work once; an operator's edits survive and a
\* repeated request is replayed.
THEOREM PlatformStaysSafe ==
    PlatformSpec => /\ [](/\ PushesAreAccounted /\ AnnouncementsAreWarranted /\ CatalogIsCurrent
                          /\ ApprovedOnly /\ ChatsAreExclusive
                          /\ SessionsHoldTogether /\ CodesAreSound)
                    /\ CenterEditsSurvive /\ RepeatsAreReplayed
  BY PlatformImplementsTheirSpecs, PushesKeepAccount, WarrantedAlways, CatalogStaysCurrent,
     ToolsRunOnlyApproved, ChatsHaveOneOwner, TabsShareOneSession, CodesStaySound,
     OnlyOperatorsEdit, RepeatsStayReplayed, PTL
=============================================================================
