--------------------------- MODULE ThresholdAlerts ---------------------------
(***************************************************************************)
(* The threshold alerts of packages/modules/web-monitor                    *)
(* (modules/jobs/jobs.service.ts), for one signal of one site: instances   *)
(* take a Redis lock that only expires, evaluate the signal, and keep its  *)
(* firing state in Redis; without Redis they fire open and recover closed. *)
(***************************************************************************)
EXTENDS Naturals

CONSTANTS
    Evaluators,
    NoEvaluator, NoAlert,
    Windows,                                    \* clean windows to recover
    MaxRedisFaults, MaxQueryFaults, MaxEvaluatorCrashes,    \* bounds
    MaxEarlyExpiries

ASSUME AlertsAssumption ==
    /\ NoEvaluator \notin Evaluators /\ Windows \in Nat \ {0}
    /\ {MaxRedisFaults, MaxQueryFaults, MaxEvaluatorCrashes, MaxEarlyExpiries} \subseteq Nat

VARIABLES
    breaching,      \* the window exceeds the threshold
    evaluationLock, \* Redis: the holder of the lock
    alert,          \* Redis: the lifecycle state, or NoAlert
    evalPc, saw, known,     \* each evaluator: step, breach seen, state read
    (* history and bounds *)
    announced,      \* the last notification of the signal
    cleanRun,       \* clean evaluations since the last breaching one
    evalsOverlapped,     \* two evaluations were in progress together
    expiredEarly,   \* locks that expired before the evaluation of their holder ended
    redisFaults, queryFaults, evaluatorCrashes

alertHistory == <<announced, cleanRun, evalsOverlapped, expiredEarly>>
alertFaults == <<redisFaults, queryFaults, evaluatorCrashes>>
evalVars == <<evalPc, saw, known>>
alertVars == <<breaching, evaluationLock, alert, evalVars, alertHistory, alertFaults>>

AlertStates == [clean : 0 .. Windows - 1, recent : BOOLEAN]   \* recent: inside the cooldown
InProgress == {"query", "get", "write", "emit"}

ASSUME NoAlertAssumption == NoAlert \notin AlertStates

AlertsTypeOK ==
    /\ breaching \in BOOLEAN
    /\ evaluationLock \in Evaluators \union {NoEvaluator}
    /\ alert \in AlertStates \union {NoAlert}
    /\ evalPc \in [Evaluators -> {"idle", "verify"} \union InProgress]
    /\ saw \in [Evaluators -> BOOLEAN]
    /\ known \in [Evaluators -> AlertStates \union {NoAlert}]
    /\ announced \in {"nothing", "firing", "recovered"}
    /\ cleanRun \in 0 .. Windows
    /\ evalsOverlapped \in BOOLEAN /\ expiredEarly \in 0 .. MaxEarlyExpiries
    /\ redisFaults \in 0 .. MaxRedisFaults /\ queryFaults \in 0 .. MaxQueryFaults
    /\ evaluatorCrashes \in 0 .. MaxEvaluatorCrashes

AlertsInit ==
    /\ breaching = FALSE /\ evaluationLock = NoEvaluator /\ alert = NoAlert
    /\ evalPc = [e \in Evaluators |-> "idle"] /\ saw = [e \in Evaluators |-> FALSE]
    /\ known = [e \in Evaluators |-> NoAlert]
    /\ announced = "nothing" /\ cleanRun = 0
    /\ evalsOverlapped = FALSE /\ expiredEarly = 0
    /\ redisFaults = 0 /\ queryFaults = 0 /\ evaluatorCrashes = 0

-----------------------------------------------------------------------------
(* redisLock *)

Begin(e) ==
    /\ evalPc' = [evalPc EXCEPT ![e] = "query"]
    /\ evalsOverlapped' = (evalsOverlapped \/ \E o \in Evaluators : evalPc[o] \in InProgress)

End(e) ==
    /\ evalPc' = [evalPc EXCEPT ![e] = "idle"]
    /\ saw' = [saw EXCEPT ![e] = FALSE] /\ known' = [known EXCEPT ![e] = NoAlert]

\* SET NX; an evaluation that does not get it returns.
SetLock(e) == evaluationLock = NoEvaluator

TakeLock(e) ==
    /\ evalPc[e] = "idle" /\ SetLock(e)
    /\ evaluationLock' = e
    /\ evalPc' = [evalPc EXCEPT ![e] = "verify"]
    /\ UNCHANGED <<breaching, alert, saw, known, alertHistory, alertFaults>>

VerifyLock(e) ==
    /\ evalPc[e] = "verify"
    /\ IF evaluationLock = e
       THEN Begin(e) /\ UNCHANGED <<saw, known>>
       ELSE End(e) /\ UNCHANGED evalsOverlapped
    /\ UNCHANGED <<breaching, evaluationLock, alert, announced, cleanRun, expiredEarly,
                   alertFaults>>

\* A command of the lock fails, landed or not: the evaluation goes on without it.
LockFails(e) ==
    /\ redisFaults < MaxRedisFaults /\ redisFaults' = redisFaults + 1
    /\ \/ /\ evalPc[e] = "idle"
          /\ \/ evaluationLock = NoEvaluator /\ evaluationLock' = e
             \/ UNCHANGED evaluationLock
       \/ evalPc[e] = "verify" /\ UNCHANGED evaluationLock
    /\ Begin(e)
    /\ UNCHANGED <<breaching, alert, saw, known, announced, cleanRun, expiredEarly,
                   queryFaults, evaluatorCrashes>>

\* The lock is never released: its time to live ends it, in time or early.
LockExpires ==
    /\ evaluationLock # NoEvaluator /\ evaluationLock' = NoEvaluator
    /\ IF evalPc[evaluationLock] = "idle" THEN UNCHANGED expiredEarly
       ELSE expiredEarly < MaxEarlyExpiries /\ expiredEarly' = expiredEarly + 1
    /\ UNCHANGED <<breaching, alert, evalVars, announced, cleanRun, evalsOverlapped, alertFaults>>

-----------------------------------------------------------------------------
(* Evaluation of the signal *)

Query(e) ==
    /\ evalPc[e] = "query"
    /\ saw' = [saw EXCEPT ![e] = breaching]
    /\ evalPc' = [evalPc EXCEPT ![e] = "get"]
    /\ cleanRun' = IF breaching THEN 0 ELSE IF cleanRun < Windows THEN cleanRun + 1 ELSE cleanRun
    /\ UNCHANGED <<breaching, evaluationLock, alert, known, announced, evalsOverlapped,
                   expiredEarly, alertFaults>>

\* runSignal swallows what the query throws.
QueryFails(e) ==
    /\ evalPc[e] = "query" /\ queryFaults < MaxQueryFaults /\ queryFaults' = queryFaults + 1
    /\ End(e)
    /\ UNCHANGED <<breaching, evaluationLock, alert, alertHistory, redisFaults,
                   evaluatorCrashes>>

\* A clean window of a signal that does not fire has nothing to write.
Get(e) ==
    /\ evalPc[e] = "get"
    /\ IF ~saw[e] /\ alert = NoAlert
       THEN End(e)
       ELSE /\ known' = [known EXCEPT ![e] = alert]
            /\ evalPc' = [evalPc EXCEPT ![e] = "write"] /\ UNCHANGED saw
    /\ UNCHANGED <<breaching, evaluationLock, alert, alertHistory, alertFaults>>

\* shouldFire: inside the cooldown the state is only kept alive.
Suppressed(e) == known[e] # NoAlert /\ known[e].recent

\* recoverIfClean.
Recovers(e) == known[e].clean + 1 >= Windows

Firing(e) == [clean |-> 0, recent |-> TRUE]

\* Mutant: the count of clean windows is not written back.
WrittenUncounted(e) ==
    IF saw[e] THEN Firing(e) ELSE IF Recovers(e) THEN NoAlert ELSE known[e]

Written(e) ==
    IF saw[e] THEN Firing(e)
    ELSE IF Recovers(e) THEN NoAlert ELSE [known[e] EXCEPT !.clean = @ + 1]

\* The evaluation is to be told: a firing that is not suppressed, or a recovery.
Tells(e) == IF saw[e] THEN ~Suppressed(e) ELSE Recovers(e)

StoreState(e) ==
    /\ evalPc[e] = "write"
    /\ alert' = Written(e)
    /\ IF Tells(e)
       THEN evalPc' = [evalPc EXCEPT ![e] = "emit"] /\ UNCHANGED <<saw, known>>
       ELSE End(e)
    /\ UNCHANGED <<breaching, evaluationLock, alertHistory, alertFaults>>

\* Mutant: a failing command is taken for "do not fire".
FailsClosed(e) == FALSE

\* shouldFire answers yes to a failing command, recoverIfClean no.
FailsOpen(e) == saw[e]

StateFails(e) ==
    /\ redisFaults < MaxRedisFaults /\ redisFaults' = redisFaults + 1
    /\ \/ evalPc[e] = "get" /\ UNCHANGED alert
       \/ evalPc[e] = "write" /\ alert' \in {alert, Written(e)}
    /\ IF FailsOpen(e)
       THEN evalPc' = [evalPc EXCEPT ![e] = "emit"] /\ UNCHANGED <<saw, known>>
       ELSE End(e)
    /\ UNCHANGED <<breaching, evaluationLock, alertHistory, queryFaults, evaluatorCrashes>>

Emit(e) ==
    /\ evalPc[e] = "emit"
    /\ announced' = IF saw[e] THEN "firing" ELSE "recovered"
    /\ End(e)
    /\ UNCHANGED <<breaching, evaluationLock, alert, cleanRun, evalsOverlapped, expiredEarly,
                   alertFaults>>

EvaluatorCrash(e) ==
    /\ evalPc[e] # "idle"
    /\ evaluatorCrashes < MaxEvaluatorCrashes /\ evaluatorCrashes' = evaluatorCrashes + 1
    /\ End(e)
    /\ UNCHANGED <<breaching, evaluationLock, alert, alertHistory, redisFaults, queryFaults>>

-----------------------------------------------------------------------------
(* Time and load *)

\* lastFiredAt grows older than the cooldown, in the copies that were read too.
CooldownElapses ==
    LET aged(a) == IF a = NoAlert THEN a ELSE [a EXCEPT !.recent = FALSE]
    IN  /\ alert # NoAlert /\ alert.recent
        /\ alert' = aged(alert) /\ known' = [e \in Evaluators |-> aged(known[e])]
        /\ UNCHANGED <<breaching, evaluationLock, evalPc, saw, alertHistory, alertFaults>>

\* The time to live exceeds the cooldown.
StateExpires ==
    /\ alert # NoAlert /\ ~alert.recent /\ alert' = NoAlert
    /\ UNCHANGED <<breaching, evaluationLock, evalVars, alertHistory, alertFaults>>

LoadChanges ==
    /\ breaching' = ~breaching
    /\ UNCHANGED <<evaluationLock, alert, evalVars, alertHistory, alertFaults>>

Evaluating(e) ==
    TakeLock(e) \/ VerifyLock(e) \/ Query(e) \/ Get(e) \/ StoreState(e) \/ Emit(e)

AlertsNext ==
    \/ \E e \in Evaluators :
           Evaluating(e) \/ LockFails(e) \/ QueryFails(e) \/ StateFails(e) \/ EvaluatorCrash(e)
    \/ LockExpires \/ CooldownElapses \/ StateExpires \/ LoadChanges

AlertsSpec == AlertsInit /\ [][AlertsNext]_alertVars

\* The minute job of each instance runs and its calls return, and a lock ends.
SignalsAreEvaluated ==
    /\ \A e \in Evaluators : SF_alertVars(TakeLock(e)) /\ WF_alertVars(Evaluating(e))
    /\ WF_alertVars(LockExpires)

-----------------------------------------------------------------------------
(* Properties *)

\* One instance evaluates at a time unless a command of the lock failed or an
\* evaluation outlived its lock.
LockExcludes == evalsOverlapped => (redisFaults + expiredEarly > 0)

\* "A signal that stays clean for N consecutive windows fires one recovered
\* notification": it is paired with a firing and N evaluations were clean since
\* the last breach; excepted are crashes, Redis failures and overlaps.
RecoveryIsEarned ==
    (redisFaults + evaluatorCrashes = 0 /\ ~evalsOverlapped) =>
        \A e \in Evaluators :
            evalPc[e] = "emit" /\ ~saw[e] => announced = "firing" /\ cleanRun = Windows

\* "Alerts must never go silent during a Redis outage": a state that suppresses
\* the next breaches exists only while a firing has been or is being announced
\* that was not recovered, whatever Redis commands failed.
SuppressionWasAnnounced ==
    (evaluatorCrashes = 0 /\ ~evalsOverlapped /\ alert # NoAlert) =>
        \/ announced = "firing"
        \/ \E e \in Evaluators : evalPc[e] = "emit" /\ saw[e]

\* A signal that stays clean does not stay firing.
SignalsClear == <>[](~breaching) => <>[](alert = NoAlert)

\* One evaluation at a time, and neither a recovery nor a silence that was not
\* preceded by what justifies it.
AnnouncementsAreWarranted == LockExcludes /\ RecoveryIsEarned /\ SuppressionWasAnnounced
=============================================================================
