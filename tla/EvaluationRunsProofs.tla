------------------------ MODULE EvaluationRunsProofs ------------------------
(***************************************************************************)
(* The safety properties of EvaluationRuns, for every set of runs, slots   *)
(* and processes, every timeout and every number of faults and crashes.    *)
(***************************************************************************)
EXTENDS EvaluationRuns, TLAPS

\* Locations from which an execution writes nothing more.
Finished == {"announceSucceeded", "failing", "reread", "announceFailed", "done", "gone"}

\* A row exists exactly when its request got past the insert; the stage of an
\* execution tells what it has written; a success ends the writing; after a late
\* write the next fence is still to come; and a runner never fails a row with
\* the sweepers' reason.
ExecutionOK(r) ==
    /\ status[r] = "absent" <=> pc[r] = "idle"
    /\ stage[r] = "findings" => "result" \in written[r]
    /\ stage[r] = "absent" => "result" \in written[r] /\ "findings" \in written[r]
    /\ stage[r] = "close" => written[r] = Writes
    /\ status[r] = "SUCCEEDED" => written[r] = Writes /\ late[r] = {} /\ pc[r] \in Finished
    /\ late[r] # {} => status[r] \in Terminal /\ pc[r] \notin {"recheck", "act"}
    /\ \A v, w \in late[r] : v = w
    /\ pc[r] = "failing" => cause[r] \in Causes

\* A row still to be updated by a sweep, and not touched since the listing, is
\* as stale as it was listed.
ListedOK(r) ==
    \A p \in Replicas : r \in listed[p] =>
        /\ status[r] # "absent"
        /\ IsActive(r) /\ r \notin moved[p] => idle[r] = StaleAfter

\* What one sweep is about to report, or some sweep has reported, is a row that
\* was closed by a sweep, and it is reported once.
ReportedOK(r) ==
    /\ \A p \in Replicas : r \in reaped[p] => status[r] = "FAILED" /\ SweeperEvents(r) = {}
    /\ SweeperEvents(r) # {} => status[r] = "FAILED"
    /\ \A i, j \in SweeperEvents(r) : i = j
    /\ \A p, q \in Replicas : r \in reaped[p] /\ r \in reaped[q] => p = q

\* The inductive invariant.
RunsInv ==
    /\ TypeOK
    /\ OneActivePerSlot
    /\ \A r \in Runs : ExecutionOK(r) /\ ListedOK(r) /\ ReportedOK(r)

-----------------------------------------------------------------------------
LEMMA InitEstablishesInv == Init => RunsInv
  <1> SUFFICES ASSUME Init PROVE RunsInv
    OBVIOUS
  <1> USE StaleAfterAssumption, TimelyAssumption, BoundsAssumption, NullAssumption
  <1>1. TypeOK
    BY DEF Init, TypeOK, Statuses, Active, Terminal, Errors, Causes, Writes, Stages, Locations
  <1>2. OneActivePerSlot
    BY DEF Init, OneActivePerSlot, IsActive, Active
  <1>3. ASSUME NEW r \in Runs PROVE ExecutionOK(r) /\ ListedOK(r) /\ ReportedOK(r)
    BY <1>3 DEF Init, ExecutionOK, ListedOK, ReportedOK, SweeperEvents
  <1>4. QED
    BY <1>1, <1>2, <1>3 DEF RunsInv

-----------------------------------------------------------------------------
\* What the helpers leave typed.
LEMMA TouchTypes ==
    ASSUME TypeOK, NEW r \in Runs, Touch(r)
    PROVE  idle' \in [Runs -> 0 .. StaleAfter] /\ moved' \in [Replicas -> SUBSET Runs]
  BY StaleAfterAssumption DEF TypeOK, Touch

LEMMA SweepUpdateTypes ==
    ASSUME TypeOK, NEW p \in Replicas, NEW r \in Runs, SweepUpdate(p, r)
    PROVE  /\ status' \in [Runs -> Statuses] /\ error' \in [Runs -> Errors]
           /\ idle' \in [Runs -> 0 .. StaleAfter] /\ moved' \in [Replicas -> SUBSET Runs]
           /\ slotOf' = slotOf /\ started' = started
  <1>1. CASE SweepMatches(p, r)
    BY <1>1, TouchTypes DEF SweepUpdate, TypeOK, Statuses, Terminal, Errors
  <1>2. CASE ~SweepMatches(p, r)
    <2>1. moved' = [moved EXCEPT ![p] = @ \ {r}] /\ UNCHANGED <<status, error, idle, slotOf, started>>
      BY <1>2 DEF SweepUpdate
    <2>2. QED
      BY <2>1 DEF TypeOK
  <1>3. QED
    BY <1>1, <1>2

LEMMA GotoTypes ==
    ASSUME TypeOK, NEW r \in Runs, NEW l \in Locations, Goto(r, l)
    PROVE  pc' \in [Runs -> Locations]
  BY DEF TypeOK, Goto

LEMMA FailTypes ==
    ASSUME TypeOK, NEW r \in Runs, NEW c \in Causes, FailWith(r, c)
    PROVE  pc' \in [Runs -> Locations] /\ cause' \in [Runs -> Errors]
  <1>1. pc' \in [Runs -> Locations]
    BY GotoTypes DEF FailWith, Locations, Executing
  <1>2. cause' \in [Runs -> Errors]
    BY DEF TypeOK, FailWith, Errors
  <1>3. QED
    BY <1>1, <1>2

LEMMA CreateRowTypes ==
    ASSUME TypeOK, NEW r \in Runs, NEW s \in Slots, CreateRow(r, s)
    PROVE  /\ status' \in [Runs -> Statuses] /\ slotOf' \in [Runs -> Slots \union {NoSlot}]
           /\ started' = started /\ error' = error /\ idle' = idle
  BY DEF TypeOK, CreateRow, Statuses, Active

LEMMA CloseRowTypes ==
    ASSUME TypeOK, NEW r \in Runs, NEW s \in Terminal, NEW e \in Errors, CloseRow(r, s, e)
    PROVE  /\ status' \in [Runs -> Statuses] /\ error' \in [Runs -> Errors]
           /\ idle' \in [Runs -> 0 .. StaleAfter] /\ moved' \in [Replicas -> SUBSET Runs]
           /\ listed' = listed /\ slotOf' = slotOf /\ started' = started
  <1>1. status' \in [Runs -> Statuses] /\ error' \in [Runs -> Errors]
    BY DEF TypeOK, CloseRow, Statuses
  <1>2. QED
    BY <1>1, TouchTypes DEF CloseRow

LEMMA FaultTypes == TypeOK /\ Fault => faults' \in 0 .. MaxFaults
  BY BoundsAssumption DEF TypeOK, Fault

LEMMA PerformTypes ==
    ASSUME TypeOK, NEW r \in Runs, stage[r] \in Writes, Perform(r)
    PROVE  written' \in [Runs -> SUBSET Writes] /\ late' \in [Runs -> SUBSET Writes]
  BY DEF TypeOK, Perform

LEMMA PublishTypes ==
    ASSUME TypeOK, NEW r \in Runs, NEW e \in Event, Publish(r, e)
    PROVE  events' \in [Runs -> Seq(Event)]
  BY DEF TypeOK, Publish

LEMMA AfterIsStage == \A s \in Writes : After[s] \in Stages
  BY DEF Stages, Writes, After

\* Each step keeps the types.
LEMMA NextPreservesTypes == TypeOK /\ [Next]_vars => TypeOK'
  <1> SUFFICES ASSUME TypeOK, [Next]_vars PROVE TypeOK'
    OBVIOUS
  <1> USE StaleAfterAssumption, TimelyAssumption, BoundsAssumption
  <1>a. /\ {"opening", "opened", "gone", "done"} \subseteq Locations
        /\ Executing \subseteq Locations
        /\ {"loading", "judging", "fence", "recheck", "act", "failing", "reread",
            "announceSucceeded", "announceFailed"} \subseteq Executing
    BY DEF Locations, Executing
  <1>b. /\ Terminal \subseteq Statuses /\ Causes \subseteq Errors /\ "none" \in Errors
        /\ {"work", "conflict", "db"} \subseteq Causes /\ {"SUCCEEDED", "FAILED"} \subseteq Terminal
        /\ "RUNNING" \in Statuses /\ Writes \subseteq Stages /\ "result" \in Writes
    BY DEF Statuses, Active, Terminal, Errors, Causes, Writes, Stages
  <1>1. ASSUME NEW r \in Runs, NEW p \in Replicas, NEW s \in Slots, StartRun(r, p, s) PROVE TypeOK'
    <2>1. pc' \in [Runs -> Locations] /\ host' \in [Runs -> Replicas \union {NoHost}]
      <3>1. "opening" \in Locations
        BY DEF Locations
      <3>2. QED
        BY <1>1, <3>1, GotoTypes DEF StartRun, TypeOK
    <2>2. QED
      BY <1>1, <2>1, CreateRowTypes DEF StartRun, TypeOK, writeVars, sweepVars, envVars
  <1>2. ASSUME NEW r \in Runs, NEW s \in Slots, StartReplyLost(r, s) PROVE TypeOK'
    <2>1. pc' \in [Runs -> Locations]
      <3>1. "gone" \in Locations
        BY DEF Locations
      <3>2. QED
        BY <1>2, <3>1, GotoTypes DEF StartReplyLost
    <2>2. QED
      BY <1>2, <2>1, CreateRowTypes, FaultTypes DEF StartReplyLost, TypeOK, writeVars, sweepVars
  <1>3. ASSUME NEW r \in Runs, MarkRunning(r) PROVE TypeOK'
    <2>1. pc' \in [Runs -> Locations]
      BY <1>3, <1>a, GotoTypes DEF MarkRunning
    <2>2. /\ status' \in [Runs -> Statuses] /\ started' \in [Runs -> BOOLEAN]
          /\ idle' \in [Runs -> 0 .. StaleAfter] /\ moved' \in [Replicas -> SUBSET Runs]
      <3>1. CASE status[r] = "QUEUED"
        <4>1. /\ status' = [status EXCEPT ![r] = "RUNNING"]
              /\ started' = [started EXCEPT ![r] = TRUE] /\ Touch(r)
          BY <1>3, <3>1 DEF MarkRunning
        <4>2. status' \in [Runs -> Statuses]
          BY <1>b, <4>1 DEF TypeOK
        <4>3. started' \in [Runs -> BOOLEAN]
          BY <4>1 DEF TypeOK
        <4>4. QED
          BY <4>1, <4>2, <4>3, TouchTypes
      <3>2. CASE status[r] # "QUEUED"
        BY <1>3, <3>2 DEF MarkRunning, TypeOK
      <3>3. QED
        BY <3>1, <3>2
    <2>3. QED
      BY <1>3, <2>1, <2>2 DEF MarkRunning, TypeOK, writeVars, envVars
  <1>4. ASSUME NEW r \in Runs, LoadRun(r) PROVE TypeOK'
    <2>1. pc' \in [Runs -> Locations]
      BY <1>4, <1>a, GotoTypes DEF LoadRun
    <2>2. QED
      BY <1>4, <2>1 DEF LoadRun, TypeOK, rowVars, writeVars, sweepVars, envVars
  <1>5. ASSUME NEW r \in Runs, OpenFails(r) PROVE TypeOK'
    <2>1. pc' \in [Runs -> Locations]
      BY <1>5, <1>a, GotoTypes DEF OpenFails
    <2>2. QED
      BY <1>5, <2>1, FaultTypes DEF OpenFails, TypeOK, rowVars, writeVars, sweepVars
  <1>6. ASSUME NEW r \in Runs, LoadIdentity(r) PROVE TypeOK'
    <2>1. pc' \in [Runs -> Locations]
      BY <1>6, <1>a, GotoTypes DEF LoadIdentity
    <2>2. QED
      BY <1>6, <1>b, <2>1 DEF LoadIdentity, TypeOK, rowVars, writeVars, sweepVars, envVars
  <1>7. ASSUME NEW r \in Runs, Judge(r) PROVE TypeOK'
    <2>1. pc' \in [Runs -> Locations]
      BY <1>7, <1>a, GotoTypes DEF Judge
    <2>2. QED
      BY <1>7, <2>1 DEF Judge, TypeOK, rowVars, writeVars, sweepVars, envVars
  <1>8. ASSUME NEW r \in Runs, JudgeFails(r) PROVE TypeOK'
    <2>1. pc' \in [Runs -> Locations] /\ cause' \in [Runs -> Errors]
      BY <1>8, <1>b, FailTypes DEF JudgeFails
    <2>2. QED
      BY <1>8, <2>1 DEF JudgeFails, TypeOK, rowVars, writeVars, sweepVars, envVars
  <1>9. ASSUME NEW r \in Runs, Fence(r) PROVE TypeOK'
    <2>1. pc' \in [Runs -> Locations] /\ cause' \in [Runs -> Errors]
      <3>1. CASE IsActive(r) /\ started[r] = held[r]
        BY <1>9, <1>a, <3>1, GotoTypes DEF Fence, TypeOK
      <3>2. CASE ~(IsActive(r) /\ started[r] = held[r])
        BY <1>9, <1>b, <3>2, FailTypes DEF Fence
      <3>3. QED
        BY <3>1, <3>2
    <2>2. QED
      BY <1>9, <2>1 DEF Fence, TypeOK, rowVars, writeVars, sweepVars, envVars
  <1>10. ASSUME NEW r \in Runs, RecheckResult(r) PROVE TypeOK'
    <2>1. pc' \in [Runs -> Locations] /\ cause' \in [Runs -> Errors]
      <3>1. CASE IsActive(r)
        BY <1>10, <1>a, <3>1, GotoTypes DEF RecheckResult, TypeOK
      <3>2. CASE ~(IsActive(r))
        BY <1>10, <1>b, <3>2, FailTypes DEF RecheckResult
      <3>3. QED
        BY <3>1, <3>2
    <2>2. QED
      BY <1>10, <2>1 DEF RecheckResult, TypeOK, rowVars, writeVars, sweepVars, envVars
  <1>11. ASSUME NEW r \in Runs, Rejected(r) PROVE TypeOK'
    <2>1. pc' \in [Runs -> Locations] /\ cause' \in [Runs -> Errors]
      BY <1>11, <1>b, FailTypes DEF Rejected
    <2>2. QED
      BY <1>11, <2>1 DEF Rejected, TypeOK, rowVars, writeVars, sweepVars, envVars
  <1>12. ASSUME NEW r \in Runs, Write(r) PROVE TypeOK'
    <2>1. pc' \in [Runs -> Locations]
      BY <1>12, <1>a, GotoTypes DEF Write
    <2>2. QED
      BY <1>12, <2>1, PerformTypes, AfterIsStage
      DEF Write, TypeOK, rowVars, sweepVars, envVars
  <1>13. ASSUME NEW r \in Runs, MarkSucceeded(r) PROVE TypeOK'
    <2>1. CASE IsActive(r)
      <3>1. pc' \in [Runs -> Locations] /\ cause' = cause /\ CloseRow(r, "SUCCEEDED", "none")
        BY <1>13, <1>a, <2>1, GotoTypes DEF MarkSucceeded
      <3>2. QED
        BY <1>13, <1>b, <3>1, CloseRowTypes DEF MarkSucceeded, TypeOK, writeVars, envVars
    <2>2. CASE ~IsActive(r)
      <3>1. pc' \in [Runs -> Locations] /\ cause' \in [Runs -> Errors]
        BY <1>13, <1>b, <2>2, FailTypes DEF MarkSucceeded
      <3>2. QED
        BY <1>13, <2>2, <3>1 DEF MarkSucceeded, TypeOK, rowVars, writeVars, envVars
    <2>3. QED
      BY <2>1, <2>2
  <1>14. ASSUME NEW r \in Runs, MarkFailed(r) PROVE TypeOK'
    <2>1. CASE IsActive(r)
      <3>1. pc' \in [Runs -> Locations] /\ CloseRow(r, "FAILED", cause[r])
        BY <1>14, <1>a, <2>1, GotoTypes DEF MarkFailed
      <3>2. cause[r] \in Errors
        BY DEF TypeOK
      <3>3. QED
        BY <1>14, <1>b, <3>1, <3>2, CloseRowTypes DEF MarkFailed, TypeOK, writeVars, envVars
    <2>2. CASE ~IsActive(r)
      <3>1. pc' \in [Runs -> Locations]
        BY <1>14, <1>a, <2>2, GotoTypes DEF MarkFailed
      <3>2. QED
        BY <1>14, <2>2, <3>1 DEF MarkFailed, TypeOK, rowVars, writeVars, envVars
    <2>3. QED
      BY <2>1, <2>2
  <1>15. ASSUME NEW r \in Runs, RereadError(r) PROVE TypeOK'
    <2>1. pc' \in [Runs -> Locations]
      BY <1>15, <1>a, GotoTypes DEF RereadError
    <2>2. QED
      BY <1>15, <2>1 DEF RereadError, TypeOK, rowVars, writeVars, sweepVars, envVars
  <1>16. ASSUME NEW r \in Runs, AnnounceSucceeded(r) PROVE TypeOK'
    <2>1. pc' \in [Runs -> Locations]
      BY <1>16, <1>a, GotoTypes DEF AnnounceSucceeded
    <2>2. QED
      BY <1>16, <1>b, <2>1, PublishTypes
      DEF AnnounceSucceeded, TypeOK, Event, rowVars, writeVars, sweepVars, envVars
  <1>17. ASSUME NEW r \in Runs, AnnounceFailed(r) PROVE TypeOK'
    <2>1. pc' \in [Runs -> Locations] /\ cause[r] \in Errors
      BY <1>17, <1>a, GotoTypes DEF AnnounceFailed, TypeOK
    <2>2. QED
      BY <1>17, <1>b, <2>1, PublishTypes
      DEF AnnounceFailed, TypeOK, Event, rowVars, writeVars, sweepVars, envVars
  <1>18. ASSUME NEW r \in Runs, StatementFails(r) PROVE TypeOK'
    <2>1. pc' \in [Runs -> Locations] /\ cause' \in [Runs -> Errors]
      <3>1. CASE FailWith(r, "db")
        BY <1>b, <3>1, FailTypes
      <3>2. CASE Goto(r, "reread") /\ UNCHANGED cause
        BY <1>a, <3>2, GotoTypes DEF TypeOK
      <3>3. CASE Goto(r, "announceFailed") /\ UNCHANGED cause
        BY <1>a, <3>3, GotoTypes DEF TypeOK
      <3>4. QED
        BY <1>18, <3>1, <3>2, <3>3 DEF StatementFails
    <2>2. QED
      BY <1>18, <2>1, FaultTypes DEF StatementFails, TypeOK, rowVars, writeVars, sweepVars
  <1>19. ASSUME NEW r \in Runs, WriteReplyLost(r) PROVE TypeOK'
    <2>1. pc' \in [Runs -> Locations] /\ cause' \in [Runs -> Errors]
      BY <1>19, <1>b, FailTypes DEF WriteReplyLost
    <2>2. QED
      BY <1>19, <2>1, PerformTypes, FaultTypes DEF WriteReplyLost, TypeOK, rowVars, sweepVars
  <1>20. ASSUME NEW r \in Runs, CloseReplyLost(r) PROVE TypeOK'
    <2>1. PICK s \in Terminal, e \in Errors : CloseRow(r, s, e)
      BY <1>20, <1>b DEF CloseReplyLost, TypeOK
    <2>2. pc' \in [Runs -> Locations] /\ cause' \in [Runs -> Errors]
      <3>1. CASE FailWith(r, "db")
        BY <1>b, <3>1, FailTypes
      <3>2. CASE Goto(r, "reread") /\ UNCHANGED cause
        BY <1>a, <3>2, GotoTypes DEF TypeOK
      <3>3. QED
        BY <1>20, <3>1, <3>2 DEF CloseReplyLost
    <2>3. QED
      BY <1>20, <2>1, <2>2, CloseRowTypes, FaultTypes DEF CloseReplyLost, TypeOK, writeVars
  <1>21. ASSUME NEW r \in Runs, AnnouncementSkipped(r) PROVE TypeOK'
    <2>1. pc' \in [Runs -> Locations]
      BY <1>21, <1>a, GotoTypes DEF AnnouncementSkipped
    <2>2. QED
      BY <1>21, <2>1, FaultTypes DEF AnnouncementSkipped, TypeOK, rowVars, writeVars, sweepVars
  <1>22. ASSUME NEW r \in Runs, Heartbeat(r) PROVE TypeOK'
    <2>1. idle' \in [Runs -> 0 .. StaleAfter] /\ moved' \in [Replicas -> SUBSET Runs]
      BY <1>22, TouchTypes DEF Heartbeat, TypeOK
    <2>2. QED
      BY <1>22, <2>1 DEF Heartbeat, TypeOK, writeVars, envVars
  <1>23. ASSUME NEW p \in Replicas, SweepList(p) PROVE TypeOK'
    BY <1>23 DEF SweepList, TypeOK, rowVars, writeVars, execVars, envVars
  <1>24. ASSUME NEW p \in Replicas, NEW r \in Runs, SweepClose(p, r) PROVE TypeOK'
    BY <1>24, SweepUpdateTypes DEF SweepClose, TypeOK, writeVars, execVars, envVars
  <1>25. ASSUME NEW p \in Replicas, NEW r \in Runs, SweepPublish(p, r) PROVE TypeOK'
    <2>1. "stale" \in Errors
      BY DEF Errors
    <2>2. QED
      BY <1>25, <1>b, <2>1, PublishTypes
      DEF SweepPublish, TypeOK, Event, rowVars, writeVars, execVars, envVars
  <1>26. ASSUME NEW p \in Replicas, NEW r \in Runs, SweepPublishSkipped(p, r) PROVE TypeOK'
    BY <1>26, FaultTypes DEF SweepPublishSkipped, TypeOK, rowVars, writeVars, execVars
  <1>27. ASSUME NEW p \in Replicas, NEW r \in Runs, SweepAborts(p, r) PROVE TypeOK'
    <2>1. /\ status' \in [Runs -> Statuses] /\ error' \in [Runs -> Errors]
          /\ idle' \in [Runs -> 0 .. StaleAfter] /\ moved' \in [Replicas -> SUBSET Runs]
          /\ slotOf' = slotOf /\ started' = started
      BY <1>27, SweepUpdateTypes DEF SweepAborts, TypeOK, rowVars
    <2>2. QED
      BY <1>27, <2>1, FaultTypes DEF SweepAborts, TypeOK, writeVars, execVars
  <1>28. ASSUME NEW p \in Replicas, Crash(p) PROVE TypeOK'
    <2>1. pc' \in [Runs -> Locations]
      BY <1>28, <1>a DEF Crash, TypeOK
    <2>2. QED
      BY <1>28, <2>1 DEF Crash, TypeOK, rowVars, writeVars
  <1>29. ASSUME NEW p \in Replicas, Restart(p) PROVE TypeOK'
    BY <1>29 DEF Restart, TypeOK, rowVars, writeVars, execVars, envVars
  <1>30. ASSUME Tick PROVE TypeOK'
    BY <1>30 DEF Tick, TypeOK, writeVars, sweepVars, envVars
  <1>31. CASE UNCHANGED vars
    BY <1>31 DEF vars, TypeOK, rowVars, writeVars, execVars, sweepVars, envVars
  <1>32. QED
    BY <1>1, <1>2, <1>3, <1>4, <1>5, <1>6, <1>7, <1>8, <1>9, <1>10, <1>11, <1>12, <1>13,
       <1>14, <1>15, <1>16, <1>17, <1>18, <1>19, <1>20, <1>21, <1>22, <1>23, <1>24,
       <1>25, <1>26, <1>27, <1>28, <1>29, <1>30, <1>31
    DEF Next, Opening, Running, Faulting, Sweeping, SweepFaulting

LEMMA TouchMarksListed ==
    ASSUME TypeOK, NEW r \in Runs, Touch(r), NEW q \in Runs,
           NEW p \in Replicas, q \in listed'[p]
    PROVE  /\ q = r => q \in moved'[p]
           /\ q # r => idle'[q] = idle[q] /\ (q \in moved'[p] <=> q \in moved[p])
  BY DEF TypeOK, Touch

LEMMA SweepUpdateKeepsListed ==
    ASSUME TypeOK, NEW p \in Replicas, NEW r \in Runs, SweepUpdate(p, r),
           listed' \in [Replicas -> SUBSET Runs], r \notin listed'[p],
           \A o \in Replicas : listed'[o] \subseteq listed[o],
           NEW q \in Runs, ListedOK(q)
    PROVE  ListedOK(q)'
  <1> SUFFICES ASSUME NEW o \in Replicas, q \in listed'[o]
               PROVE  /\ status'[q] # "absent"
                      /\ status'[q] \in Active /\ q \notin moved'[o] => idle'[q] = StaleAfter
    BY DEF ListedOK, IsActive
  <1>1. /\ status[q] # "absent"
        /\ status[q] \in Active /\ q \notin moved[o] => idle[q] = StaleAfter
    BY DEF ListedOK, IsActive
  <1>2. CASE SweepMatches(p, r)
    <2>1. status' = [status EXCEPT ![r] = "FAILED"] /\ Touch(r)
      BY <1>2 DEF SweepUpdate
    <2>2. QED
      BY <1>1, <2>1, TouchMarksListed DEF TypeOK, Active
  <1>3. CASE ~SweepMatches(p, r)
    <2>1. moved' = [moved EXCEPT ![p] = @ \ {r}] /\ UNCHANGED <<status, idle>>
      BY <1>3 DEF SweepUpdate
    <2>2. QED
      BY <1>1, <2>1 DEF TypeOK
  <1>4. QED
    BY <1>2, <1>3
-----------------------------------------------------------------------------
\* The program order of each execution, its fences and its conditional closes.
LEMMA NextPreservesExecution == RunsInv /\ [Next]_vars => \A q \in Runs : ExecutionOK(q)'
  <1> SUFFICES ASSUME RunsInv, [Next]_vars, NEW q \in Runs PROVE ExecutionOK(q)'
    OBVIOUS
  <1>a. TypeOK /\ ExecutionOK(q)
    BY DEF RunsInv
  <1> USE <1>a, StaleAfterAssumption
      DEF TypeOK, Statuses, Active, Terminal, Errors, Causes, Writes, Stages, Locations,
          Executing, IsActive, Finished, ExecutionOK
  <1>1. ASSUME NEW r \in Runs, NEW p \in Replicas, NEW s \in Slots, StartRun(r, p, s) PROVE ExecutionOK(q)'
    BY <1>1 DEF StartRun, CreateRow, IndexAdmits, At, Goto, writeVars, sweepVars, envVars
  <1>2. ASSUME NEW r \in Runs, NEW s \in Slots, StartReplyLost(r, s) PROVE ExecutionOK(q)'
    BY <1>2
    DEF StartReplyLost, CreateRow, IndexAdmits, At, Goto, Fault, writeVars, sweepVars
  <1>3. ASSUME NEW r \in Runs, MarkRunning(r) PROVE ExecutionOK(q)'
    BY <1>3 DEF MarkRunning, At, Goto, writeVars, envVars
  <1>4. ASSUME NEW r \in Runs, LoadRun(r) PROVE ExecutionOK(q)'
    BY <1>4 DEF LoadRun, At, Goto, rowVars, writeVars, sweepVars, envVars
  <1>5. ASSUME NEW r \in Runs, OpenFails(r) PROVE ExecutionOK(q)'
    BY <1>5 DEF OpenFails, Goto, Fault, rowVars, writeVars, sweepVars
  <1>6. ASSUME NEW r \in Runs, LoadIdentity(r) PROVE ExecutionOK(q)'
    BY <1>6 DEF LoadIdentity, At, Goto, rowVars, writeVars, sweepVars, envVars
  <1>7. ASSUME NEW r \in Runs, Judge(r) PROVE ExecutionOK(q)'
    BY <1>7 DEF Judge, At, Goto, rowVars, writeVars, sweepVars, envVars
  <1>8. ASSUME NEW r \in Runs, JudgeFails(r) PROVE ExecutionOK(q)'
    BY <1>8 DEF JudgeFails, At, Goto, FailWith, rowVars, writeVars, sweepVars, envVars
  <1>9. ASSUME NEW r \in Runs, Fence(r) PROVE ExecutionOK(q)'
    BY <1>9 DEF Fence, At, Goto, FailWith, rowVars, writeVars, sweepVars, envVars
  <1>10. ASSUME NEW r \in Runs, RecheckResult(r) PROVE ExecutionOK(q)'
    BY <1>10 DEF RecheckResult, At, Goto, FailWith, rowVars, writeVars, sweepVars, envVars
  <1>11. ASSUME NEW r \in Runs, Rejected(r) PROVE ExecutionOK(q)'
    BY <1>11 DEF Rejected, At, Goto, FailWith, rowVars, writeVars, sweepVars, envVars
  <1>12. ASSUME NEW r \in Runs, Write(r) PROVE ExecutionOK(q)'
    BY <1>12 DEF Write, At, Goto, Perform, After, rowVars, sweepVars, envVars
  <1>13. ASSUME NEW r \in Runs, MarkSucceeded(r) PROVE ExecutionOK(q)'
    BY <1>13 DEF MarkSucceeded, At, Goto, FailWith, CloseRow, rowVars, writeVars, envVars
  <1>14. ASSUME NEW r \in Runs, MarkFailed(r) PROVE ExecutionOK(q)'
    BY <1>14 DEF MarkFailed, At, Goto, CloseRow, rowVars, writeVars, envVars
  <1>15. ASSUME NEW r \in Runs, RereadError(r) PROVE ExecutionOK(q)'
    BY <1>15 DEF RereadError, At, Goto, rowVars, writeVars, sweepVars, envVars
  <1>16. ASSUME NEW r \in Runs, AnnounceSucceeded(r) PROVE ExecutionOK(q)'
    BY <1>16
    DEF AnnounceSucceeded, At, Goto, Publish, rowVars, writeVars, sweepVars, envVars
  <1>17. ASSUME NEW r \in Runs, AnnounceFailed(r) PROVE ExecutionOK(q)'
    BY <1>17 DEF AnnounceFailed, At, Goto, Publish, rowVars, writeVars, sweepVars, envVars
  <1>18. ASSUME NEW r \in Runs, StatementFails(r) PROVE ExecutionOK(q)'
    BY <1>18 DEF StatementFails, At, Goto, FailWith, Fault, rowVars, writeVars, sweepVars
  <1>19. ASSUME NEW r \in Runs, WriteReplyLost(r) PROVE ExecutionOK(q)'
    BY <1>19 DEF WriteReplyLost, At, Goto, FailWith, Perform, Fault, rowVars, sweepVars
  <1>20. ASSUME NEW r \in Runs, CloseReplyLost(r) PROVE ExecutionOK(q)'
    BY <1>20 DEF CloseReplyLost, At, Goto, FailWith, CloseRow, Fault, writeVars
  <1>21. ASSUME NEW r \in Runs, AnnouncementSkipped(r) PROVE ExecutionOK(q)'
    BY <1>21 DEF AnnouncementSkipped, At, Goto, Fault, rowVars, writeVars, sweepVars
  <1>22. ASSUME NEW r \in Runs, Heartbeat(r) PROVE ExecutionOK(q)'
    BY <1>22 DEF Heartbeat, writeVars, envVars
  <1>23. ASSUME NEW p \in Replicas, SweepList(p) PROVE ExecutionOK(q)'
    BY <1>23 DEF SweepList, ReapInFlight, rowVars, writeVars, execVars, envVars
  <1>24. ASSUME NEW p \in Replicas, NEW r \in Runs, SweepClose(p, r) PROVE ExecutionOK(q)'
    BY <1>24 DEF SweepClose, SweepUpdate, SweepMatches, writeVars, execVars, envVars
  <1>25. ASSUME NEW p \in Replicas, NEW r \in Runs, SweepPublish(p, r) PROVE ExecutionOK(q)'
    BY <1>25 DEF SweepPublish, Publish, rowVars, writeVars, execVars, envVars
  <1>26. ASSUME NEW p \in Replicas, NEW r \in Runs, SweepPublishSkipped(p, r) PROVE ExecutionOK(q)'
    BY <1>26 DEF SweepPublishSkipped, Fault, rowVars, writeVars, execVars
  <1>27. ASSUME NEW p \in Replicas, NEW r \in Runs, SweepAborts(p, r) PROVE ExecutionOK(q)'
    BY <1>27
    DEF SweepAborts, SweepUpdate, SweepMatches, Fault, rowVars, writeVars, execVars
  <1>28. ASSUME NEW p \in Replicas, Crash(p) PROVE ExecutionOK(q)'
    BY <1>28 DEF Crash, Living, rowVars, writeVars
  <1>29. ASSUME NEW p \in Replicas, Restart(p) PROVE ExecutionOK(q)'
    BY <1>29 DEF Restart, rowVars, writeVars, execVars, envVars
  <1>30. ASSUME Tick PROVE ExecutionOK(q)'
    BY <1>30 DEF Tick, writeVars, sweepVars, envVars
  <1>31. CASE UNCHANGED vars
    BY <1>31 DEF vars, rowVars, writeVars, execVars, sweepVars, envVars
  <1>32. QED
    BY <1>1, <1>2, <1>3, <1>4, <1>5, <1>6, <1>7, <1>8, <1>9, <1>10, <1>11, <1>12, <1>13,
       <1>14, <1>15, <1>16, <1>17, <1>18, <1>19, <1>20, <1>21, <1>22, <1>23, <1>24,
       <1>25, <1>26, <1>27, <1>28, <1>29, <1>30, <1>31
    DEF Next, Opening, Running, Faulting, Sweeping, SweepFaulting
-----------------------------------------------------------------------------
\* Only a row untouched since its listing can still match the update of a sweep.
LEMMA NextPreservesListed == RunsInv /\ [Next]_vars => \A q \in Runs : ListedOK(q)'
  <1> SUFFICES ASSUME RunsInv, [Next]_vars, NEW q \in Runs PROVE ListedOK(q)'
    OBVIOUS
  <1>a. TypeOK /\ ExecutionOK(q) /\ ListedOK(q)
    BY DEF RunsInv
  <1> USE <1>a, StaleAfterAssumption
      DEF TypeOK, Statuses, Active, Terminal, Locations, Executing, IsActive, IsStale,
          ExecutionOK, ListedOK
  <1>1. ASSUME NEW r \in Runs, NEW p \in Replicas, NEW s \in Slots, StartRun(r, p, s) PROVE ListedOK(q)'
    BY <1>1 DEF StartRun, CreateRow, IndexAdmits, At, Goto, writeVars, sweepVars, envVars
  <1>2. ASSUME NEW r \in Runs, NEW s \in Slots, StartReplyLost(r, s) PROVE ListedOK(q)'
    BY <1>2
    DEF StartReplyLost, CreateRow, IndexAdmits, At, Goto, Fault, writeVars, sweepVars
  <1>3. ASSUME NEW r \in Runs, MarkRunning(r) PROVE ListedOK(q)'
    BY <1>3, TouchMarksListed DEF MarkRunning, At, Goto, writeVars, envVars
  <1>4. ASSUME NEW r \in Runs, LoadRun(r) PROVE ListedOK(q)'
    BY <1>4 DEF LoadRun, At, Goto, rowVars, writeVars, sweepVars, envVars
  <1>5. ASSUME NEW r \in Runs, OpenFails(r) PROVE ListedOK(q)'
    BY <1>5 DEF OpenFails, Goto, Fault, rowVars, writeVars, sweepVars
  <1>6. ASSUME NEW r \in Runs, LoadIdentity(r) PROVE ListedOK(q)'
    BY <1>6 DEF LoadIdentity, At, Goto, rowVars, writeVars, sweepVars, envVars
  <1>7. ASSUME NEW r \in Runs, Judge(r) PROVE ListedOK(q)'
    BY <1>7 DEF Judge, At, Goto, rowVars, writeVars, sweepVars, envVars
  <1>8. ASSUME NEW r \in Runs, JudgeFails(r) PROVE ListedOK(q)'
    BY <1>8 DEF JudgeFails, At, Goto, FailWith, rowVars, writeVars, sweepVars, envVars
  <1>9. ASSUME NEW r \in Runs, Fence(r) PROVE ListedOK(q)'
    BY <1>9 DEF Fence, At, Goto, FailWith, rowVars, writeVars, sweepVars, envVars
  <1>10. ASSUME NEW r \in Runs, RecheckResult(r) PROVE ListedOK(q)'
    BY <1>10 DEF RecheckResult, At, Goto, FailWith, rowVars, writeVars, sweepVars, envVars
  <1>11. ASSUME NEW r \in Runs, Rejected(r) PROVE ListedOK(q)'
    BY <1>11 DEF Rejected, At, Goto, FailWith, rowVars, writeVars, sweepVars, envVars
  <1>12. ASSUME NEW r \in Runs, Write(r) PROVE ListedOK(q)'
    BY <1>12 DEF Write, At, Goto, Perform, After, rowVars, sweepVars, envVars
  <1>13. ASSUME NEW r \in Runs, MarkSucceeded(r) PROVE ListedOK(q)'
    BY <1>13, TouchMarksListed
    DEF MarkSucceeded, At, Goto, FailWith, CloseRow, rowVars, writeVars, envVars
  <1>14. ASSUME NEW r \in Runs, MarkFailed(r) PROVE ListedOK(q)'
    BY <1>14, TouchMarksListed
    DEF MarkFailed, At, Goto, CloseRow, rowVars, writeVars, envVars
  <1>15. ASSUME NEW r \in Runs, RereadError(r) PROVE ListedOK(q)'
    BY <1>15 DEF RereadError, At, Goto, rowVars, writeVars, sweepVars, envVars
  <1>16. ASSUME NEW r \in Runs, AnnounceSucceeded(r) PROVE ListedOK(q)'
    BY <1>16
    DEF AnnounceSucceeded, At, Goto, Publish, rowVars, writeVars, sweepVars, envVars
  <1>17. ASSUME NEW r \in Runs, AnnounceFailed(r) PROVE ListedOK(q)'
    BY <1>17 DEF AnnounceFailed, At, Goto, Publish, rowVars, writeVars, sweepVars, envVars
  <1>18. ASSUME NEW r \in Runs, StatementFails(r) PROVE ListedOK(q)'
    BY <1>18 DEF StatementFails, At, Goto, FailWith, Fault, rowVars, writeVars, sweepVars
  <1>19. ASSUME NEW r \in Runs, WriteReplyLost(r) PROVE ListedOK(q)'
    BY <1>19 DEF WriteReplyLost, At, Goto, FailWith, Perform, Fault, rowVars, sweepVars
  <1>20. ASSUME NEW r \in Runs, CloseReplyLost(r) PROVE ListedOK(q)'
    BY <1>20, TouchMarksListed
    DEF CloseReplyLost, At, Goto, FailWith, CloseRow, Fault, writeVars
  <1>21. ASSUME NEW r \in Runs, AnnouncementSkipped(r) PROVE ListedOK(q)'
    BY <1>21 DEF AnnouncementSkipped, At, Goto, Fault, rowVars, writeVars, sweepVars
  <1>22. ASSUME NEW r \in Runs, Heartbeat(r) PROVE ListedOK(q)'
    BY <1>22, TouchMarksListed DEF Heartbeat, writeVars, envVars
  <1>23. ASSUME NEW p \in Replicas, SweepList(p) PROVE ListedOK(q)'
    BY <1>23 DEF SweepList, ReapInFlight, rowVars, writeVars, execVars, envVars
  <1>24. ASSUME NEW p \in Replicas, NEW r \in Runs, SweepClose(p, r) PROVE ListedOK(q)'
    BY <1>24, SweepUpdateKeepsListed DEF SweepClose
  <1>25. ASSUME NEW p \in Replicas, NEW r \in Runs, SweepPublish(p, r) PROVE ListedOK(q)'
    BY <1>25 DEF SweepPublish, Publish, rowVars, writeVars, execVars, envVars
  <1>26. ASSUME NEW p \in Replicas, NEW r \in Runs, SweepPublishSkipped(p, r) PROVE ListedOK(q)'
    BY <1>26 DEF SweepPublishSkipped, Fault, rowVars, writeVars, execVars
  <1>27. ASSUME NEW p \in Replicas, NEW r \in Runs, SweepAborts(p, r) PROVE ListedOK(q)'
    <2>1. CASE SweepUpdate(p, r)
      BY <1>27, <2>1, SweepUpdateKeepsListed DEF SweepAborts
    <2>2. CASE UNCHANGED <<rowVars, moved>>
      BY <1>27, <2>2 DEF SweepAborts, rowVars
    <2>3. QED
      BY <1>27, <2>1, <2>2 DEF SweepAborts
  <1>28. ASSUME NEW p \in Replicas, Crash(p) PROVE ListedOK(q)'
    BY <1>28 DEF Crash, Living, rowVars, writeVars
  <1>29. ASSUME NEW p \in Replicas, Restart(p) PROVE ListedOK(q)'
    BY <1>29 DEF Restart, rowVars, writeVars, execVars, envVars
  <1>30. ASSUME Tick PROVE ListedOK(q)'
    BY <1>30 DEF Tick, writeVars, sweepVars, envVars
  <1>31. CASE UNCHANGED vars
    BY <1>31 DEF vars, rowVars, writeVars, execVars, sweepVars, envVars
  <1>32. QED
    BY <1>1, <1>2, <1>3, <1>4, <1>5, <1>6, <1>7, <1>8, <1>9, <1>10, <1>11, <1>12, <1>13,
       <1>14, <1>15, <1>16, <1>17, <1>18, <1>19, <1>20, <1>21, <1>22, <1>23, <1>24,
       <1>25, <1>26, <1>27, <1>28, <1>29, <1>30, <1>31
    DEF Next, Opening, Running, Faulting, Sweeping, SweepFaulting
-----------------------------------------------------------------------------
\* A row leaves a sweep's report when it is published, and enters one only by
\* the update that closed it.
LEMMA NextPreservesReported == RunsInv /\ [Next]_vars => \A q \in Runs : ReportedOK(q)'
  <1> SUFFICES ASSUME RunsInv, [Next]_vars, NEW q \in Runs PROVE ReportedOK(q)'
    OBVIOUS
  <1>a. TypeOK /\ ExecutionOK(q) /\ ReportedOK(q)
    BY DEF RunsInv
  <1> USE <1>a, StaleAfterAssumption
      DEF TypeOK, Statuses, Active, Terminal, Locations, Executing, IsActive, SweeperEvents,
          ExecutionOK, ReportedOK
  <1>1. ASSUME NEW r \in Runs, NEW p \in Replicas, NEW s \in Slots, StartRun(r, p, s) PROVE ReportedOK(q)'
    BY <1>1 DEF StartRun, CreateRow, IndexAdmits, At, Goto, writeVars, sweepVars, envVars
  <1>2. ASSUME NEW r \in Runs, NEW s \in Slots, StartReplyLost(r, s) PROVE ReportedOK(q)'
    BY <1>2
    DEF StartReplyLost, CreateRow, IndexAdmits, At, Goto, Fault, writeVars, sweepVars
  <1>3. ASSUME NEW r \in Runs, MarkRunning(r) PROVE ReportedOK(q)'
    BY <1>3 DEF MarkRunning, At, Goto, writeVars, envVars
  <1>4. ASSUME NEW r \in Runs, LoadRun(r) PROVE ReportedOK(q)'
    BY <1>4 DEF LoadRun, At, Goto, rowVars, writeVars, sweepVars, envVars
  <1>5. ASSUME NEW r \in Runs, OpenFails(r) PROVE ReportedOK(q)'
    BY <1>5 DEF OpenFails, Goto, Fault, rowVars, writeVars, sweepVars
  <1>6. ASSUME NEW r \in Runs, LoadIdentity(r) PROVE ReportedOK(q)'
    BY <1>6 DEF LoadIdentity, At, Goto, rowVars, writeVars, sweepVars, envVars
  <1>7. ASSUME NEW r \in Runs, Judge(r) PROVE ReportedOK(q)'
    BY <1>7 DEF Judge, At, Goto, rowVars, writeVars, sweepVars, envVars
  <1>8. ASSUME NEW r \in Runs, JudgeFails(r) PROVE ReportedOK(q)'
    BY <1>8 DEF JudgeFails, At, Goto, FailWith, rowVars, writeVars, sweepVars, envVars
  <1>9. ASSUME NEW r \in Runs, Fence(r) PROVE ReportedOK(q)'
    BY <1>9 DEF Fence, At, Goto, FailWith, rowVars, writeVars, sweepVars, envVars
  <1>10. ASSUME NEW r \in Runs, RecheckResult(r) PROVE ReportedOK(q)'
    BY <1>10 DEF RecheckResult, At, Goto, FailWith, rowVars, writeVars, sweepVars, envVars
  <1>11. ASSUME NEW r \in Runs, Rejected(r) PROVE ReportedOK(q)'
    BY <1>11 DEF Rejected, At, Goto, FailWith, rowVars, writeVars, sweepVars, envVars
  <1>12. ASSUME NEW r \in Runs, Write(r) PROVE ReportedOK(q)'
    BY <1>12 DEF Write, At, Goto, Perform, After, rowVars, sweepVars, envVars
  <1>13. ASSUME NEW r \in Runs, MarkSucceeded(r) PROVE ReportedOK(q)'
    BY <1>13 DEF MarkSucceeded, At, Goto, FailWith, CloseRow, rowVars, writeVars, envVars
  <1>14. ASSUME NEW r \in Runs, MarkFailed(r) PROVE ReportedOK(q)'
    BY <1>14 DEF MarkFailed, At, Goto, CloseRow, rowVars, writeVars, envVars
  <1>15. ASSUME NEW r \in Runs, RereadError(r) PROVE ReportedOK(q)'
    BY <1>15 DEF RereadError, At, Goto, rowVars, writeVars, sweepVars, envVars
  <1>16. ASSUME NEW r \in Runs, AnnounceSucceeded(r) PROVE ReportedOK(q)'
    BY <1>16
    DEF AnnounceSucceeded, At, Goto, Publish, rowVars, writeVars, sweepVars, envVars
  <1>17. ASSUME NEW r \in Runs, AnnounceFailed(r) PROVE ReportedOK(q)'
    BY <1>17 DEF AnnounceFailed, At, Goto, Publish, rowVars, writeVars, sweepVars, envVars
  <1>18. ASSUME NEW r \in Runs, StatementFails(r) PROVE ReportedOK(q)'
    BY <1>18 DEF StatementFails, At, Goto, FailWith, Fault, rowVars, writeVars, sweepVars
  <1>19. ASSUME NEW r \in Runs, WriteReplyLost(r) PROVE ReportedOK(q)'
    BY <1>19 DEF WriteReplyLost, At, Goto, FailWith, Perform, Fault, rowVars, sweepVars
  <1>20. ASSUME NEW r \in Runs, CloseReplyLost(r) PROVE ReportedOK(q)'
    BY <1>20 DEF CloseReplyLost, At, Goto, FailWith, CloseRow, Fault, writeVars
  <1>21. ASSUME NEW r \in Runs, AnnouncementSkipped(r) PROVE ReportedOK(q)'
    BY <1>21 DEF AnnouncementSkipped, At, Goto, Fault, rowVars, writeVars, sweepVars
  <1>22. ASSUME NEW r \in Runs, Heartbeat(r) PROVE ReportedOK(q)'
    BY <1>22 DEF Heartbeat, writeVars, envVars
  <1>23. ASSUME NEW p \in Replicas, SweepList(p) PROVE ReportedOK(q)'
    BY <1>23 DEF SweepList, ReapInFlight, rowVars, writeVars, execVars, envVars
  <1>24. ASSUME NEW p \in Replicas, NEW r \in Runs, SweepClose(p, r) PROVE ReportedOK(q)'
    BY <1>24 DEF SweepClose, SweepUpdate, SweepMatches, writeVars, execVars, envVars
  <1>25. ASSUME NEW p \in Replicas, NEW r \in Runs, SweepPublish(p, r) PROVE ReportedOK(q)'
    BY <1>25 DEF SweepPublish, Publish, rowVars, writeVars, execVars, envVars
  <1>26. ASSUME NEW p \in Replicas, NEW r \in Runs, SweepPublishSkipped(p, r) PROVE ReportedOK(q)'
    BY <1>26 DEF SweepPublishSkipped, Fault, rowVars, writeVars, execVars
  <1>27. ASSUME NEW p \in Replicas, NEW r \in Runs, SweepAborts(p, r) PROVE ReportedOK(q)'
    BY <1>27
    DEF SweepAborts, SweepUpdate, SweepMatches, Fault, rowVars, writeVars, execVars
  <1>28. ASSUME NEW p \in Replicas, Crash(p) PROVE ReportedOK(q)'
    BY <1>28 DEF Crash, Living, rowVars, writeVars
  <1>29. ASSUME NEW p \in Replicas, Restart(p) PROVE ReportedOK(q)'
    BY <1>29 DEF Restart, rowVars, writeVars, execVars, envVars
  <1>30. ASSUME Tick PROVE ReportedOK(q)'
    BY <1>30 DEF Tick, writeVars, sweepVars, envVars
  <1>31. CASE UNCHANGED vars
    BY <1>31 DEF vars, rowVars, writeVars, execVars, sweepVars, envVars
  <1>32. QED
    BY <1>1, <1>2, <1>3, <1>4, <1>5, <1>6, <1>7, <1>8, <1>9, <1>10, <1>11, <1>12, <1>13,
       <1>14, <1>15, <1>16, <1>17, <1>18, <1>19, <1>20, <1>21, <1>22, <1>23, <1>24,
       <1>25, <1>26, <1>27, <1>28, <1>29, <1>30, <1>31
    DEF Next, Opening, Running, Faulting, Sweeping, SweepFaulting
-----------------------------------------------------------------------------
\* What a step may do to one row: a terminal row is final, the sweepers' reason
\* needs a stale row, a row never changes slot, and it becomes active only by
\* an insert that the partial index admits.
RowStep(r) ==
    /\ status[r] \in Terminal => status'[r] = status[r] /\ error'[r] = error[r]
    /\ error[r] # "stale" /\ error'[r] = "stale" => IsStale(r)
    /\ status[r] # "absent" => slotOf'[r] = slotOf[r]
    /\ IsActive(r)' =>
        \/ IsActive(r)
        \/ /\ IndexAdmits(slotOf'[r])
           /\ \A q \in Runs \ {r} : status'[q] = status[q]

LEMMA NextIsRowStep == RunsInv /\ [Next]_vars => \A q \in Runs : RowStep(q)
  <1> SUFFICES ASSUME RunsInv, [Next]_vars, NEW q \in Runs PROVE RowStep(q)
    OBVIOUS
  <1>a. TypeOK /\ ExecutionOK(q) /\ ListedOK(q)
    BY DEF RunsInv
  <1> USE <1>a, StaleAfterAssumption
      DEF TypeOK, Statuses, Active, Terminal, Errors, Causes, Locations, Executing, IsActive,
          IsStale, ExecutionOK, ListedOK, RowStep
  <1>1. ASSUME NEW r \in Runs, NEW p \in Replicas, NEW s \in Slots, StartRun(r, p, s) PROVE RowStep(q)
    BY <1>1 DEF StartRun, CreateRow, IndexAdmits, At, Goto, writeVars, sweepVars, envVars
  <1>2. ASSUME NEW r \in Runs, NEW s \in Slots, StartReplyLost(r, s) PROVE RowStep(q)
    BY <1>2
    DEF StartReplyLost, CreateRow, IndexAdmits, At, Goto, Fault, writeVars, sweepVars
  <1>3. ASSUME NEW r \in Runs, MarkRunning(r) PROVE RowStep(q)
    BY <1>3 DEF MarkRunning, At, Goto, writeVars, envVars
  <1>4. ASSUME NEW r \in Runs, LoadRun(r) PROVE RowStep(q)
    BY <1>4 DEF LoadRun, At, Goto, rowVars, writeVars, sweepVars, envVars
  <1>5. ASSUME NEW r \in Runs, OpenFails(r) PROVE RowStep(q)
    BY <1>5 DEF OpenFails, Goto, Fault, rowVars, writeVars, sweepVars
  <1>6. ASSUME NEW r \in Runs, LoadIdentity(r) PROVE RowStep(q)
    BY <1>6 DEF LoadIdentity, At, Goto, rowVars, writeVars, sweepVars, envVars
  <1>7. ASSUME NEW r \in Runs, Judge(r) PROVE RowStep(q)
    BY <1>7 DEF Judge, At, Goto, rowVars, writeVars, sweepVars, envVars
  <1>8. ASSUME NEW r \in Runs, JudgeFails(r) PROVE RowStep(q)
    BY <1>8 DEF JudgeFails, At, Goto, FailWith, rowVars, writeVars, sweepVars, envVars
  <1>9. ASSUME NEW r \in Runs, Fence(r) PROVE RowStep(q)
    BY <1>9 DEF Fence, At, Goto, FailWith, rowVars, writeVars, sweepVars, envVars
  <1>10. ASSUME NEW r \in Runs, RecheckResult(r) PROVE RowStep(q)
    BY <1>10 DEF RecheckResult, At, Goto, FailWith, rowVars, writeVars, sweepVars, envVars
  <1>11. ASSUME NEW r \in Runs, Rejected(r) PROVE RowStep(q)
    BY <1>11 DEF Rejected, At, Goto, FailWith, rowVars, writeVars, sweepVars, envVars
  <1>12. ASSUME NEW r \in Runs, Write(r) PROVE RowStep(q)
    BY <1>12 DEF Write, At, Goto, Perform, After, rowVars, sweepVars, envVars
  <1>13. ASSUME NEW r \in Runs, MarkSucceeded(r) PROVE RowStep(q)
    BY <1>13 DEF MarkSucceeded, At, Goto, FailWith, CloseRow, rowVars, writeVars, envVars
  <1>14. ASSUME NEW r \in Runs, MarkFailed(r) PROVE RowStep(q)
    BY <1>14 DEF MarkFailed, At, Goto, CloseRow, rowVars, writeVars, envVars
  <1>15. ASSUME NEW r \in Runs, RereadError(r) PROVE RowStep(q)
    BY <1>15 DEF RereadError, At, Goto, rowVars, writeVars, sweepVars, envVars
  <1>16. ASSUME NEW r \in Runs, AnnounceSucceeded(r) PROVE RowStep(q)
    BY <1>16
    DEF AnnounceSucceeded, At, Goto, Publish, rowVars, writeVars, sweepVars, envVars
  <1>17. ASSUME NEW r \in Runs, AnnounceFailed(r) PROVE RowStep(q)
    BY <1>17 DEF AnnounceFailed, At, Goto, Publish, rowVars, writeVars, sweepVars, envVars
  <1>18. ASSUME NEW r \in Runs, StatementFails(r) PROVE RowStep(q)
    BY <1>18 DEF StatementFails, At, Goto, FailWith, Fault, rowVars, writeVars, sweepVars
  <1>19. ASSUME NEW r \in Runs, WriteReplyLost(r) PROVE RowStep(q)
    BY <1>19 DEF WriteReplyLost, At, Goto, FailWith, Perform, Fault, rowVars, sweepVars
  <1>20. ASSUME NEW r \in Runs, CloseReplyLost(r) PROVE RowStep(q)
    BY <1>20 DEF CloseReplyLost, At, Goto, FailWith, CloseRow, Fault, writeVars
  <1>21. ASSUME NEW r \in Runs, AnnouncementSkipped(r) PROVE RowStep(q)
    BY <1>21 DEF AnnouncementSkipped, At, Goto, Fault, rowVars, writeVars, sweepVars
  <1>22. ASSUME NEW r \in Runs, Heartbeat(r) PROVE RowStep(q)
    BY <1>22 DEF Heartbeat, writeVars, envVars
  <1>23. ASSUME NEW p \in Replicas, SweepList(p) PROVE RowStep(q)
    BY <1>23 DEF SweepList, ReapInFlight, rowVars, writeVars, execVars, envVars
  <1>24. ASSUME NEW p \in Replicas, NEW r \in Runs, SweepClose(p, r) PROVE RowStep(q)
    BY <1>24 DEF SweepClose, SweepUpdate, SweepMatches, writeVars, execVars, envVars
  <1>25. ASSUME NEW p \in Replicas, NEW r \in Runs, SweepPublish(p, r) PROVE RowStep(q)
    BY <1>25 DEF SweepPublish, Publish, rowVars, writeVars, execVars, envVars
  <1>26. ASSUME NEW p \in Replicas, NEW r \in Runs, SweepPublishSkipped(p, r) PROVE RowStep(q)
    BY <1>26 DEF SweepPublishSkipped, Fault, rowVars, writeVars, execVars
  <1>27. ASSUME NEW p \in Replicas, NEW r \in Runs, SweepAborts(p, r) PROVE RowStep(q)
    BY <1>27
    DEF SweepAborts, SweepUpdate, SweepMatches, Fault, rowVars, writeVars, execVars
  <1>28. ASSUME NEW p \in Replicas, Crash(p) PROVE RowStep(q)
    BY <1>28 DEF Crash, Living, rowVars, writeVars
  <1>29. ASSUME NEW p \in Replicas, Restart(p) PROVE RowStep(q)
    BY <1>29 DEF Restart, rowVars, writeVars, execVars, envVars
  <1>30. ASSUME Tick PROVE RowStep(q)
    BY <1>30 DEF Tick, writeVars, sweepVars, envVars
  <1>31. CASE UNCHANGED vars
    BY <1>31 DEF vars, rowVars, writeVars, execVars, sweepVars, envVars
  <1>32. QED
    BY <1>1, <1>2, <1>3, <1>4, <1>5, <1>6, <1>7, <1>8, <1>9, <1>10, <1>11, <1>12, <1>13,
       <1>14, <1>15, <1>16, <1>17, <1>18, <1>19, <1>20, <1>21, <1>22, <1>23, <1>24,
       <1>25, <1>26, <1>27, <1>28, <1>29, <1>30, <1>31
    DEF Next, Opening, Running, Faulting, Sweeping, SweepFaulting

LEMMA NextPreservesOneActive == RunsInv /\ [Next]_vars => OneActivePerSlot'
  <1> SUFFICES ASSUME RunsInv, [Next]_vars, NEW q \in Runs, NEW r \in Runs,
                      IsActive(q)', IsActive(r)', slotOf'[q] = slotOf'[r], q # r
               PROVE  FALSE
    BY DEF OneActivePerSlot
  <1>1. RowStep(q) /\ RowStep(r)
    BY NextIsRowStep
  <1>2. CASE IsActive(q) /\ IsActive(r)
    BY <1>1, <1>2 DEF RunsInv, OneActivePerSlot, RowStep, IsActive, Active
  <1>3. CASE ~IsActive(q)
    <2>1. IndexAdmits(slotOf'[q]) /\ IsActive(r)
      BY <1>1, <1>3 DEF RowStep, IsActive
    <2>2. QED
      BY <1>1, <2>1 DEF RowStep, IndexAdmits, IsActive, Active
  <1>4. CASE ~IsActive(r)
    <2>1. IndexAdmits(slotOf'[r]) /\ IsActive(q)
      BY <1>1, <1>4 DEF RowStep, IsActive
    <2>2. QED
      BY <1>1, <2>1 DEF RowStep, IndexAdmits, IsActive, Active
  <1>5. QED
    BY <1>2, <1>3, <1>4

LEMMA NextPreservesInv == RunsInv /\ [Next]_vars => RunsInv'
  BY NextPreservesTypes, NextPreservesOneActive, NextPreservesExecution,
     NextPreservesListed, NextPreservesReported DEF RunsInv

-----------------------------------------------------------------------------
\* The index, the program order of the executions and the sweeps' bookkeeping
\* hold together in every reachable state.
THEOREM InvAlways == Spec => []RunsInv
  BY InitEstablishesInv, NextPreservesInv, PTL DEF Spec

\* Every reachable state is well typed.
THEOREM TypeCorrect == Spec => []TypeOK
  BY InvAlways, PTL DEF RunsInv

\* At most one run of a subject and version is active, through reaping, late
\* completions and orphaned rows (the partial unique index of startRun).
THEOREM OneActive == Spec => []OneActivePerSlot
  BY InvAlways, PTL DEF RunsInv

\* A SUCCEEDED row stands for a complete execution that nothing overtook: its
\* three writes are done, and were done while the row was active.
THEOREM SuccessIsComplete == Spec => []SucceededIsComplete
  <1>1. RunsInv => SucceededIsComplete
    BY DEF RunsInv, ExecutionOK, SucceededIsComplete
  <1>2. QED
    BY InvAlways, <1>1, PTL

\* assertActive lets at most one write through after the row was closed.
THEOREM LateWritesBounded == Spec => []AtMostOneLateWrite
  <1>1. RunsInv => AtMostOneLateWrite
    BY DEF RunsInv, ExecutionOK, AtMostOneLateWrite
  <1>2. QED
    BY InvAlways, <1>1, PTL

\* However many processes sweep, crash or abort, a reaped row is reported by one
\* of them at most, once at most (the conditional update of reapStaleRuns).
THEOREM ReportedOnce == Spec => []SweepersReportOnce
  <1>1. RunsInv => SweepersReportOnce
    BY DEF RunsInv, ReportedOK, SweepersReportOnce
  <1>2. QED
    BY InvAlways, <1>1, PTL

\* No writer overwrites a terminal status or its reason.
THEOREM TerminalStays == Spec => TerminalIsFinal
  <1>1. RunsInv /\ [Next]_vars =>
            [\A r \in Runs : status[r] \in Terminal =>
                 status'[r] = status[r] /\ error'[r] = error[r]]_vars
    BY NextIsRowStep DEF RowStep
  <1>2. QED
    BY InvAlways, <1>1, PTL DEF Spec, TerminalIsFinal

\* A sweep closes only rows that are stale when its update lands, though it
\* listed them earlier.
THEOREM StaleWhenReaped == Spec => OnlyStaleRowsReaped
  <1>1. RunsInv /\ [Next]_vars =>
            [\A r \in Runs : error[r] # "stale" /\ error'[r] = "stale" => IsStale(r)]_vars
    BY NextIsRowStep DEF RowStep
  <1>2. QED
    BY InvAlways, <1>1, PTL DEF Spec, OnlyStaleRowsReaped

-----------------------------------------------------------------------------
(* Settlement: how a run is closed and announced while nothing fails, and   *)
(* while the heartbeats come in time.                                       *)

\* Without failures a row and whoever is about to announce it agree: the runner
\* that closed it, the runner that read back how it was closed, and the sweep.
SettledOK(r) ==
    faults = 0 /\ crashes = 0 =>
        /\ \A i \in DOMAIN events[r] :
               events[r][i].status = status[r] /\ events[r][i].error = error[r]
        /\ events[r] # << >> => status[r] \in Terminal
        /\ error[r] = "stale" => SweeperEvents(r) # {} \/ \E p \in Replicas : r \in reaped[p]
        /\ \A p \in Replicas : r \in reaped[p] => status[r] = "FAILED" /\ error[r] = "stale"
        /\ status[r] = "FAILED" <=> error[r] # "none"
        /\ status[r] = "SUCCEEDED" => pc[r] \in {"announceSucceeded", "done"}
        /\ pc[r] = "announceSucceeded" => status[r] = "SUCCEEDED"
        /\ pc[r] = "reread" => status[r] = "FAILED"
        /\ pc[r] = "announceFailed" => status[r] = "FAILED" /\ cause[r] = error[r]

\* Timers in time keep the row of a living execution young: at most one interval
\* old while it is admitted and after a beat, at most two before the next one.
BeatOK(r) ==
    /\ status[r] = "absent" => idle[r] = 0
    /\ Timely /\ Living(r) /\ IsActive(r) =>
           idle[r] <= IF pc[r] \in {"opening", "opened"} \/ beat[r] THEN 1 ELSE 2

Working == {"opening", "opened", "loading", "judging", "fence", "recheck", "act", "failing"}
Announcing == {"announceSucceeded", "announceFailed"}

\* So nobody else closes it, and whoever announces a run is alone in doing so.
UndisturbedOK(r) ==
    Timely /\ MaxFaults = 0 =>
        /\ pc[r] # "reread" /\ (pc[r] \in Working => IsActive(r))
        /\ late[r] = {} /\ Len(events[r]) <= 1
        /\ pc[r] \in Announcing => ~IsActive(r)
        /\ events[r] # << >> => status[r] \in Terminal /\ pc[r] \notin Announcing
        /\ \A p \in Replicas : r \in reaped[p] => events[r] = << >> /\ pc[r] \notin Announcing

SettlementInv == RunsInv /\ \A r \in Runs : SettledOK(r) /\ BeatOK(r) /\ UndisturbedOK(r)

\* An event that says what the earlier ones say.
LEMMA PublishAgrees ==
    ASSUME TypeOK, NEW r \in Runs, NEW b \in {"runner", "sweeper"}, NEW s \in Terminal,
           NEW x \in Errors, Publish(r, [by |-> b, status |-> s, error |-> x]),
           \A i \in DOMAIN events[r] : events[r][i].status = s /\ events[r][i].error = x
    PROVE  /\ \A i \in DOMAIN events'[r] : events'[r][i].status = s /\ events'[r][i].error = x
           /\ SweeperEvents(r) # {} \/ b = "sweeper" => SweeperEvents(r)' # {}
  <1> DEFINE e == [by |-> b, status |-> s, error |-> x]
             n == Len(events[r]) + 1
  <1>1. events[r] \in Seq(Event) /\ e \in Event
    BY DEF TypeOK, Event
  <1>2. events'[r] = Append(events[r], e)
    BY <1>1 DEF TypeOK, Publish
  <1> HIDE DEF e
  <1>3. /\ DOMAIN events'[r] = 1 .. n /\ n \in 1 .. n /\ events'[r][n] = e
        /\ DOMAIN events[r] = 1 .. Len(events[r])
        /\ \A i \in DOMAIN events[r] : events'[r][i] = events[r][i]
        /\ \A i \in 1 .. n : i = n \/ i \in DOMAIN events[r]
    BY <1>1, <1>2
  <1>4. e.by = b /\ e.status = s /\ e.error = x
    BY DEF e
  <1>5. \A i \in DOMAIN events'[r] : events'[r][i].status = s /\ events'[r][i].error = x
    BY <1>3, <1>4
  <1>6. ASSUME SweeperEvents(r) # {} PROVE SweeperEvents(r)' # {}
    <2>1. PICK i \in DOMAIN events[r] : events[r][i].by = "sweeper"
      BY <1>6 DEF SweeperEvents
    <2>2. i \in DOMAIN events'[r] /\ events'[r][i].by = "sweeper"
      BY <1>3, <2>1
    <2>3. QED
      BY <2>2 DEF SweeperEvents
  <1>7. ASSUME b = "sweeper" PROVE SweeperEvents(r)' # {}
    BY <1>3, <1>4, <1>7 DEF SweeperEvents
  <1>8. QED
    BY <1>5, <1>6, <1>7

LEMMA AnnounceFailedSettles ==
    ASSUME TypeOK, NEW r \in Runs, SettledOK(r), AnnounceFailed(r)
    PROVE  SettledOK(r)'
  <1> SUFFICES ASSUME faults = 0, crashes = 0 PROVE SettledOK(r)'
    BY DEF AnnounceFailed, envVars, SettledOK
  <1>1. pc[r] = "announceFailed" /\ pc'[r] = "done"
    BY DEF AnnounceFailed, At, Goto, TypeOK
  <1>2. status[r] = "FAILED" /\ cause[r] = error[r] /\ error[r] \in Errors /\ "FAILED" \in Terminal
    BY <1>1 DEF SettledOK, TypeOK, Terminal
  <1>3. UNCHANGED <<status, error, reaped>>
    BY DEF AnnounceFailed, rowVars, sweepVars
  <1>4. Publish(r, [by |-> "runner", status |-> "FAILED", error |-> error[r]])
    BY <1>2 DEF AnnounceFailed
  <1>5. \A i \in DOMAIN events[r] : events[r][i].status = "FAILED" /\ events[r][i].error = error[r]
    BY <1>2 DEF SettledOK
  <1>6. /\ \A i \in DOMAIN events'[r] : events'[r][i].status = "FAILED" /\ events'[r][i].error = error[r]
        /\ SweeperEvents(r) # {} => SweeperEvents(r)' # {}
    BY <1>2, <1>4, <1>5, PublishAgrees
  <1>7. QED
    BY <1>1, <1>2, <1>3, <1>6 DEF SettledOK

LEMMA SweepPublishSettles ==
    ASSUME TypeOK, NEW r \in Runs, SettledOK(r), NEW p \in Replicas, SweepPublish(p, r)
    PROVE  SettledOK(r)'
  <1> SUFFICES ASSUME faults = 0, crashes = 0 PROVE SettledOK(r)'
    BY DEF SweepPublish, envVars, SettledOK
  <1>1. status[r] = "FAILED" /\ error[r] = "stale" /\ "stale" \in Errors /\ "FAILED" \in Terminal
    BY DEF SweepPublish, SettledOK, Errors, Terminal
  <1>2. UNCHANGED <<status, error, pc, cause>> /\ \A o \in Replicas : reaped'[o] \subseteq reaped[o]
    BY DEF SweepPublish, rowVars, execVars, TypeOK
  <1>3. Publish(r, [by |-> "sweeper", status |-> "FAILED", error |-> "stale"])
    BY DEF SweepPublish
  <1>4. \A i \in DOMAIN events[r] : events[r][i].status = "FAILED" /\ events[r][i].error = "stale"
    BY <1>1 DEF SettledOK
  <1>5. /\ \A i \in DOMAIN events'[r] : events'[r][i].status = "FAILED" /\ events'[r][i].error = "stale"
        /\ SweeperEvents(r)' # {}
    BY <1>1, <1>3, <1>4, PublishAgrees
  <1>6. QED
    BY <1>1, <1>2, <1>5 DEF SettledOK

LEMMA InitEstablishesSettlement == Init => SettlementInv
  <1> SUFFICES ASSUME Init, NEW r \in Runs PROVE SettledOK(r) /\ BeatOK(r) /\ UndisturbedOK(r)
    BY InitEstablishesInv DEF SettlementInv
  <1>1. SettledOK(r)
    BY DEF Init, SettledOK, SweeperEvents
  <1>2. BeatOK(r)
    BY DEF Init, BeatOK, Living, Executing
  <1>3. UndisturbedOK(r)
    BY DEF Init, UndisturbedOK, Working, Announcing
  <1>4. QED
    BY <1>1, <1>2, <1>3

LEMMA NextPreservesBeat == SettlementInv /\ [Next]_vars => \A q \in Runs : BeatOK(q)'
  <1> SUFFICES ASSUME SettlementInv, [Next]_vars, NEW q \in Runs PROVE BeatOK(q)'
    OBVIOUS
  <1>a. TypeOK /\ ExecutionOK(q) /\ BeatOK(q)
    BY DEF SettlementInv, RunsInv
  <1> USE <1>a, StaleAfterAssumption
      DEF TypeOK, Statuses, Active, Terminal, Locations, Executing, IsActive, Living,
          Touch, ExecutionOK, BeatOK
  <1>1. ASSUME NEW r \in Runs, NEW p \in Replicas, NEW s \in Slots, StartRun(r, p, s) PROVE BeatOK(q)'
    BY <1>1 DEF StartRun, CreateRow, IndexAdmits, At, Goto, writeVars, sweepVars, envVars
  <1>2. ASSUME NEW r \in Runs, NEW s \in Slots, StartReplyLost(r, s) PROVE BeatOK(q)'
    BY <1>2
    DEF StartReplyLost, CreateRow, IndexAdmits, At, Goto, Fault, writeVars, sweepVars
  <1>3. ASSUME NEW r \in Runs, MarkRunning(r) PROVE BeatOK(q)'
    BY <1>3 DEF MarkRunning, At, Goto, writeVars, envVars
  <1>4. ASSUME NEW r \in Runs, LoadRun(r) PROVE BeatOK(q)'
    BY <1>4 DEF LoadRun, At, Goto, rowVars, writeVars, sweepVars, envVars
  <1>5. ASSUME NEW r \in Runs, OpenFails(r) PROVE BeatOK(q)'
    BY <1>5 DEF OpenFails, Goto, Fault, rowVars, writeVars, sweepVars
  <1>6. ASSUME NEW r \in Runs, LoadIdentity(r) PROVE BeatOK(q)'
    BY <1>6 DEF LoadIdentity, At, Goto, rowVars, writeVars, sweepVars, envVars
  <1>7. ASSUME NEW r \in Runs, Judge(r) PROVE BeatOK(q)'
    BY <1>7 DEF Judge, At, Goto, rowVars, writeVars, sweepVars, envVars
  <1>8. ASSUME NEW r \in Runs, JudgeFails(r) PROVE BeatOK(q)'
    BY <1>8 DEF JudgeFails, At, Goto, FailWith, rowVars, writeVars, sweepVars, envVars
  <1>9. ASSUME NEW r \in Runs, Fence(r) PROVE BeatOK(q)'
    BY <1>9 DEF Fence, At, Goto, FailWith, rowVars, writeVars, sweepVars, envVars
  <1>10. ASSUME NEW r \in Runs, RecheckResult(r) PROVE BeatOK(q)'
    BY <1>10 DEF RecheckResult, At, Goto, FailWith, rowVars, writeVars, sweepVars, envVars
  <1>11. ASSUME NEW r \in Runs, Rejected(r) PROVE BeatOK(q)'
    BY <1>11 DEF Rejected, At, Goto, FailWith, rowVars, writeVars, sweepVars, envVars
  <1>12. ASSUME NEW r \in Runs, Write(r) PROVE BeatOK(q)'
    BY <1>12 DEF Write, At, Goto, Perform, After, rowVars, sweepVars, envVars
  <1>13. ASSUME NEW r \in Runs, MarkSucceeded(r) PROVE BeatOK(q)'
    BY <1>13 DEF MarkSucceeded, At, Goto, FailWith, CloseRow, rowVars, writeVars, envVars
  <1>14. ASSUME NEW r \in Runs, MarkFailed(r) PROVE BeatOK(q)'
    BY <1>14 DEF MarkFailed, At, Goto, CloseRow, rowVars, writeVars, envVars
  <1>15. ASSUME NEW r \in Runs, RereadError(r) PROVE BeatOK(q)'
    BY <1>15 DEF RereadError, At, Goto, rowVars, writeVars, sweepVars, envVars
  <1>16. ASSUME NEW r \in Runs, AnnounceSucceeded(r) PROVE BeatOK(q)'
    BY <1>16
    DEF AnnounceSucceeded, At, Goto, Publish, rowVars, writeVars, sweepVars, envVars
  <1>17. ASSUME NEW r \in Runs, AnnounceFailed(r) PROVE BeatOK(q)'
    BY <1>17 DEF AnnounceFailed, At, Goto, Publish, rowVars, writeVars, sweepVars, envVars
  <1>18. ASSUME NEW r \in Runs, StatementFails(r) PROVE BeatOK(q)'
    BY <1>18 DEF StatementFails, At, Goto, FailWith, Fault, rowVars, writeVars, sweepVars
  <1>19. ASSUME NEW r \in Runs, WriteReplyLost(r) PROVE BeatOK(q)'
    BY <1>19 DEF WriteReplyLost, At, Goto, FailWith, Perform, Fault, rowVars, sweepVars
  <1>20. ASSUME NEW r \in Runs, CloseReplyLost(r) PROVE BeatOK(q)'
    BY <1>20 DEF CloseReplyLost, At, Goto, FailWith, CloseRow, Fault, writeVars
  <1>21. ASSUME NEW r \in Runs, AnnouncementSkipped(r) PROVE BeatOK(q)'
    BY <1>21 DEF AnnouncementSkipped, At, Goto, Fault, rowVars, writeVars, sweepVars
  <1>22. ASSUME NEW r \in Runs, Heartbeat(r) PROVE BeatOK(q)'
    BY <1>22 DEF Heartbeat, writeVars, envVars
  <1>23. ASSUME NEW p \in Replicas, SweepList(p) PROVE BeatOK(q)'
    BY <1>23 DEF SweepList, ReapInFlight, rowVars, writeVars, execVars, envVars
  <1>24. ASSUME NEW p \in Replicas, NEW r \in Runs, SweepClose(p, r) PROVE BeatOK(q)'
    BY <1>24 DEF SweepClose, SweepUpdate, SweepMatches, writeVars, execVars, envVars
  <1>25. ASSUME NEW p \in Replicas, NEW r \in Runs, SweepPublish(p, r) PROVE BeatOK(q)'
    BY <1>25 DEF SweepPublish, Publish, rowVars, writeVars, execVars, envVars
  <1>26. ASSUME NEW p \in Replicas, NEW r \in Runs, SweepPublishSkipped(p, r) PROVE BeatOK(q)'
    BY <1>26 DEF SweepPublishSkipped, Fault, rowVars, writeVars, execVars
  <1>27. ASSUME NEW p \in Replicas, NEW r \in Runs, SweepAborts(p, r) PROVE BeatOK(q)'
    BY <1>27
    DEF SweepAborts, SweepUpdate, SweepMatches, Fault, rowVars, writeVars, execVars
  <1>28. ASSUME NEW p \in Replicas, Crash(p) PROVE BeatOK(q)'
    BY <1>28 DEF Crash, Living, rowVars, writeVars
  <1>29. ASSUME NEW p \in Replicas, Restart(p) PROVE BeatOK(q)'
    BY <1>29 DEF Restart, rowVars, writeVars, execVars, envVars
  <1>30. ASSUME Tick PROVE BeatOK(q)'
    BY <1>30 DEF Tick, writeVars, sweepVars, envVars
  <1>31. CASE UNCHANGED vars
    BY <1>31 DEF vars, rowVars, writeVars, execVars, sweepVars, envVars
  <1> HIDE DEF SweeperEvents, ExecutionOK, ReportedOK, ListedOK, BeatOK, SettledOK, UndisturbedOK, TypeOK
  <1>32. QED
    BY <1>1, <1>2, <1>3, <1>4, <1>5, <1>6, <1>7, <1>8, <1>9, <1>10, <1>11, <1>12, <1>13,
       <1>14, <1>15, <1>16, <1>17, <1>18, <1>19, <1>20, <1>21, <1>22, <1>23, <1>24,
       <1>25, <1>26, <1>27, <1>28, <1>29, <1>30, <1>31
    DEF Next, Opening, Running, Faulting, Sweeping, SweepFaulting

LEMMA NextPreservesSettled == SettlementInv /\ [Next]_vars => \A q \in Runs : SettledOK(q)'
  <1> SUFFICES ASSUME SettlementInv, [Next]_vars, NEW q \in Runs PROVE SettledOK(q)'
    OBVIOUS
  <1>a. TypeOK /\ ExecutionOK(q) /\ ReportedOK(q) /\ SettledOK(q)
    BY DEF SettlementInv, RunsInv
  <1> USE <1>a, StaleAfterAssumption
      DEF TypeOK, Statuses, Active, Terminal, Errors, Causes, Locations, Executing, IsActive,
          SweeperEvents, ExecutionOK, ReportedOK, SettledOK
  <1>1. ASSUME NEW r \in Runs, NEW p \in Replicas, NEW s \in Slots, StartRun(r, p, s) PROVE SettledOK(q)'
    BY <1>1 DEF StartRun, CreateRow, IndexAdmits, At, Goto, writeVars, sweepVars, envVars
  <1>2. ASSUME NEW r \in Runs, NEW s \in Slots, StartReplyLost(r, s) PROVE SettledOK(q)'
    BY <1>2
    DEF StartReplyLost, CreateRow, IndexAdmits, At, Goto, Fault, writeVars, sweepVars
  <1>3. ASSUME NEW r \in Runs, MarkRunning(r) PROVE SettledOK(q)'
    BY <1>3 DEF MarkRunning, At, Goto, writeVars, envVars
  <1>4. ASSUME NEW r \in Runs, LoadRun(r) PROVE SettledOK(q)'
    BY <1>4 DEF LoadRun, At, Goto, rowVars, writeVars, sweepVars, envVars
  <1>5. ASSUME NEW r \in Runs, OpenFails(r) PROVE SettledOK(q)'
    BY <1>5 DEF OpenFails, Goto, Fault, rowVars, writeVars, sweepVars
  <1>6. ASSUME NEW r \in Runs, LoadIdentity(r) PROVE SettledOK(q)'
    BY <1>6 DEF LoadIdentity, At, Goto, rowVars, writeVars, sweepVars, envVars
  <1>7. ASSUME NEW r \in Runs, Judge(r) PROVE SettledOK(q)'
    BY <1>7 DEF Judge, At, Goto, rowVars, writeVars, sweepVars, envVars
  <1>8. ASSUME NEW r \in Runs, JudgeFails(r) PROVE SettledOK(q)'
    BY <1>8 DEF JudgeFails, At, Goto, FailWith, rowVars, writeVars, sweepVars, envVars
  <1>9. ASSUME NEW r \in Runs, Fence(r) PROVE SettledOK(q)'
    BY <1>9 DEF Fence, At, Goto, FailWith, rowVars, writeVars, sweepVars, envVars
  <1>10. ASSUME NEW r \in Runs, RecheckResult(r) PROVE SettledOK(q)'
    BY <1>10 DEF RecheckResult, At, Goto, FailWith, rowVars, writeVars, sweepVars, envVars
  <1>11. ASSUME NEW r \in Runs, Rejected(r) PROVE SettledOK(q)'
    BY <1>11 DEF Rejected, At, Goto, FailWith, rowVars, writeVars, sweepVars, envVars
  <1>12. ASSUME NEW r \in Runs, Write(r) PROVE SettledOK(q)'
    BY <1>12 DEF Write, At, Goto, Perform, After, rowVars, sweepVars, envVars
  <1>13. ASSUME NEW r \in Runs, MarkSucceeded(r) PROVE SettledOK(q)'
    BY <1>13 DEF MarkSucceeded, At, Goto, FailWith, CloseRow, rowVars, writeVars, envVars
  <1>14. ASSUME NEW r \in Runs, MarkFailed(r) PROVE SettledOK(q)'
    BY <1>14 DEF MarkFailed, At, Goto, CloseRow, rowVars, writeVars, envVars
  <1>15. ASSUME NEW r \in Runs, RereadError(r) PROVE SettledOK(q)'
    BY <1>15 DEF RereadError, At, Goto, rowVars, writeVars, sweepVars, envVars
  <1>16. ASSUME NEW r \in Runs, AnnounceSucceeded(r) PROVE SettledOK(q)'
    BY <1>16
    DEF AnnounceSucceeded, At, Goto, Publish, rowVars, writeVars, sweepVars, envVars
  <1>17. ASSUME NEW r \in Runs, AnnounceFailed(r) PROVE SettledOK(q)'
    <2>1. CASE q = r
      BY <1>17, <2>1, AnnounceFailedSettles
    <2>2. CASE q # r
      BY <1>17, <2>2 DEF AnnounceFailed, At, Goto, Publish, rowVars, writeVars, sweepVars, envVars
    <2>3. QED
      BY <2>1, <2>2
  <1>18. ASSUME NEW r \in Runs, StatementFails(r) PROVE SettledOK(q)'
    BY <1>18 DEF StatementFails, At, Goto, FailWith, Fault, rowVars, writeVars, sweepVars
  <1>19. ASSUME NEW r \in Runs, WriteReplyLost(r) PROVE SettledOK(q)'
    BY <1>19 DEF WriteReplyLost, At, Goto, FailWith, Perform, Fault, rowVars, sweepVars
  <1>20. ASSUME NEW r \in Runs, CloseReplyLost(r) PROVE SettledOK(q)'
    BY <1>20 DEF CloseReplyLost, At, Goto, FailWith, CloseRow, Fault, writeVars
  <1>21. ASSUME NEW r \in Runs, AnnouncementSkipped(r) PROVE SettledOK(q)'
    BY <1>21 DEF AnnouncementSkipped, At, Goto, Fault, rowVars, writeVars, sweepVars
  <1>22. ASSUME NEW r \in Runs, Heartbeat(r) PROVE SettledOK(q)'
    BY <1>22 DEF Heartbeat, writeVars, envVars
  <1>23. ASSUME NEW p \in Replicas, SweepList(p) PROVE SettledOK(q)'
    BY <1>23 DEF SweepList, ReapInFlight, rowVars, writeVars, execVars, envVars
  <1>24. ASSUME NEW p \in Replicas, NEW r \in Runs, SweepClose(p, r) PROVE SettledOK(q)'
    BY <1>24 DEF SweepClose, SweepUpdate, SweepMatches, writeVars, execVars, envVars
  <1>25. ASSUME NEW p \in Replicas, NEW r \in Runs, SweepPublish(p, r) PROVE SettledOK(q)'
    <2>1. CASE q = r
      BY <1>25, <2>1, SweepPublishSettles
    <2>2. CASE q # r
      BY <1>25, <2>2 DEF SweepPublish, Publish, rowVars, writeVars, execVars, envVars
    <2>3. QED
      BY <2>1, <2>2
  <1>26. ASSUME NEW p \in Replicas, NEW r \in Runs, SweepPublishSkipped(p, r) PROVE SettledOK(q)'
    BY <1>26 DEF SweepPublishSkipped, Fault, rowVars, writeVars, execVars
  <1>27. ASSUME NEW p \in Replicas, NEW r \in Runs, SweepAborts(p, r) PROVE SettledOK(q)'
    BY <1>27
    DEF SweepAborts, SweepUpdate, SweepMatches, Fault, rowVars, writeVars, execVars
  <1>28. ASSUME NEW p \in Replicas, Crash(p) PROVE SettledOK(q)'
    BY <1>28 DEF Crash, Living, rowVars, writeVars
  <1>29. ASSUME NEW p \in Replicas, Restart(p) PROVE SettledOK(q)'
    BY <1>29 DEF Restart, rowVars, writeVars, execVars, envVars
  <1>30. ASSUME Tick PROVE SettledOK(q)'
    BY <1>30 DEF Tick, writeVars, sweepVars, envVars
  <1>31. CASE UNCHANGED vars
    BY <1>31 DEF vars, rowVars, writeVars, execVars, sweepVars, envVars
  <1> HIDE DEF SweeperEvents, ExecutionOK, ReportedOK, ListedOK, BeatOK, SettledOK, UndisturbedOK, TypeOK
  <1>32. QED
    BY <1>1, <1>2, <1>3, <1>4, <1>5, <1>6, <1>7, <1>8, <1>9, <1>10, <1>11, <1>12, <1>13,
       <1>14, <1>15, <1>16, <1>17, <1>18, <1>19, <1>20, <1>21, <1>22, <1>23, <1>24,
       <1>25, <1>26, <1>27, <1>28, <1>29, <1>30, <1>31
    DEF Next, Opening, Running, Faulting, Sweeping, SweepFaulting

LEMMA NextPreservesUndisturbed == SettlementInv /\ [Next]_vars => \A q \in Runs : UndisturbedOK(q)'
  <1> SUFFICES ASSUME SettlementInv, [Next]_vars, NEW q \in Runs PROVE UndisturbedOK(q)'
    OBVIOUS
  <1>a. TypeOK /\ ExecutionOK(q) /\ ListedOK(q) /\ ReportedOK(q) /\ BeatOK(q) /\ UndisturbedOK(q)
    BY DEF SettlementInv, RunsInv
  <1> USE <1>a, StaleAfterAssumption, TimelyAssumption
      DEF TypeOK, Statuses, Active, Terminal, Locations, Executing, IsActive, Living, Working,
          Announcing, ExecutionOK, ListedOK, ReportedOK, BeatOK, UndisturbedOK
  <1>1. ASSUME NEW r \in Runs, NEW p \in Replicas, NEW s \in Slots, StartRun(r, p, s) PROVE UndisturbedOK(q)'
    BY <1>1 DEF StartRun, CreateRow, IndexAdmits, At, Goto, writeVars, sweepVars, envVars
  <1>2. ASSUME NEW r \in Runs, NEW s \in Slots, StartReplyLost(r, s) PROVE UndisturbedOK(q)'
    BY <1>2
    DEF StartReplyLost, CreateRow, IndexAdmits, At, Goto, Fault, writeVars, sweepVars
  <1>3. ASSUME NEW r \in Runs, MarkRunning(r) PROVE UndisturbedOK(q)'
    BY <1>3 DEF MarkRunning, At, Goto, writeVars, envVars
  <1>4. ASSUME NEW r \in Runs, LoadRun(r) PROVE UndisturbedOK(q)'
    BY <1>4 DEF LoadRun, At, Goto, rowVars, writeVars, sweepVars, envVars
  <1>5. ASSUME NEW r \in Runs, OpenFails(r) PROVE UndisturbedOK(q)'
    BY <1>5 DEF OpenFails, Goto, Fault, rowVars, writeVars, sweepVars
  <1>6. ASSUME NEW r \in Runs, LoadIdentity(r) PROVE UndisturbedOK(q)'
    BY <1>6 DEF LoadIdentity, At, Goto, rowVars, writeVars, sweepVars, envVars
  <1>7. ASSUME NEW r \in Runs, Judge(r) PROVE UndisturbedOK(q)'
    BY <1>7 DEF Judge, At, Goto, rowVars, writeVars, sweepVars, envVars
  <1>8. ASSUME NEW r \in Runs, JudgeFails(r) PROVE UndisturbedOK(q)'
    BY <1>8 DEF JudgeFails, At, Goto, FailWith, rowVars, writeVars, sweepVars, envVars
  <1>9. ASSUME NEW r \in Runs, Fence(r) PROVE UndisturbedOK(q)'
    BY <1>9 DEF Fence, At, Goto, FailWith, rowVars, writeVars, sweepVars, envVars
  <1>10. ASSUME NEW r \in Runs, RecheckResult(r) PROVE UndisturbedOK(q)'
    BY <1>10 DEF RecheckResult, At, Goto, FailWith, rowVars, writeVars, sweepVars, envVars
  <1>11. ASSUME NEW r \in Runs, Rejected(r) PROVE UndisturbedOK(q)'
    BY <1>11 DEF Rejected, At, Goto, FailWith, rowVars, writeVars, sweepVars, envVars
  <1>12. ASSUME NEW r \in Runs, Write(r) PROVE UndisturbedOK(q)'
    BY <1>12 DEF Write, At, Goto, Perform, After, rowVars, sweepVars, envVars
  <1>13. ASSUME NEW r \in Runs, MarkSucceeded(r) PROVE UndisturbedOK(q)'
    BY <1>13 DEF MarkSucceeded, At, Goto, FailWith, CloseRow, rowVars, writeVars, envVars
  <1>14. ASSUME NEW r \in Runs, MarkFailed(r) PROVE UndisturbedOK(q)'
    BY <1>14 DEF MarkFailed, At, Goto, CloseRow, rowVars, writeVars, envVars
  <1>15. ASSUME NEW r \in Runs, RereadError(r) PROVE UndisturbedOK(q)'
    BY <1>15 DEF RereadError, At, Goto, rowVars, writeVars, sweepVars, envVars
  <1>16. ASSUME NEW r \in Runs, AnnounceSucceeded(r) PROVE UndisturbedOK(q)'
    BY <1>16
    DEF AnnounceSucceeded, At, Goto, Publish, rowVars, writeVars, sweepVars, envVars
  <1>17. ASSUME NEW r \in Runs, AnnounceFailed(r) PROVE UndisturbedOK(q)'
    BY <1>17 DEF AnnounceFailed, At, Goto, Publish, rowVars, writeVars, sweepVars, envVars
  <1>18. ASSUME NEW r \in Runs, StatementFails(r) PROVE UndisturbedOK(q)'
    BY <1>18 DEF StatementFails, At, Goto, FailWith, Fault, rowVars, writeVars, sweepVars
  <1>19. ASSUME NEW r \in Runs, WriteReplyLost(r) PROVE UndisturbedOK(q)'
    BY <1>19 DEF WriteReplyLost, At, Goto, FailWith, Perform, Fault, rowVars, sweepVars
  <1>20. ASSUME NEW r \in Runs, CloseReplyLost(r) PROVE UndisturbedOK(q)'
    BY <1>20 DEF CloseReplyLost, At, Goto, FailWith, CloseRow, Fault, writeVars
  <1>21. ASSUME NEW r \in Runs, AnnouncementSkipped(r) PROVE UndisturbedOK(q)'
    BY <1>21 DEF AnnouncementSkipped, At, Goto, Fault, rowVars, writeVars, sweepVars
  <1>22. ASSUME NEW r \in Runs, Heartbeat(r) PROVE UndisturbedOK(q)'
    BY <1>22 DEF Heartbeat, writeVars, envVars
  <1>23. ASSUME NEW p \in Replicas, SweepList(p) PROVE UndisturbedOK(q)'
    BY <1>23 DEF SweepList, ReapInFlight, rowVars, writeVars, execVars, envVars
  <1>24. ASSUME NEW p \in Replicas, NEW r \in Runs, SweepClose(p, r) PROVE UndisturbedOK(q)'
    BY <1>24 DEF SweepClose, SweepUpdate, SweepMatches, writeVars, execVars, envVars
  <1>25. ASSUME NEW p \in Replicas, NEW r \in Runs, SweepPublish(p, r) PROVE UndisturbedOK(q)'
    BY <1>25 DEF SweepPublish, Publish, rowVars, writeVars, execVars, envVars
  <1>26. ASSUME NEW p \in Replicas, NEW r \in Runs, SweepPublishSkipped(p, r) PROVE UndisturbedOK(q)'
    BY <1>26 DEF SweepPublishSkipped, Fault, rowVars, writeVars, execVars
  <1>27. ASSUME NEW p \in Replicas, NEW r \in Runs, SweepAborts(p, r) PROVE UndisturbedOK(q)'
    BY <1>27
    DEF SweepAborts, SweepUpdate, SweepMatches, Fault, rowVars, writeVars, execVars
  <1>28. ASSUME NEW p \in Replicas, Crash(p) PROVE UndisturbedOK(q)'
    BY <1>28 DEF Crash, Living, rowVars, writeVars
  <1>29. ASSUME NEW p \in Replicas, Restart(p) PROVE UndisturbedOK(q)'
    BY <1>29 DEF Restart, rowVars, writeVars, execVars, envVars
  <1>30. ASSUME Tick PROVE UndisturbedOK(q)'
    BY <1>30 DEF Tick, writeVars, sweepVars, envVars
  <1>31. CASE UNCHANGED vars
    BY <1>31 DEF vars, rowVars, writeVars, execVars, sweepVars, envVars
  <1> HIDE DEF SweeperEvents, ExecutionOK, ReportedOK, ListedOK, BeatOK, SettledOK, UndisturbedOK, TypeOK
  <1>32. QED
    BY <1>1, <1>2, <1>3, <1>4, <1>5, <1>6, <1>7, <1>8, <1>9, <1>10, <1>11, <1>12, <1>13,
       <1>14, <1>15, <1>16, <1>17, <1>18, <1>19, <1>20, <1>21, <1>22, <1>23, <1>24,
       <1>25, <1>26, <1>27, <1>28, <1>29, <1>30, <1>31
    DEF Next, Opening, Running, Faulting, Sweeping, SweepFaulting

LEMMA NextPreservesSettlement == SettlementInv /\ [Next]_vars => SettlementInv'
  BY NextPreservesInv, NextPreservesSettled, NextPreservesBeat, NextPreservesUndisturbed
  DEF SettlementInv

\* Rows, executions, announcements and timers agree in every reachable state.
THEOREM SettlementAlways == Spec => []SettlementInv
  BY InitEstablishesSettlement, NextPreservesSettlement, PTL DEF Spec

\* As long as no statement fails and no process dies, whoever closes a run and
\* in whatever order, each event says what the row says, and a row that a sweep
\* closed is announced by it (persistFailure, reapStaleRuns).
THEOREM SettledFaultless == Spec => []SettledOnceFaultless
  <1>1. SettlementInv => SettledOnceFaultless
    BY DEF SettlementInv, SettledOK, SettledOnceFaultless, EventsMatchRow, ReapedRowsAnnounced
  <1>2. QED
    BY SettlementAlways, <1>1, PTL

\* While the heartbeats of living processes come in time no sweep closes the row
\* of a living execution, whatever statements fail and whichever processes die.
THEOREM LivingRunsAreKept ==
    ASSUME Timely
    PROVE  Spec => LivingRunNeverReaped
  <1>1. ASSUME SettlementInv, [Next]_vars, NEW r \in Runs, Living(r), error[r] # "stale"
        PROVE  error'[r] # "stale"
    <2>1. RowStep(r) /\ BeatOK(r) /\ TypeOK
      BY <1>1, NextIsRowStep DEF SettlementInv, RunsInv
    <2>2. IsActive(r) => idle[r] <= 2 /\ idle[r] \in Nat
      BY <1>1, <2>1, StaleAfterAssumption DEF BeatOK, TypeOK
    <2>3. ~IsStale(r)
      BY <2>2, StaleAfterAssumption, TimelyAssumption DEF IsStale
    <2>4. QED
      BY <1>1, <2>1, <2>3 DEF RowStep
  <1>2. SettlementInv /\ [Next]_vars =>
            [\A r \in Runs : Living(r) => ~(error[r] # "stale" /\ error'[r] = "stale")]_vars
    BY <1>1
  <1>3. QED
    BY SettlementAlways, <1>2, PTL DEF Spec, LivingRunNeverReaped

\* And if no statement fails either, processes may die at any point: each run is
\* announced once at most, and nothing is written for a row that is closed.
THEOREM TimelyRunsStayUndisturbed ==
    ASSUME Timely, MaxFaults = 0
    PROVE  Spec => []TimelyRunsAreUndisturbed
  <1>1. SettlementInv => TimelyRunsAreUndisturbed
    BY DEF SettlementInv, UndisturbedOK, TimelyRunsAreUndisturbed, TerminalEventOnce, NoLateWrite
  <1>2. QED
    BY SettlementAlways, <1>1, PTL

-----------------------------------------------------------------------------
(* The runs implement RunContract, under the mapping of EvaluationRuns.    *)

ContractStep == [Contract!ContractNext]_(Contract!contractVars)

LEMMA StutterIsContract ==
    ASSUME UNCHANGED <<status, slotOf, written>>
    PROVE  ContractStep
  BY DEF ContractStep, Contract!contractVars

\* How the outcome of a row follows its status.
LEMMA OutcomeFollowsStatus ==
    ASSUME TypeOK, NEW r \in Runs, NEW s \in Statuses, status' = [status EXCEPT ![r] = s]
    PROVE  /\ [q \in Runs |-> OutcomeOf[status'[q]]]
                = [[q \in Runs |-> OutcomeOf[status[q]]] EXCEPT ![r] = OutcomeOf[s]]
           /\ \A q \in Runs : OutcomeOf[status[q]] = "active" <=> IsActive(q)
  <1>1. \A q \in Runs : OutcomeOf[status'[q]] = IF q = r THEN OutcomeOf[s] ELSE OutcomeOf[status[q]]
    BY DEF TypeOK
  <1>2. \A t \in Statuses : OutcomeOf[t] = "active" <=> t \in Active
    BY DEF Statuses, Active, Terminal, OutcomeOf
  <1>3. QED
    BY <1>1, <1>2 DEF TypeOK, IsActive

LEMMA AdmissionIsContract ==
    ASSUME TypeOK, NEW r \in Runs, NEW s \in Slots, status[r] = "absent", IndexAdmits(s),
           CreateRow(r, s), UNCHANGED written
    PROVE  ContractStep
  <1>1. Contract!Admit(r, s)
    <2>1. status' = [status EXCEPT ![r] = "QUEUED"] /\ slotOf' = [slotOf EXCEPT ![r] = s]
      BY DEF CreateRow
    <2>2. OutcomeOf["QUEUED"] = "active" /\ OutcomeOf["absent"] = "absent"
      BY DEF OutcomeOf
    <2>3. \A q \in Runs : OutcomeOf[status[q]] = "active" => slotOf[q] # s
      BY <2>1, OutcomeFollowsStatus DEF IndexAdmits, Statuses, Active
    <2>4. [q \in Runs |-> OutcomeOf[status'[q]]]
              = [[q \in Runs |-> OutcomeOf[status[q]]] EXCEPT ![r] = "active"]
      <3>1. "QUEUED" \in Statuses
        BY DEF Statuses, Active
      <3>2. QED
        BY <2>1, <2>2, <3>1, OutcomeFollowsStatus
    <2>5. [q \in Runs |-> OutcomeOf[status[q]]][r] = "absent"
      BY <2>2
    <2>6. QED
      BY <2>1, <2>3, <2>4, <2>5 DEF Contract!Admit
  <1>2. QED
    BY <1>1 DEF ContractStep, Contract!ContractNext

LEMMA PerformIsContract ==
    ASSUME TypeOK, NEW r \in Runs, status[r] # "absent", Perform(r),
           UNCHANGED <<status, slotOf>>
    PROVE  ContractStep
  <1>1. CASE stage[r] = "result"
    <2>1. Contract!Archive(r)
      BY <1>1 DEF Contract!Archive, TypeOK, Statuses, Active, Terminal, Perform, OutcomeOf
    <2>2. QED
      BY <2>1 DEF ContractStep, Contract!ContractNext
  <1>2. CASE stage[r] # "result"
    BY <1>2 DEF ContractStep, Contract!contractVars, TypeOK, Perform
  <1>3. QED
    BY <1>1, <1>2

LEMMA CloseIsContract ==
    ASSUME TypeOK, NEW r \in Runs, IsActive(r), NEW s \in Terminal,
           s = "SUCCEEDED" => "result" \in written[r],
           status' = [status EXCEPT ![r] = s], UNCHANGED <<slotOf, written>>
    PROVE  ContractStep
  <1>1. CASE s = "SUCCEEDED"
    <2>1. Contract!Succeed(r)
      <3>1. OutcomeOf["SUCCEEDED"] = "succeeded"
        BY DEF OutcomeOf
      <3>2. QED
        BY <1>1, <3>1, OutcomeFollowsStatus DEF Contract!Succeed, Statuses, Terminal
    <2>2. QED
      BY <2>1 DEF ContractStep, Contract!ContractNext
  <1>2. CASE s = "FAILED"
    <2>1. Contract!Fail(r)
      <3>1. OutcomeOf["FAILED"] = "failed"
        BY DEF OutcomeOf
      <3>2. QED
        BY <1>2, <3>1, OutcomeFollowsStatus DEF Contract!Fail, Statuses, Terminal
    <2>2. QED
      BY <2>1 DEF ContractStep, Contract!ContractNext
  <1>3. QED
    BY <1>1, <1>2 DEF Terminal

LEMMA NextIsContractStep == RunsInv /\ [Next]_vars => ContractStep
  <1> SUFFICES ASSUME RunsInv, [Next]_vars PROVE ContractStep
    OBVIOUS
  <1>a. TypeOK /\ \A r \in Runs : ExecutionOK(r)
    BY DEF RunsInv
  <1> USE <1>a
  <1>1. ASSUME NEW r \in Runs, NEW p \in Replicas, NEW s \in Slots, StartRun(r, p, s) PROVE ContractStep
    BY <1>1, AdmissionIsContract DEF StartRun, At, ExecutionOK, writeVars
  <1>2. ASSUME NEW r \in Runs, NEW s \in Slots, StartReplyLost(r, s) PROVE ContractStep
    BY <1>2, AdmissionIsContract DEF StartReplyLost, At, ExecutionOK, writeVars
  <1>3. ASSUME NEW r \in Runs, MarkRunning(r) PROVE ContractStep
    <2>1. CASE status[r] = "QUEUED"
      BY <1>3, <2>1 DEF MarkRunning, ContractStep, Contract!contractVars, TypeOK, writeVars,
           OutcomeOf
    <2>2. CASE status[r] # "QUEUED"
      BY <1>3, <2>2, StutterIsContract DEF MarkRunning, writeVars
    <2>3. QED
      BY <2>1, <2>2
  <1>4. ASSUME NEW r \in Runs, Write(r) PROVE ContractStep
    BY <1>4, PerformIsContract DEF Write, At, ExecutionOK, rowVars
  <1>5. ASSUME NEW r \in Runs, WriteReplyLost(r) PROVE ContractStep
    BY <1>5, PerformIsContract DEF WriteReplyLost, At, ExecutionOK, rowVars
  <1>6. ASSUME NEW r \in Runs, MarkSucceeded(r) PROVE ContractStep
    BY <1>6, CloseIsContract, StutterIsContract
    DEF MarkSucceeded, At, CloseRow, ExecutionOK, rowVars, writeVars, Writes, Terminal
  <1>7. ASSUME NEW r \in Runs, MarkFailed(r) PROVE ContractStep
    BY <1>7, CloseIsContract, StutterIsContract
    DEF MarkFailed, CloseRow, rowVars, writeVars, Terminal
  <1>8. ASSUME NEW r \in Runs, CloseReplyLost(r) PROVE ContractStep
    BY <1>8, CloseIsContract
    DEF CloseReplyLost, At, CloseRow, ExecutionOK, writeVars, Writes, Terminal
  <1>9. ASSUME NEW p \in Replicas, NEW r \in Runs, SweepClose(p, r) PROVE ContractStep
    BY <1>9, CloseIsContract, StutterIsContract
    DEF SweepClose, SweepUpdate, SweepMatches, writeVars, Terminal
  <1>10. ASSUME NEW p \in Replicas, NEW r \in Runs, SweepAborts(p, r) PROVE ContractStep
    BY <1>10, CloseIsContract, StutterIsContract
    DEF SweepAborts, SweepUpdate, SweepMatches, rowVars, writeVars, Terminal
  <1>11. ASSUME NEW r \in Runs,
                \/ LoadRun(r) \/ OpenFails(r) \/ LoadIdentity(r) \/ Judge(r)
                \/ JudgeFails(r) \/ Fence(r) \/ RecheckResult(r) \/ Rejected(r)
                \/ RereadError(r) \/ AnnounceSucceeded(r) \/ AnnounceFailed(r) \/ StatementFails(r)
                \/ AnnouncementSkipped(r) \/ Heartbeat(r)
         PROVE  ContractStep
    BY <1>11, StutterIsContract
    DEF LoadRun, OpenFails, LoadIdentity, Judge, JudgeFails, Fence, RecheckResult,
        Rejected, RereadError, AnnounceSucceeded, AnnounceFailed, StatementFails,
        AnnouncementSkipped, Heartbeat, rowVars, writeVars
  <1>12. ASSUME NEW p \in Replicas,
                \/ SweepList(p) \/ Crash(p) \/ Restart(p)
                \/ \E r \in Runs : SweepPublish(p, r) \/ SweepPublishSkipped(p, r)
         PROVE  ContractStep
    BY <1>12, StutterIsContract
    DEF SweepList, Crash, Restart, SweepPublish, SweepPublishSkipped, rowVars, writeVars
  <1>13. CASE Tick \/ UNCHANGED vars
    BY <1>13, StutterIsContract DEF Tick, vars, rowVars, writeVars
  <1>14. QED
    BY <1>1, <1>2, <1>3, <1>4, <1>5, <1>6, <1>7, <1>8, <1>9, <1>10, <1>11, <1>12, <1>13
    DEF Next, Opening, Running, Faulting, Sweeping, SweepFaulting

\* The runner, the sweepers and their failures implement the contract: what a
\* consumer may assume of a run does not depend on who closed it.
THEOREM Implements == Spec => ImplementsContract
  <1>1. Init => Contract!ContractInit
    BY DEF Init, Contract!ContractInit, OutcomeOf
  <1>2. QED
    BY InvAlways, NextIsContractStep, <1>1, PTL
    DEF Spec, ImplementsContract, ContractStep, Contract!ContractSpec

\* A row is closed for a reason that holds when it is written, and keeps it.
THEOREM RowsStaySound == Spec => RowsAreSound
  BY TerminalStays, StaleWhenReaped DEF RowsAreSound

\* What the fences promise of a run that succeeded and of one that was closed
\* underneath its runner.
THEOREM FencesHold == Spec => []WritesAreFenced
  <1>1. SucceededIsComplete /\ AtMostOneLateWrite => WritesAreFenced
    BY DEF WritesAreFenced
  <1>2. QED
    BY <1>1, SuccessIsComplete, LateWritesBounded, PTL
=============================================================================
