-------------------------- MODULE JobSchedulerProofs --------------------------
(***************************************************************************)
(* The safety properties of JobScheduler for every set of processes, keys, *)
(* settings and executions, and those of the check cycles it runs.         *)
(*   Runs.  A guard that is taken is held by exactly one execution, or was *)
(*     leaked and is held by none (GuardsAreHeld).                         *)
(*   Cycles of one schedule in one process.  A cycle is the handler of a   *)
(*     run (CyclesRun), so the guard keeps them apart, and what a cycle    *)
(*     read still holds when it is applied (ReadingsHold, CountsLag);      *)
(*     requests pause on older readings, which know every alert that was   *)
(*     not opened across the pause (PausesKnow).                           *)
(***************************************************************************)
EXTENDS ScheduledChecks, FiniteSetTheorems, TLAPS

\* The types of JobsTypeOK.
RowTypes ==
    /\ setting \in [Keys -> Rows] /\ edits \in 0 .. MaxEdits

ProcessTypes ==
    /\ up \in [Processes -> {"down", "booting", "up"}]
    /\ registered \in [Processes -> [Keys -> Crons \union {NoCron}]]
    /\ cronJob \in [Processes -> [Keys -> Crons \union {NoCron}]]
    /\ readings \in [Processes -> SUBSET [Keys -> Rows]]
    /\ declaring \in [Processes -> SUBSET Keys]
    /\ guard \in [Processes -> SUBSET Keys] /\ leaked \in [Processes -> SUBSET Keys]

RunTypes ==
    /\ runPc \in [Executions -> RunPcs] /\ owner \in [Executions -> Processes]
    /\ runKey \in [Executions -> Keys] /\ runRow \in [Executions -> RowStatuses]
    /\ alarms \in [Executions -> 0 .. 1]
    /\ faults \in 0 .. MaxFaults /\ crashes \in 0 .. MaxCrashes

Holds(e, p, k) == owner[e] = p /\ runKey[e] = k /\ runPc[e] \in Guarded

GuardsAreHeld ==
    /\ \A p \in Processes, k \in Keys :
           k \in guard[p] <=> (\E e \in Executions : Holds(e, p, k)) \/ k \in leaked[p]
    /\ \A p \in Processes, k \in Keys, e, f \in Executions :
           Holds(e, p, k) /\ Holds(f, p, k) => e = f
    /\ \A p \in Processes, k \in Keys, e \in Executions :
           k \in leaked[p] => ~Holds(e, p, k)

JobInv == RowTypes /\ ProcessTypes /\ RunTypes /\ GuardsAreHeld /\ HistoryIsTruthful

LEMMA InvGivesTypes == JobInv => JobsTypeOK
  BY DEF JobInv, RowTypes, ProcessTypes, RunTypes, GuardsAreHeld, Holds, Holders, JobsTypeOK

LEMMA InitEstablishes == JobInit => JobInv
  <1> SUFFICES ASSUME JobInit PROVE JobInv
    OBVIOUS
  <1>1. RowTypes
    BY SchedulerAssumption DEF JobInit, RowTypes, Rows
  <1>2. ProcessTypes
    BY DEF JobInit, ProcessTypes, Nothing
  <1>3. RunTypes
    BY SchedulerAssumption DEF JobInit, RunTypes, RunPcs, RowStatuses
  <1>4. GuardsAreHeld
    BY DEF JobInit, GuardsAreHeld, Holds, Guarded
  <1>5. HistoryIsTruthful
    BY DEF JobInit, HistoryIsTruthful
  <1>6. QED
    BY <1>1, <1>2, <1>3, <1>4, <1>5 DEF JobInv

-----------------------------------------------------------------------------
(* Schedules and cron jobs: no guard and no run changes. *)

LEMMA RunsUntouched ==
    ASSUME JobInv, UNCHANGED <<guard, leaked, runVars, faults, crashes>>
    PROVE  RunTypes' /\ GuardsAreHeld' /\ HistoryIsTruthful'
  BY DEF JobInv, runVars, RunTypes, GuardsAreHeld, Holds, HistoryIsTruthful

LEMMA ReadPreserves ==
    ASSUME JobInv, NEW p \in Processes, Boot(p) \/ ReadSchedules(p)
    PROVE  JobInv'
  <1>1. RowTypes' /\ setting \in [Keys -> Rows]
    BY DEF Boot, ReadSchedules, settingVars, JobInv, RowTypes
  <1>2. CASE Boot(p)
    <2>1. ProcessTypes'
      BY <1>1, <1>2 DEF Boot, JobInv, ProcessTypes
    <2>2. QED
      BY <1>1, <1>2, <2>1, RunsUntouched DEF Boot, JobInv
  <1>3. CASE ReadSchedules(p)
    <2>1. readings' \in [Processes -> SUBSET [Keys -> Rows]]
      BY <1>1, <1>3 DEF ReadSchedules, JobInv, ProcessTypes
    <2>2. ProcessTypes'
      BY <1>3, <2>1 DEF ReadSchedules, JobInv, ProcessTypes
    <2>3. QED
      BY <1>1, <1>3, <2>2, RunsUntouched DEF ReadSchedules, JobInv
  <1>4. QED
    BY <1>2, <1>3

LEMMA WantedIsCron ==
    ASSUME NEW t \in [Keys -> Rows], NEW k \in Keys
    PROVE  Wanted(t, k) \in Crons \union {NoCron}
  BY DEF Wanted, Rows, Settings

LEMMA ApplyPreserves ==
    ASSUME JobInv, NEW p \in Processes, NEW t \in readings[p], ApplyReading(p, t)
    PROVE  JobInv'
  <1> DEFINE Table == [Keys -> Crons \union {NoCron}]
             throws == Broken(p, t) # {}
             pass(before, onBreak) ==
               [k \in Keys |->
                   IF k \in Broken(p, t) THEN onBreak[k]
                   ELSE IF k \in Drifted(p, t) /\ Reached(p, t, k) THEN Wanted(t, k)
                   ELSE IF Wanted(t, k) = NoCron /\ ~throws THEN NoCron
                   ELSE before[k]]
             exits == up[p] = "booting" /\ throws
  <1>1. /\ registered' = [registered EXCEPT ![p] = IF exits THEN Nothing ELSE pass(@, @)]
        /\ cronJob' = [cronJob EXCEPT ![p] = IF exits THEN Nothing ELSE pass(@, Nothing)]
        /\ up' = [up EXCEPT ![p] = IF exits THEN "down" ELSE "up"]
        /\ readings' = [readings EXCEPT ![p] = @ \ {t}]
        /\ UNCHANGED <<settingVars, declaring, guard, leaked, runVars, faults, crashes>>
    BY DEF ApplyReading
  <1>2. \A k \in Keys : Wanted(t, k) \in Crons \union {NoCron}
    BY WantedIsCron DEF JobInv, ProcessTypes
  <1>3. Nothing \in Table
    BY DEF Nothing
  <1>4. ASSUME NEW b \in Table, NEW o \in Table PROVE pass(b, o) \in Table
    BY <1>2
  <1> HIDE DEF pass, exits, Table
  <1>5. /\ (IF exits THEN Nothing ELSE pass(registered[p], registered[p])) \in Table
        /\ (IF exits THEN Nothing ELSE pass(cronJob[p], Nothing)) \in Table
    BY <1>3, <1>4 DEF JobInv, ProcessTypes, Table
  <1>6. registered' \in [Processes -> Table] /\ cronJob' \in [Processes -> Table]
    BY <1>1, <1>5 DEF JobInv, ProcessTypes, Table
  <1>7. ProcessTypes' /\ RowTypes'
    BY <1>1, <1>6 DEF JobInv, ProcessTypes, RowTypes, settingVars, Table
  <1>8. QED
    BY <1>1, <1>7, RunsUntouched DEF JobInv

LEMMA DeclarePreserves ==
    ASSUME JobInv, NEW p \in Processes, NEW k \in Keys,
           FindDeclared(p, k) \/ CreateDeclared(p, k)
    PROVE  JobInv'
  <1>1. Declared[k] \in Rows
    BY SchedulerAssumption DEF Rows
  <1>2. ProcessTypes' /\ RowTypes'
    <2>1. declaring' \in [Processes -> SUBSET Keys]
      <3>1. declaring[p] \union {k} \in SUBSET Keys /\ declaring[p] \ {k} \in SUBSET Keys
        BY DEF JobInv, ProcessTypes
      <3>2. QED
        BY <3>1 DEF FindDeclared, CreateDeclared, JobInv, ProcessTypes
    <2>2. setting' \in [Keys -> Rows]
      BY <1>1 DEF FindDeclared, CreateDeclared, settingVars, JobInv, RowTypes
    <2>3. QED
      BY <2>1, <2>2 DEF FindDeclared, CreateDeclared, settingVars, JobInv, ProcessTypes, RowTypes
  <1>3. QED
    BY <1>2, RunsUntouched DEF FindDeclared, CreateDeclared, JobInv

LEMMA EditPreserves ==
    ASSUME JobInv, NEW k \in Keys, NEW s \in Settings, Edit(k, s)
    PROVE  JobInv'
  <1>1. RowTypes'
    BY SchedulerAssumption DEF Edit, JobInv, RowTypes, Rows
  <1>2. ProcessTypes'
    BY DEF Edit, cronVars, JobInv, ProcessTypes
  <1>3. QED
    BY <1>1, <1>2, RunsUntouched DEF Edit, JobInv

-----------------------------------------------------------------------------
(* Runs *)

LEMMA ExecutePreserves ==
    ASSUME JobInv, NEW p \in Processes, NEW k \in Keys, NEW e \in Executions,
           ExecuteSchedule(p, k, e)
    PROVE  JobInv'
  <1>1. RowTypes' /\ ProcessTypes'
    <2>1. guard' \in [Processes -> SUBSET Keys]
      <3>1. guard[p] \union {k} \in SUBSET Keys
        BY DEF JobInv, ProcessTypes
      <3>2. QED
        BY <3>1 DEF ExecuteSchedule, TakeGuard, JobInv, ProcessTypes
    <2>2. QED
      BY <2>1 DEF ExecuteSchedule, settingVars, cronVars, JobInv, RowTypes, ProcessTypes
  <1>2. RunTypes'
    BY DEF ExecuteSchedule, Goto, JobInv, RunTypes, RunPcs, RowStatuses
  <1>3. HistoryIsTruthful'
    BY DEF ExecuteSchedule, Goto, JobInv, RunTypes, HistoryIsTruthful
  <1>4. \A f \in Executions \ {e}, q \in Processes, j \in Keys : Holds(f, q, j)' <=> Holds(f, q, j)
    BY DEF ExecuteSchedule, Goto, JobInv, RunTypes, Holds
  <1>5. \A q \in Processes, j \in Keys : ~Holds(e, q, j)
    BY DEF ExecuteSchedule, Holds, Guarded
  <1>6. CASE k \in guard[p]
    <2>1. \A q \in Processes, j \in Keys : ~Holds(e, q, j)'
      BY <1>6 DEF ExecuteSchedule, Goto, JobInv, RunTypes, Holds, Guarded
    <2>2. GuardsAreHeld'
      BY <1>4, <1>5, <1>6, <2>1 DEF ExecuteSchedule, JobInv, GuardsAreHeld
    <2>3. QED
      BY <1>1, <1>2, <1>3, <2>2 DEF JobInv
  <1>7. CASE k \notin guard[p]
    <2>1. \A q \in Processes, j \in Keys : Holds(e, q, j)' <=> (q = p /\ j = k)
      BY <1>7 DEF ExecuteSchedule, Goto, JobInv, RunTypes, Holds, Guarded
    <2>2. \A q \in Processes : guard'[q] = IF q = p THEN guard[q] \union {k} ELSE guard[q]
      BY <1>7 DEF ExecuteSchedule, TakeGuard, JobInv, ProcessTypes
    <2>3. leaked' = leaked /\ k \notin leaked[p] /\ \A f \in Executions : ~Holds(f, p, k)
      BY <1>7 DEF ExecuteSchedule, JobInv, GuardsAreHeld
    <2>4. GuardsAreHeld'
      <3>1. \A q \in Processes, j \in Keys :
              j \in guard'[q] <=> (\E f \in Executions : Holds(f, q, j)') \/ j \in leaked'[q]
        <4> SUFFICES ASSUME NEW q \in Processes, NEW j \in Keys
             PROVE  j \in guard'[q] <=> (\E f \in Executions : Holds(f, q, j)') \/ j \in leaked'[q]
          OBVIOUS
        <4>1. j \in guard[q] <=> (\E f \in Executions : Holds(f, q, j)) \/ j \in leaked[q]
          BY DEF JobInv, GuardsAreHeld
        <4>2. CASE q = p /\ j = k
          BY <1>4, <1>5, <2>1, <2>2, <2>3, <4>1, <4>2
        <4>3. CASE ~(q = p /\ j = k)
          <5>1. \A f \in Executions : Holds(f, q, j)' <=> Holds(f, q, j)
            BY <1>4, <1>5, <2>1, <2>2, <2>3, <4>3
          <5>2. (j \in guard'[q] <=> j \in guard[q]) /\ (j \in leaked'[q] <=> j \in leaked[q])
            BY <1>4, <1>5, <2>1, <2>2, <2>3, <4>3
          <5>3. QED
            BY <4>1, <5>1, <5>2
        <4>4. QED
          BY <4>2, <4>3
      <3>2. \A q \in Processes, j \in Keys, f, g \in Executions :
              Holds(f, q, j)' /\ Holds(g, q, j)' => f = g
        BY <1>4, <1>5, <2>1, <2>2, <2>3 DEF JobInv, GuardsAreHeld
      <3>3. \A q \in Processes, j \in Keys, f \in Executions : j \in leaked'[q] => ~Holds(f, q, j)'
        BY <1>4, <1>5, <2>1, <2>2, <2>3 DEF JobInv, GuardsAreHeld
      <3>4. QED
        BY <3>1, <3>2, <3>3 DEF GuardsAreHeld
    <2>5. QED
      BY <1>1, <1>2, <1>3, <2>4 DEF JobInv
  <1>8. QED
    BY <1>6, <1>7

\* A statement, which may fail, leaves its row typed.
LEMMA RecordingIsTyped ==
    ASSUME JobInv, NEW e \in Executions, NEW status \in RowStatuses, Recorded(e, status)
    PROVE  runRow' \in [Executions -> RowStatuses] /\ faults' \in 0 .. MaxFaults
  BY SchedulerAssumption DEF Recorded, Statement, StatementFails, JobInv, RunTypes

\* A step that moves an execution without touching its hold on a guard.
LEMMA SameHolds ==
    ASSUME JobInv, NEW e \in Executions, NEW l \in RunPcs, Goto(e, l),
           l \in Guarded <=> runPc[e] \in Guarded,
           UNCHANGED <<guard, leaked, owner, runKey>>
    PROVE  GuardsAreHeld'
  <1>1. \A f \in Executions, p \in Processes, k \in Keys : Holds(f, p, k)' <=> Holds(f, p, k)
    BY DEF Goto, JobInv, RunTypes, Holds
  <1>2. QED
    BY <1>1 DEF JobInv, GuardsAreHeld

\* A step that ends the hold of an execution and gives its guard back.
LEMMA GuardReturned ==
    ASSUME JobInv, NEW e \in Executions, NEW l \in RunPcs \ Guarded, Goto(e, l),
           runPc[e] \in Guarded, guard' = ReleaseGuard(e),
           UNCHANGED <<leaked, owner, runKey>>
    PROVE  GuardsAreHeld'
  <1> DEFINE p == owner[e]
             k == runKey[e]
  <1>1. p \in Processes /\ k \in Keys /\ Holds(e, p, k)
    BY DEF JobInv, RunTypes, Holds
  <1>2. \A f \in Executions, q \in Processes, j \in Keys :
            Holds(f, q, j)' <=> (f # e /\ Holds(f, q, j))
    BY DEF Goto, JobInv, RunTypes, Holds
  <1>3. \A q \in Processes : guard'[q] = IF q = p THEN guard[q] \ {k} ELSE guard[q]
    BY DEF ReleaseGuard, JobInv, ProcessTypes
  <1>4. k \notin leaked[p] /\ \A f \in Executions : Holds(f, p, k) => f = e
    BY <1>1 DEF JobInv, GuardsAreHeld
  <1>5. \A q \in Processes, j \in Keys : Holds(e, q, j) => q = p /\ j = k
    BY DEF Holds
  <1> HIDE DEF p, k
  <1>6. leaked' = leaked
    OBVIOUS
  <1>7. QED
    <2>1. \A q \in Processes, j \in Keys :
            j \in guard'[q] <=> (\E f \in Executions : Holds(f, q, j)') \/ j \in leaked'[q]
      <3> SUFFICES ASSUME NEW q \in Processes, NEW j \in Keys
           PROVE  j \in guard'[q] <=> (\E f \in Executions : Holds(f, q, j)') \/ j \in leaked'[q]
        OBVIOUS
      <3>1. j \in guard[q] <=> (\E f \in Executions : Holds(f, q, j)) \/ j \in leaked[q]
        BY DEF JobInv, GuardsAreHeld
      <3>2. CASE q = p /\ j = k
        BY <1>1, <1>2, <1>3, <1>4, <1>5, <1>6, <3>1, <3>2
      <3>3. CASE ~(q = p /\ j = k)
        <4>1. \A f \in Executions : Holds(f, q, j)' <=> Holds(f, q, j)
          BY <1>1, <1>2, <1>3, <1>4, <1>5, <1>6, <3>3
        <4>2. (j \in guard'[q] <=> j \in guard[q]) /\ (j \in leaked'[q] <=> j \in leaked[q])
          BY <1>1, <1>2, <1>3, <1>4, <1>5, <1>6, <3>3
        <4>3. QED
          BY <3>1, <4>1, <4>2
      <3>4. QED
        BY <3>2, <3>3
    <2>2. \A q \in Processes, j \in Keys, f, g \in Executions :
            Holds(f, q, j)' /\ Holds(g, q, j)' => f = g
      BY <1>1, <1>2, <1>3, <1>4, <1>5, <1>6 DEF JobInv, GuardsAreHeld
    <2>3. \A q \in Processes, j \in Keys, f \in Executions : j \in leaked'[q] => ~Holds(f, q, j)'
      BY <1>1, <1>2, <1>3, <1>4, <1>5, <1>6 DEF JobInv, GuardsAreHeld
    <2>4. QED
      BY <2>1, <2>2, <2>3 DEF GuardsAreHeld

LEMMA ExecutingPreserves ==
    ASSUME JobInv, NEW e \in Executions, Executing(e)
    PROVE  JobInv'
  <1>1. CASE RecordSkip(e) \/ RecordSuccess(e)
    <2>1. RowTypes' /\ ProcessTypes'
      BY <1>1 DEF RecordSkip, RecordSuccess, settingVars, cronVars, JobInv, RowTypes, ProcessTypes
    <2>2. RunTypes'
      <3>1. runRow' \in [Executions -> RowStatuses] /\ faults' \in 0 .. MaxFaults
        BY <1>1, RecordingIsTyped DEF RecordSkip, RecordSuccess, RowStatuses
      <3>2. QED
        BY <1>1, <3>1 DEF RecordSkip, RecordSuccess, Goto, JobInv, RunTypes, RunPcs
    <2>3. GuardsAreHeld'
      BY <1>1, SameHolds DEF RecordSkip, RecordSuccess, RunPcs, Guarded
    <2>4. HistoryIsTruthful'
      BY <1>1 DEF RecordSkip, RecordSuccess, Goto, Recorded, Statement, StatementFails,
                  JobInv, RunTypes, HistoryIsTruthful
    <2>5. QED
      BY <2>1, <2>2, <2>3, <2>4 DEF JobInv
  <1>2. CASE InsertRun(e) \/ HandlerThrows(e)
    <2>1. RowTypes' /\ ProcessTypes'
      BY <1>2 DEF InsertRun, HandlerThrows, settingVars, cronVars, JobInv, RowTypes, ProcessTypes
    <2>2. RunTypes'
      BY <1>2 DEF InsertRun, HandlerThrows, Statement, Goto, JobInv, RunTypes, RunPcs, RowStatuses
    <2>3. GuardsAreHeld'
      BY <1>2, SameHolds DEF InsertRun, HandlerThrows, RunPcs, Guarded
    <2>4. HistoryIsTruthful'
      BY <1>2 DEF InsertRun, HandlerThrows, Goto, Statement, JobInv, RunTypes, HistoryIsTruthful
    <2>5. QED
      BY <2>1, <2>2, <2>3, <2>4 DEF JobInv
  <1>3. CASE InsertFails(e)
    <2>1. RowTypes' /\ ProcessTypes'
      BY <1>3 DEF InsertFails, settingVars, cronVars, JobInv, RowTypes, ProcessTypes, RunTypes
    <2>2. RunTypes'
      <3>1. Recorded(e, "running")
        BY <1>3 DEF InsertFails, Recorded
      <3>2. runRow' \in [Executions -> RowStatuses] /\ faults' \in 0 .. MaxFaults
        BY <3>1, RecordingIsTyped DEF RowStatuses
      <3>3. QED
        BY <1>3, <3>2 DEF InsertFails, Goto, JobInv, RunTypes, RunPcs
    <2>3. GuardsAreHeld'
      <3> DEFINE p == owner[e]
                 k == runKey[e]
      <3>1. p \in Processes /\ k \in Keys /\ Holds(e, p, k)
        BY <1>3 DEF InsertFails, JobInv, RunTypes, Holds, Guarded
      <3>2. \A f \in Executions, q \in Processes, j \in Keys :
                Holds(f, q, j)' <=> (f # e /\ Holds(f, q, j))
        BY <1>3 DEF InsertFails, Goto, JobInv, RunTypes, Holds, Guarded
      <3>3. \A q \in Processes : leaked'[q] = IF q = p THEN leaked[q] \union {k} ELSE leaked[q]
        BY <1>3 DEF InsertFails, JobInv, ProcessTypes
      <3>4. \A f \in Executions : Holds(f, p, k) => f = e
        BY <3>1 DEF JobInv, GuardsAreHeld
      <3>5. \A q \in Processes, j \in Keys : Holds(e, q, j) => q = p /\ j = k
        BY DEF Holds
      <3>6. guard' = guard
        BY <1>3 DEF InsertFails
      <3> HIDE DEF p, k
      <3>7. QED
        <4>1. \A q \in Processes, j \in Keys :
                j \in guard'[q] <=> (\E f \in Executions : Holds(f, q, j)') \/ j \in leaked'[q]
          <5> SUFFICES ASSUME NEW q \in Processes, NEW j \in Keys
               PROVE  j \in guard'[q] <=> (\E f \in Executions : Holds(f, q, j)') \/ j \in leaked'[q]
            OBVIOUS
          <5>1. j \in guard[q] <=> (\E f \in Executions : Holds(f, q, j)) \/ j \in leaked[q]
            BY DEF JobInv, GuardsAreHeld
          <5>2. CASE q = p /\ j = k
            BY <3>1, <3>2, <3>3, <3>4, <3>5, <3>6, <5>1, <5>2
          <5>3. CASE ~(q = p /\ j = k)
            <6>1. \A f \in Executions : Holds(f, q, j)' <=> Holds(f, q, j)
              BY <3>1, <3>2, <3>3, <3>4, <3>5, <3>6, <5>3
            <6>2. (j \in guard'[q] <=> j \in guard[q]) /\ (j \in leaked'[q] <=> j \in leaked[q])
              BY <3>1, <3>2, <3>3, <3>4, <3>5, <3>6, <5>3
            <6>3. QED
              BY <5>1, <6>1, <6>2
          <5>4. QED
            BY <5>2, <5>3
        <4>2. \A q \in Processes, j \in Keys, f, g \in Executions :
                Holds(f, q, j)' /\ Holds(g, q, j)' => f = g
          BY <3>1, <3>2, <3>3, <3>4, <3>5, <3>6 DEF JobInv, GuardsAreHeld
        <4>3. \A q \in Processes, j \in Keys, f \in Executions : j \in leaked'[q] => ~Holds(f, q, j)'
          <5> SUFFICES ASSUME NEW q \in Processes, NEW j \in Keys, NEW f \in Executions,
                              j \in leaked'[q], Holds(f, q, j)'
                       PROVE  FALSE
            OBVIOUS
          <5>1. f # e /\ Holds(f, q, j)
            BY <3>2
          <5>2. j \notin leaked[q]
            BY <5>1 DEF JobInv, GuardsAreHeld
          <5>3. q = p /\ j = k
            BY <3>3, <5>2
          <5>4. QED
            BY <3>4, <5>1, <5>3
        <4>4. QED
          BY <4>1, <4>2, <4>3 DEF GuardsAreHeld
    <2>4. HistoryIsTruthful'
      BY <1>3 DEF InsertFails, Goto, StatementFails, JobInv, RunTypes, HistoryIsTruthful
    <2>5. QED
      BY <2>1, <2>2, <2>3, <2>4 DEF JobInv
  <1>4. CASE HandlerReturns(e)
    <2>1. RowTypes' /\ ProcessTypes'
      BY <1>4 DEF HandlerReturns, ReleaseGuard, settingVars, cronVars, JobInv, RowTypes,
                  ProcessTypes, RunTypes
    <2>2. RunTypes'
      BY <1>4 DEF HandlerReturns, Goto, JobInv, RunTypes, RunPcs
    <2>3. GuardsAreHeld'
      BY <1>4, GuardReturned DEF HandlerReturns, RunPcs, Guarded
    <2>4. HistoryIsTruthful'
      BY <1>4 DEF HandlerReturns, Goto, JobInv, RunTypes, HistoryIsTruthful
    <2>5. QED
      BY <2>1, <2>2, <2>3, <2>4 DEF JobInv
  <1>5. CASE RecordFailure(e)
    <2>1. RowTypes' /\ ProcessTypes'
      BY <1>5 DEF RecordFailure, ReleaseGuard, settingVars, cronVars, JobInv, RowTypes,
                  ProcessTypes, RunTypes
    <2>2. RunTypes'
      <3>1. Recorded(e, "failed")
        BY <1>5 DEF RecordFailure, Recorded
      <3>2. runRow' \in [Executions -> RowStatuses] /\ faults' \in 0 .. MaxFaults
        BY <3>1, RecordingIsTyped DEF RowStatuses
      <3>3. alarms' \in [Executions -> 0 .. 1]
        BY <1>5 DEF RecordFailure, AlarmOf, JobInv, RunTypes
      <3>4. QED
        BY <1>5, <3>2, <3>3 DEF RecordFailure, Goto, JobInv, RunTypes, RunPcs
    <2>3. GuardsAreHeld'
      BY <1>5, GuardReturned DEF RecordFailure, RunPcs, Guarded
    <2>4. HistoryIsTruthful'
      BY <1>5 DEF RecordFailure, Goto, Statement, StatementFails, AlarmOf,
                  JobInv, RunTypes, HistoryIsTruthful
    <2>5. QED
      BY <2>1, <2>2, <2>3, <2>4 DEF JobInv
  <1>6. QED
    BY <1>1, <1>2, <1>3, <1>4, <1>5 DEF Executing

LEMMA CrashPreserves ==
    ASSUME JobInv, NEW p \in Processes, Crash(p)
    PROVE  JobInv'
  <1>1. RowTypes' /\ ProcessTypes'
    BY DEF Crash, Nothing, settingVars, JobInv, RowTypes, ProcessTypes
  <1>2. RunTypes'
    BY SchedulerAssumption DEF Crash, JobInv, RunTypes, RunPcs
  <1>3. \A f \in Executions, q \in Processes, j \in Keys :
            Holds(f, q, j)' <=> (q # p /\ Holds(f, q, j))
    BY DEF Crash, JobInv, RunTypes, Holds, Guarded
  <1>4. \A q \in Processes : /\ guard'[q] = IF q = p THEN {} ELSE guard[q]
                             /\ leaked'[q] = IF q = p THEN {} ELSE leaked[q]
    BY DEF Crash, JobInv, ProcessTypes
  <1>5. GuardsAreHeld'
    BY <1>3, <1>4 DEF JobInv, GuardsAreHeld
  <1>6. HistoryIsTruthful'
    BY SchedulerAssumption DEF Crash, JobInv, RunTypes, HistoryIsTruthful
  <1>7. QED
    BY <1>1, <1>2, <1>5, <1>6 DEF JobInv

LEMMA StepPreserves == JobInv /\ [JobNext]_jobVars => JobInv'
  <1> SUFFICES ASSUME JobInv, [JobNext]_jobVars PROVE JobInv'
    OBVIOUS
  <1>1. ASSUME NEW p \in Processes, Boot(p) \/ ReadSchedules(p) \/ Reconciling(p) \/ Crash(p)
        PROVE  JobInv'
    BY <1>1, ReadPreserves, ApplyPreserves, CrashPreserves DEF Reconciling
  <1>2. ASSUME NEW p \in Processes, NEW k \in Keys, Scheduling(p, k)
        PROVE  JobInv'
    BY <1>2, DeclarePreserves, ExecutePreserves DEF Scheduling, CronFires, TriggerSchedule
  <1>3. ASSUME NEW k \in Keys, NEW s \in Settings, UpdateSchedule(k, s) \/ Edit(k, s)
        PROVE  JobInv'
    BY <1>3, EditPreserves DEF UpdateSchedule
  <1>4. ASSUME NEW e \in Executions, Executing(e)
        PROVE  JobInv'
    BY <1>4, ExecutingPreserves
  <1>5. CASE UNCHANGED jobVars
    BY <1>5, RunsUntouched
    DEF jobVars, settingVars, cronVars, JobInv, RowTypes, ProcessTypes
  <1>6. QED
    BY <1>1, <1>2, <1>3, <1>4, <1>5, SchedulerAssumption DEF JobNext

-----------------------------------------------------------------------------
\* Every table keeps its shape, and a taken guard is held by an execution or
\* was leaked by a failing insert.
THEOREM JobsAreTyped == JobSpec => []JobsTypeOK
  BY InvGivesTypes, InitEstablishes, StepPreserves, PTL DEF JobSpec

\* In one process the runs of a schedule never overlap, for any number of
\* processes, schedules and runs, through crashes and failing statements.
THEOREM RunsNeverOverlap == JobSpec => []RunsExclude
  <1>1. JobInv => RunsExclude
    <2> SUFFICES ASSUME JobInv, NEW p \in Processes, NEW k \in Keys
                 PROVE  Cardinality(Holders(p, k)) <= 1
      BY DEF RunsExclude
    <2>1. \A e, f \in Holders(p, k) : e = f
      BY DEF JobInv, GuardsAreHeld, Holds, Holders
    <2>2. CASE Holders(p, k) = {}
      BY <2>2, FS_EmptySet
    <2>3. CASE Holders(p, k) # {}
      <3>1. PICK e : Holders(p, k) = {e}
        BY <2>1, <2>3
      <3>2. QED
        BY <3>1, FS_Singleton
    <2>4. QED
      BY <2>2, <2>3
  <1>2. QED
    BY <1>1, InitEstablishes, StepPreserves, PTL DEF JobSpec

\* A failure is announced only when it was persisted, and a row that stays
\* running is the trace of a crash or of a failing statement.
THEOREM HistoryTellsTheTruth == JobSpec => []HistoryIsTruthful
  <1>1. JobInv => HistoryIsTruthful
    BY DEF JobInv
  <1>2. QED
    BY <1>1, InitEstablishes, StepPreserves, PTL DEF JobSpec

\* A run is skipped only while a run of its schedule is in progress in the
\* process, or after the guard was leaked.
THEOREM SkipsHaveCauses == JobSpec => SkipsAreExplained
  <1>1. ASSUME JobInv, [JobNext]_jobVars,
               NEW e \in Executions, runPc[e] = "idle", runPc'[e] = "skip"
        PROVE  \/ Holders(owner'[e], runKey'[e]) # {}
               \/ runKey'[e] \in leaked[owner'[e]]
    <2>1. PICK p \in Processes, k \in Keys : ExecuteSchedule(p, k, e)
      <3>1. runPc' # runPc
        BY <1>1
      <3>2. \A f \in Executions : Executing(f) => runPc'[e] # "skip" \/ runPc[e] # "idle"
        BY <1>1 DEF Executing, RecordSkip, InsertRun, InsertFails, HandlerReturns, RecordSuccess,
                    HandlerThrows, RecordFailure, Goto, JobInv, RunTypes
      <3>3. \A p \in Processes : ~Crash(p)
        BY <1>1 DEF Crash
      <3>4. \A p \in Processes : ~(Boot(p) \/ ReadSchedules(p) \/ Reconciling(p))
        BY <3>1 DEF Boot, ReadSchedules, Reconciling, ApplyReading, runVars
      <3>5. \A k \in Keys, s \in Settings : ~(UpdateSchedule(k, s) \/ Edit(k, s))
        BY <3>1 DEF UpdateSchedule, Edit, runVars
      <3>6. PICK p \in Processes, k \in Keys : Scheduling(p, k)
        BY <1>1, <3>1, <3>2, <3>3, <3>4, <3>5, SchedulerAssumption DEF JobNext, jobVars, runVars
      <3>7. PICK f \in Executions : ExecuteSchedule(p, k, f)
        BY <3>1, <3>6 DEF Scheduling, FindDeclared, CreateDeclared, CronFires, TriggerSchedule, runVars
      <3>8. f = e
        BY <1>1, <3>7 DEF ExecuteSchedule, Goto, JobInv, RunTypes
      <3>9. QED
        BY <3>7, <3>8
    <2>2. k \in guard[p]
      BY <1>1, <2>1 DEF ExecuteSchedule, Goto, JobInv, RunTypes
    <2>3. owner'[e] = p /\ runKey'[e] = k
      BY <2>1, <1>1 DEF ExecuteSchedule, JobInv, RunTypes
    <2>4. (\E f \in Executions : Holds(f, p, k)) \/ k \in leaked[p]
      BY <1>1, <2>2 DEF JobInv, GuardsAreHeld
    <2>5. QED
      BY <2>3, <2>4 DEF Holds, Holders
  <1>2. JobInv /\ [JobNext]_jobVars =>
          [\A e \in Executions :
             runPc[e] = "idle" /\ runPc'[e] = "skip" =>
               \/ Holders(owner'[e], runKey'[e]) # {}
               \/ runKey'[e] \in leaked[owner'[e]]]_jobVars
    BY <1>1
  <1>3. QED
    BY <1>2, InitEstablishes, StepPreserves, PTL DEF JobSpec, SkipsAreExplained

\* No declaration and no restart resets a setting.
THEOREM OnlyEditsChangeSettings == JobSpec => EditsSurvive
  <1>1. ASSUME JobInv, [JobNext]_jobVars,
               NEW k \in Keys, setting[k] # NoRow, setting'[k] # setting[k]
        PROVE  edits' = edits + 1
    <2>1. CASE \E p \in Processes, j \in Keys : Scheduling(p, j)
      BY <1>1, <2>1 DEF Scheduling, FindDeclared, CreateDeclared, CronFires, TriggerSchedule,
                        ExecuteSchedule, settingVars, JobInv, RowTypes
    <2>2. CASE \E j \in Keys, s \in Settings : UpdateSchedule(j, s) \/ Edit(j, s)
      BY <2>2 DEF UpdateSchedule, Edit
    <2>3. CASE \E p \in Processes : Boot(p) \/ ReadSchedules(p) \/ Reconciling(p) \/ Crash(p)
      BY <1>1, <2>3 DEF Boot, ReadSchedules, Reconciling, ApplyReading, Crash, settingVars
    <2>4. CASE \E e \in Executions : Executing(e)
      BY <1>1, <2>4 DEF Executing, RecordSkip, InsertRun, InsertFails, HandlerReturns,
                        RecordSuccess, HandlerThrows, RecordFailure, settingVars
    <2>5. QED
      BY <1>1, <2>1, <2>2, <2>3, <2>4, SchedulerAssumption DEF JobNext, jobVars, settingVars
  <1>2. JobInv /\ [JobNext]_jobVars =>
          [\A k \in Keys :
             setting[k] # NoRow /\ setting'[k] # setting[k] => edits' = edits + 1]_jobVars
    BY <1>1
  <1>3. QED
    BY <1>2, InitEstablishes, StepPreserves, PTL DEF JobSpec, EditsSurvive

\* Runs of a schedule do not overlap and its history says how they ended.
THEOREM HistoryAccountsForRuns == JobSpec => []RunsAreAccounted
  <1>1. RunsExclude /\ HistoryIsTruthful => RunsAreAccounted
    BY DEF RunsAreAccounted
  <1>2. QED
    BY <1>1, RunsNeverOverlap, HistoryTellsTheTruth, PTL

-----------------------------------------------------------------------------
(* The check cycles of one schedule *)

\* One process runs one schedule, as MCScheduledChecks has it: two replicas, or
\* two schedules, would let cycles overlap.
OneSchedule == (\A p, q \in Processes : p = q) /\ (\A j, k \in Keys : j = k)

CheckTypes ==
    /\ target \in Targets /\ incidents \in Nat
    /\ cyclePc \in [Cycles -> {"idle", "probe", "advance", "opened", "closed"}]
    /\ seen \in [Cycles -> Targets] /\ outcome \in [Cycles -> BOOLEAN]
    /\ editPc \in [Editors -> {"idle", "write"}]
    /\ pausing \in [Editors -> BOOLEAN] /\ wasOpen \in [Editors -> BOOLEAN]
    /\ siteUp \in BOOLEAN /\ aborts \in 0 .. MaxAborts
    /\ failing \in 0 .. FailureThreshold /\ recovering \in 0 .. RecoveryThreshold
    /\ lastEvent \in {"none", "down", "recovered"} /\ crossed \in BOOLEAN

\* A cycle is the handler of a run.
CyclesRun == \A c \in Cycles : cyclePc[c] # "idle" => runPc[c] = "handle"

\* The guard lets one of them in.
OneCycle == \A c, d \in Cycles : cyclePc[c] # "idle" /\ cyclePc[d] # "idle" => c = d

OpenIsShort == target.alertOpen => target.successes < RecoveryThreshold /\ Cycles # {}

\* Nothing but the cycle itself opens the alert after its reading.
ReadingsHold ==
    \A c \in Cycles : cyclePc[c] \in {"probe", "advance"} /\ target.alertOpen => seen[c].alertOpen

\* A recovery is announced while the alert is closed.
RecoveryIsRecent == \A c \in Cycles : cyclePc[c] = "closed" => ~target.alertOpen

\* Nobody pauses the target on a reading from before an alert that is open,
\* except across its opening.
PausesKnow ==
    \A u \in Editors :
        editPc[u] = "write" /\ target.alertOpen /\ ~wasOpen[u] => crossed

CheckInv ==
    /\ CheckTypes /\ OpenIsShort /\ CyclesRun
    /\ AlertMatchesIncident /\ PausedAlertsAreClosed /\ AlertsAreAnnounced
    /\ ReadingsHold /\ RecoveryIsRecent /\ PausesKnow

LEMMA CheckBounds ==
    /\ FailureThreshold \in Nat /\ FailureThreshold > 0
    /\ RecoveryThreshold \in Nat /\ RecoveryThreshold > 0
    /\ IsFiniteSet(Cycles) /\ MaxAborts \in Nat
    /\ Cycles = Executions
  BY ThresholdAssumption, CyclesAreExecutions

LEMMA CheckInvGivesTypes == CheckInv => CheckTypeOK
  <1> SUFFICES ASSUME CheckInv PROVE CheckTypeOK
    OBVIOUS
  <1>1. Cardinality(Cycles) \in Nat /\ (Cycles # {} => Cardinality(Cycles) # 0)
    BY CheckBounds, FS_CardinalityType, FS_EmptySet
  <1>2. incidents \in {0, 1} /\ (incidents = 1 => Cycles # {})
    BY DEF CheckInv, AlertMatchesIncident, OpenIsShort
  <1>3. incidents \in 0 .. Cardinality(Cycles)
    BY <1>1, <1>2
  <1>4. QED
    BY <1>3 DEF CheckInv, CheckTypes, CheckTypeOK, OpenIsShort

LEMMA NewTargetIsTyped == NewTarget \in Targets
  BY CheckBounds DEF NewTarget, Targets

LEMMA InitEstablishesChecks == CheckInit => CheckInv
  <1> SUFFICES ASSUME CheckInit PROVE CheckInv
    OBVIOUS
  <1>1. CheckTypes
    <2>1. 0 \in 0 .. MaxAborts /\ 0 \in 0 .. FailureThreshold /\ 0 \in 0 .. RecoveryThreshold
      BY CheckBounds
    <2>2. target \in Targets /\ seen \in [Cycles -> Targets]
      BY NewTargetIsTyped DEF CheckInit
    <2>3. QED
      BY <2>1, <2>2 DEF CheckInit, CheckTypes
  <1>2. ~target.alertOpen
    BY DEF CheckInit, NewTarget
  <1>3. \A c \in Cycles : cyclePc[c] = "idle"
    BY DEF CheckInit
  <1>4. AlertMatchesIncident
    BY <1>2 DEF CheckInit, AlertMatchesIncident
  <1>5. OpenIsShort /\ PausedAlertsAreClosed /\ AlertsAreAnnounced /\ PausesKnow
    BY <1>2 DEF OpenIsShort, PausedAlertsAreClosed, AlertsAreAnnounced, PausesKnow
  <1>6. CyclesRun /\ ReadingsHold /\ RecoveryIsRecent
    BY <1>3 DEF CyclesRun, ReadingsHold, RecoveryIsRecent
  <1>7. QED
    BY <1>1, <1>4, <1>5, <1>6 DEF CheckInv

LEMMA CyclesExclude == ASSUME OneSchedule, JobInv, CyclesRun PROVE OneCycle
  <1> SUFFICES ASSUME NEW c \in Executions, NEW d \in Executions,
                      runPc[c] = "handle", runPc[d] = "handle"
               PROVE  c = d
    BY CheckBounds DEF CyclesRun, OneCycle
  <1>1. /\ owner[c] \in Processes /\ owner[d] = owner[c]
        /\ runKey[c] \in Keys /\ runKey[d] = runKey[c]
    BY DEF OneSchedule, JobInv, RunTypes
  <1>2. Holds(c, owner[c], runKey[c]) /\ Holds(d, owner[c], runKey[c])
    BY <1>1 DEF Holds, Guarded
  <1>3. QED
    BY <1>1, <1>2 DEF JobInv, GuardsAreHeld

\* Steps of the scheduler beside the cycles.
LEMMA SchedulerKeepsChecks ==
    ASSUME CheckInv, UNCHANGED checkVars, crashes' = crashes,
           \A c \in Cycles : cyclePc[c] # "idle" => runPc'[c] = "handle"
    PROVE  CheckInv'
  <1>1. UNCHANGED <<target, incidents, cyclePc, seen, outcome, editPc, pausing, wasOpen,
                    siteUp, aborts, failing, recovering, lastEvent, crossed>>
    BY DEF checkVars
  <1>2. CheckTypes'
    BY <1>1 DEF CheckInv, CheckTypes
  <1>3. CyclesRun'
    BY <1>1 DEF CyclesRun
  <1>4. /\ OpenIsShort' /\ AlertMatchesIncident' /\ PausedAlertsAreClosed'
        /\ AlertsAreAnnounced' /\ ReadingsHold' /\ RecoveryIsRecent' /\ PausesKnow'
    BY <1>1 DEF CheckInv, OpenIsShort, AlertMatchesIncident, PausedAlertsAreClosed,
                AlertsAreAnnounced, ReadingsHold, RecoveryIsRecent, PausesKnow
  <1>5. QED
    BY <1>2, <1>3, <1>4 DEF CheckInv

LEMMA RunChecksPreserves ==
    ASSUME CheckInv, NEW c \in Cycles, RunChecks(c), crashes' = crashes,
           \A d \in Cycles : runPc'[d] = IF d = c THEN "handle" ELSE runPc[d]
    PROVE  CheckInv'
  <1>1. /\ cyclePc' = [cyclePc EXCEPT ![c] = "probe"] /\ seen' = [seen EXCEPT ![c] = target]
        /\ cyclePc[c] = "idle"
        /\ UNCHANGED <<target, incidents, outcome, editPc, pausing, wasOpen, siteUp, aborts,
                       failing, recovering, lastEvent, crossed>>
    BY DEF RunChecks, editVars, worldVars, checkHistory
  <1>2. /\ CheckTypes
        /\ \A d \in Cycles : /\ cyclePc'[d] = IF d = c THEN "probe" ELSE cyclePc[d]
                             /\ seen'[d] = IF d = c THEN target ELSE seen[d]
    BY <1>1 DEF CheckInv, CheckTypes
  <1>3. CheckTypes'
    BY <1>1, <1>2 DEF CheckTypes
  <1>4. CyclesRun' /\ ReadingsHold' /\ RecoveryIsRecent'
    BY <1>1, <1>2 DEF CheckInv, CyclesRun, ReadingsHold, RecoveryIsRecent
  <1>5. AlertsAreAnnounced'
    BY <1>1, <1>2 DEF CheckInv, AlertsAreAnnounced
  <1>6. OpenIsShort' /\ AlertMatchesIncident' /\ PausedAlertsAreClosed' /\ PausesKnow'
    BY <1>1 DEF CheckInv, OpenIsShort, AlertMatchesIncident, PausedAlertsAreClosed, PausesKnow
  <1>7. QED
    BY <1>3, <1>4, <1>5, <1>6 DEF CheckInv

\* Probes, events, and transactions that fail.
LEMMA CycleMovesPreserve ==
    ASSUME CheckInv, OneCycle, NEW c \in Cycles, Probe(c) \/ AdvanceFails(c) \/ Emit(c),
           UNCHANGED <<runPc, crashes>>
    PROVE  CheckInv'
  <1> DEFINE next == IF cyclePc[c] = "probe" THEN "advance" ELSE "idle"
  <1>1. /\ cyclePc' = [cyclePc EXCEPT ![c] = next] /\ cyclePc[c] # "idle"
        /\ UNCHANGED <<target, incidents, editPc, pausing, wasOpen, siteUp, crossed,
                       failing, recovering>>
    BY DEF Probe, AdvanceFails, Emit, EndCycle, editVars, worldVars, checkHistory
  <1>2. /\ CheckTypes /\ cyclePc \in [Cycles -> {"idle", "probe", "advance", "opened", "closed"}]
        /\ \A d \in Cycles : cyclePc'[d] = IF d = c THEN next ELSE cyclePc[d]
    BY <1>1 DEF CheckInv, CheckTypes
  <1>3. /\ seen' \in [Cycles -> Targets] /\ outcome' \in [Cycles -> BOOLEAN]
        /\ \A d \in Cycles : d # c \/ cyclePc[c] = "probe" => seen'[d] = seen[d]
    BY NewTargetIsTyped DEF Probe, AdvanceFails, Emit, EndCycle, CheckInv, CheckTypes
  <1>4. aborts' \in 0 .. MaxAborts
    BY CheckBounds
    DEF Probe, AdvanceFails, Emit, CheckInv, CheckTypes, worldVars
  <1>5. lastEvent' \in {"none", "down", "recovered"}
    BY DEF Probe, AdvanceFails, Emit, CheckInv, CheckTypes, checkHistory
  <1>6. CheckTypes'
    BY <1>1, <1>2, <1>3, <1>4, <1>5 DEF CheckTypes
  <1>7. CyclesRun'
    BY <1>1, <1>2 DEF CheckInv, CyclesRun
  <1>8. ReadingsHold'
    BY <1>1, <1>2, <1>3 DEF CheckInv, ReadingsHold
  <1>9. RecoveryIsRecent'
    BY <1>1, <1>2 DEF CheckInv, RecoveryIsRecent
  <1>10. AlertsAreAnnounced'
    <2> SUFFICES ASSUME crashes = 0, target.alertOpen, \A d \in Cycles : cyclePc'[d] # "opened"
                 PROVE  lastEvent' = "down"
      BY <1>1 DEF AlertsAreAnnounced
    <2>1. cyclePc[c] # "closed"
      BY DEF CheckInv, RecoveryIsRecent
    <2>2. CASE cyclePc[c] = "opened"
      BY <2>2 DEF Probe, AdvanceFails, Emit
    <2>3. CASE cyclePc[c] # "opened"
      <3>1. lastEvent' = lastEvent
        BY <2>1, <2>3 DEF Probe, AdvanceFails, Emit, checkHistory
      <3>2. \A d \in Cycles : cyclePc[d] # "opened"
        BY <1>2, <2>3
      <3>3. QED
        BY <3>1, <3>2 DEF CheckInv, AlertsAreAnnounced
    <2>4. QED
      BY <2>2, <2>3
  <1>11. OpenIsShort' /\ AlertMatchesIncident' /\ PausedAlertsAreClosed' /\ PausesKnow'
    BY <1>1 DEF CheckInv, OpenIsShort, AlertMatchesIncident, PausedAlertsAreClosed, PausesKnow
  <1>12. QED
    BY <1>6, <1>7, <1>8, <1>9, <1>10, <1>11 DEF CheckInv

LEMMA CountedIsBounded ==
    ASSUME NEW n \in Nat, NEW threshold \in Nat
    PROVE  /\ Counted(n + 1, threshold) \in 0 .. threshold
           /\ 0 \in 0 .. threshold
  BY DEF Counted

\* What AdvanceState computes from a reading.
LEMMA AdvanceIsTyped ==
    ASSUME CheckTypes, NEW c \in Cycles
    PROVE  /\ Failures(c) \in 0 .. FailureThreshold /\ Successes(c) \in 0 .. RecoveryThreshold
           /\ OpensAlert(c) \in BOOLEAN /\ ClosesAlert(c) \in BOOLEAN
           /\ 0 \in 0 .. RecoveryThreshold
           /\ (OpensAlert(c) => Successes(c) = 0 /\ ~ClosesAlert(c) /\ ~seen[c].alertOpen)
           /\ (seen[c].alertOpen /\ ~ClosesAlert(c) => Successes(c) < RecoveryThreshold)
  <1>1. /\ seen[c].failures \in 0 .. FailureThreshold /\ seen[c].successes \in 0 .. RecoveryThreshold
        /\ outcome[c] \in BOOLEAN /\ seen[c].alertOpen \in BOOLEAN
    BY DEF CheckTypes, Targets
  <1>2. /\ Counted(seen[c].failures + 1, FailureThreshold) \in 0 .. FailureThreshold
        /\ 0 \in 0 .. FailureThreshold
        /\ Counted(seen[c].successes + 1, RecoveryThreshold) \in 0 .. RecoveryThreshold
        /\ 0 \in 0 .. RecoveryThreshold
    BY <1>1, CheckBounds, CountedIsBounded
  <1>3. Failures(c) \in 0 .. FailureThreshold /\ Successes(c) \in 0 .. RecoveryThreshold
    BY <1>2 DEF Failures, Successes
  <1>4. OpensAlert(c) \in BOOLEAN /\ ClosesAlert(c) \in BOOLEAN
    BY DEF OpensAlert, ClosesAlert
  <1>5. OpensAlert(c) => Successes(c) = 0 /\ ~ClosesAlert(c) /\ ~seen[c].alertOpen
    BY DEF OpensAlert, ClosesAlert, Successes
  <1>6. seen[c].alertOpen /\ ~ClosesAlert(c) => Successes(c) < RecoveryThreshold
    <2>1. CASE outcome[c]
      BY <1>3, <2>1, CheckBounds DEF ClosesAlert
    <2>2. CASE ~outcome[c]
      BY <2>2, CheckBounds DEF Successes
    <2>3. QED
      BY <2>1, <2>2
  <1>7. QED
    BY <1>2, <1>3, <1>4, <1>5, <1>6

\* The columns of a target, one by one.
LEMMA TargetColumns ==
    ASSUME target \in Targets, NEW f \in 0 .. FailureThreshold, NEW s \in 0 .. RecoveryThreshold,
           NEW o \in BOOLEAN,
           target' = [target EXCEPT !.failures = f, !.successes = s, !.alertOpen = o]
    PROVE  /\ target' \in Targets /\ target'.alertOpen = o /\ target'.successes = s
           /\ target'.exists = target.exists /\ target'.active = target.active
  BY DEF Targets

LEMMA AdvancePreserves ==
    ASSUME CheckInv, OneCycle, NEW c \in Cycles, AdvanceState(c), UNCHANGED <<runPc, crashes>>
    PROVE  CheckInv'
  <1> DEFINE opens == OpensAlert(c)
             closes == ClosesAlert(c)
             s == IF closes THEN 0 ELSE Successes(c)
             o == opens \/ (target.alertOpen /\ ~closes)
             next == Announces(c)
  <1>1. /\ CheckTypes /\ cyclePc[c] = "advance"
        /\ UNCHANGED <<editPc, pausing, wasOpen, siteUp, aborts, lastEvent>>
        /\ (target.alertOpen => seen[c].alertOpen)
    BY DEF CheckInv, AdvanceState, editVars, worldVars, ReadingsHold
  <1>2. /\ opens \in BOOLEAN /\ closes \in BOOLEAN /\ o \in BOOLEAN
        /\ Failures(c) \in 0 .. FailureThreshold /\ s \in 0 .. RecoveryThreshold
        /\ (opens => s = 0 /\ ~closes /\ ~target.alertOpen)
        /\ (target.alertOpen /\ ~closes => s < RecoveryThreshold)
    BY <1>1, AdvanceIsTyped
  <1>3. /\ target' \in Targets /\ target'.alertOpen = o /\ target'.successes = s
        /\ target'.exists = target.exists /\ target'.active = target.active
    <2>1. target' = [target EXCEPT !.failures = Failures(c), !.successes = s, !.alertOpen = o]
      BY DEF AdvanceState
    <2>2. target \in Targets
      BY <1>1 DEF CheckTypes
    <2> HIDE DEF s, o
    <2>3. QED
      BY <1>2, <2>1, <2>2, TargetColumns
  <1>4. /\ next = IF opens THEN "opened" ELSE IF closes THEN "closed" ELSE "idle"
        /\ incidents' = IF opens THEN incidents + 1 ELSE IF closes THEN 0 ELSE incidents
        /\ crossed' = (crossed \/ (opens /\ (~target.active \/ \E u \in Editors : editPc[u] = "write")))
    BY DEF AdvanceState, Announces, IncidentsAfter
  <1>5. \A d \in Cycles : cyclePc'[d] = IF d = c THEN next ELSE cyclePc[d]
    BY <1>1 DEF AdvanceState, CheckTypes
  <1>6. \A d \in Cycles : d # c => cyclePc[d] = "idle"
    BY <1>1 DEF OneCycle
  <1>7. /\ seen' \in [Cycles -> Targets] /\ outcome' \in [Cycles -> BOOLEAN]
        /\ cyclePc' \in [Cycles -> {"idle", "probe", "advance", "opened", "closed"}]
    BY <1>1, <1>4, NewTargetIsTyped DEF AdvanceState, CheckTypes
  <1>8. failing' \in 0 .. FailureThreshold /\ recovering' \in 0 .. RecoveryThreshold
    <2>1. failing \in Nat /\ recovering \in Nat
      BY <1>1, CheckBounds DEF CheckTypes
    <2>2. QED
      BY <2>1, CheckBounds, CountedIsBounded DEF AdvanceState
  <1>9. incidents' \in Nat /\ crossed' \in BOOLEAN
    BY <1>1, <1>2, <1>4 DEF CheckTypes
  <1> HIDE DEF opens, closes, s, o, next
  <1>10. CheckTypes'
    BY <1>1, <1>3, <1>7, <1>8, <1>9 DEF CheckTypes
  <1>11. o <=> (opens \/ (target.alertOpen /\ ~closes))
    BY DEF o
  <1>12. OpenIsShort'
    BY <1>2, <1>3, <1>11, CheckBounds DEF OpenIsShort
  <1>13. AlertMatchesIncident'
    BY <1>2, <1>3, <1>4, <1>11 DEF CheckInv, AlertMatchesIncident
  <1>14. PausedAlertsAreClosed'
    BY <1>3, <1>4, <1>11 DEF CheckInv, PausedAlertsAreClosed
  <1>15. PausesKnow'
    BY <1>1, <1>3, <1>4, <1>11 DEF CheckInv, PausesKnow
  <1>16. CyclesRun'
    BY <1>1, <1>5 DEF CheckInv, CyclesRun
  <1>17. next \in {"opened", "closed", "idle"} /\ (next = "closed" => closes /\ ~opens)
         /\ (next = "opened" <=> opens)
    BY <1>4
  <1>18. ReadingsHold' /\ RecoveryIsRecent'
    BY <1>3, <1>5, <1>6, <1>11, <1>17 DEF ReadingsHold, RecoveryIsRecent
  <1>19. AlertsAreAnnounced'
    BY <1>1, <1>3, <1>5, <1>6, <1>11, <1>17 DEF CheckInv, AlertsAreAnnounced
  <1>20. QED
    BY <1>10, <1>12, <1>13, <1>14, <1>15, <1>16, <1>18, <1>19 DEF CheckInv

\* Requests on the target, and the site.
LEMMA RequestsPreserve ==
    ASSUME CheckInv, Editing \/ Delete \/ SiteChanges, UNCHANGED <<runPc, crashes>>
    PROVE  CheckInv'
  <1>1. /\ CheckTypes
        /\ UNCHANGED <<cyclePc, seen, outcome, aborts, failing, recovering, lastEvent, crossed>>
    BY DEF CheckInv, Editing, ReadTarget, WriteTarget, Delete, SiteChanges,
           cycleVars, worldVars, checkHistory
  <1>2. CyclesRun'
    BY <1>1 DEF CheckInv, CyclesRun
  <1>3. ASSUME NEW u \in Editors, NEW pause \in BOOLEAN, ReadTarget(u, pause)
        PROVE  CheckInv'
    <2>1. /\ UNCHANGED <<target, incidents, siteUp>>
          /\ \A v \in Editors : /\ editPc'[v] = IF v = u THEN "write" ELSE editPc[v]
                                /\ wasOpen'[v] = IF v = u THEN target.alertOpen ELSE wasOpen[v]
      BY <1>1, <1>3 DEF ReadTarget, worldVars, CheckTypes
    <2>2. CheckTypes'
      BY <1>1, <1>3, <2>1 DEF ReadTarget, CheckTypes, Targets
    <2>3. PausesKnow'
      BY <1>1, <2>1 DEF CheckInv, PausesKnow
    <2>4. /\ OpenIsShort' /\ AlertMatchesIncident' /\ PausedAlertsAreClosed'
          /\ AlertsAreAnnounced' /\ ReadingsHold' /\ RecoveryIsRecent'
      BY <1>1, <2>1 DEF CheckInv, OpenIsShort, AlertMatchesIncident, PausedAlertsAreClosed,
                        AlertsAreAnnounced, ReadingsHold, RecoveryIsRecent
    <2>5. QED
      BY <1>2, <2>2, <2>3, <2>4 DEF CheckInv
  <1>4. ASSUME NEW u \in Editors, WriteTarget(u)
        PROVE  CheckInv'
    <2>1. /\ editPc[u] = "write" /\ siteUp' = siteUp
          /\ \A v \in Editors : /\ editPc'[v] = IF v = u THEN "idle" ELSE editPc[v]
                                /\ v # u => wasOpen'[v] = wasOpen[v]
      BY <1>1, <1>4 DEF WriteTarget, worldVars, CheckTypes
    <2>2. editPc' \in [Editors -> {"idle", "write"}] /\ pausing' \in [Editors -> BOOLEAN]
          /\ wasOpen' \in [Editors -> BOOLEAN]
      BY <1>1, <1>4 DEF WriteTarget, CheckTypes
    <2>3. CASE ~target.exists
      <3>1. UNCHANGED <<target, incidents>>
        BY <1>4, <2>3 DEF WriteTarget
      <3>2. CheckTypes'
        BY <1>1, <2>1, <2>2, <3>1 DEF CheckTypes
      <3>3. PausesKnow'
        BY <1>1, <2>1, <3>1 DEF CheckInv, PausesKnow
      <3>4. /\ OpenIsShort' /\ AlertMatchesIncident' /\ PausedAlertsAreClosed'
            /\ AlertsAreAnnounced' /\ ReadingsHold' /\ RecoveryIsRecent'
        BY <1>1, <3>1 DEF CheckInv, OpenIsShort, AlertMatchesIncident, PausedAlertsAreClosed,
                          AlertsAreAnnounced, ReadingsHold, RecoveryIsRecent
      <3>5. QED
        BY <1>2, <3>2, <3>3, <3>4 DEF CheckInv
    <2>4. CASE target.exists
      <3> DEFINE closes == ClosesOnPause(u)
      <3>1. /\ closes \in BOOLEAN /\ closes = (pausing[u] /\ wasOpen[u])
            /\ pausing[u] \in BOOLEAN
            /\ target \in Targets /\ incidents \in Nat
        BY <1>1 DEF ClosesOnPause, CheckTypes
      <3>2. /\ target' \in Targets /\ target'.alertOpen = (target.alertOpen /\ ~closes)
            /\ target'.active = ~pausing[u] /\ target'.successes = target.successes
        BY <1>4, <2>4, <3>1 DEF WriteTarget, Targets
      <3>3. incidents' = IF closes THEN 0 ELSE incidents
        BY <1>4, <2>4 DEF WriteTarget
      <3> HIDE DEF closes
      <3>4. CheckTypes'
        BY <1>1, <2>1, <2>2, <3>1, <3>2, <3>3 DEF CheckTypes
      <3>5. AlertMatchesIncident'
        BY <3>1, <3>2, <3>3 DEF CheckInv, AlertMatchesIncident
      <3>6. PausedAlertsAreClosed'
        <4> SUFFICES ASSUME target'.alertOpen, ~target'.active PROVE crossed
          BY <1>1 DEF PausedAlertsAreClosed
        <4>1. target.alertOpen /\ ~closes /\ pausing[u]
          BY <3>1, <3>2
        <4>2. ~wasOpen[u]
          BY <3>1, <4>1
        <4>3. QED
          BY <2>1, <4>1, <4>2 DEF CheckInv, PausesKnow
      <3>7. PausesKnow'
        BY <1>1, <2>1, <3>2 DEF CheckInv, PausesKnow
      <3>8. /\ OpenIsShort' /\ AlertsAreAnnounced' /\ ReadingsHold' /\ RecoveryIsRecent'
        BY <1>1, <3>2 DEF CheckInv, OpenIsShort, AlertsAreAnnounced, ReadingsHold,
                          RecoveryIsRecent
      <3>9. QED
        BY <1>2, <3>4, <3>5, <3>6, <3>7, <3>8 DEF CheckInv
    <2>5. QED
      BY <2>3, <2>4
  <1>5. CASE Delete
    <2>1. target' \in Targets /\ target'.alertOpen = FALSE /\ incidents' = 0
      BY <1>5, NewTargetIsTyped DEF Delete, NewTarget, Targets
    <2>2. UNCHANGED <<editPc, pausing, wasOpen, siteUp>>
      BY <1>5 DEF Delete, editVars, worldVars
    <2>3. CheckTypes'
      BY <1>1, <2>1, <2>2 DEF CheckTypes
    <2>4. /\ OpenIsShort' /\ AlertMatchesIncident' /\ PausedAlertsAreClosed' /\ AlertsAreAnnounced'
          /\ ReadingsHold' /\ RecoveryIsRecent' /\ PausesKnow'
      BY <2>1 DEF OpenIsShort, AlertMatchesIncident, PausedAlertsAreClosed, AlertsAreAnnounced,
                  ReadingsHold, RecoveryIsRecent, PausesKnow
    <2>5. QED
      BY <1>2, <2>3, <2>4 DEF CheckInv
  <1>6. CASE SiteChanges
    <2>1. UNCHANGED <<target, incidents, editPc, pausing, wasOpen>> /\ siteUp' \in BOOLEAN
      BY <1>6 DEF SiteChanges, editVars
    <2>2. CheckTypes'
      BY <1>1, <2>1 DEF CheckTypes
    <2>3. /\ OpenIsShort' /\ AlertMatchesIncident' /\ PausedAlertsAreClosed' /\ AlertsAreAnnounced'
          /\ ReadingsHold' /\ RecoveryIsRecent' /\ PausesKnow'
      BY <1>1, <2>1 DEF CheckInv, OpenIsShort, AlertMatchesIncident, PausedAlertsAreClosed,
                  AlertsAreAnnounced, ReadingsHold, RecoveryIsRecent, PausesKnow
    <2>4. QED
      BY <1>2, <2>2, <2>3 DEF CheckInv
  <1>7. QED
    BY <1>3, <1>4, <1>5, <1>6 DEF Editing

LEMMA CycleCrashPreserves ==
    ASSUME JobInv, CheckInv, NEW p \in Processes, CrashWithCycles(p)
    PROVE  CheckInv'
  <1>1. /\ CheckTypes /\ crashes' # 0
        /\ UNCHANGED <<target, incidents, editPc, pausing, wasOpen, siteUp, aborts,
                       failing, recovering, lastEvent, crossed>>
    BY SchedulerAssumption
    DEF CheckInv, CrashWithCycles, Crash, JobInv, RunTypes, editVars, worldVars, checkHistory
  <1>2. \A c \in Cycles : cyclePc'[c] # "idle" =>
            cyclePc'[c] = cyclePc[c] /\ seen'[c] = seen[c] /\ runPc'[c] = runPc[c]
    BY CheckBounds DEF CrashWithCycles, Crash
  <1>3. /\ cyclePc' \in [Cycles -> {"idle", "probe", "advance", "opened", "closed"}]
        /\ seen' \in [Cycles -> Targets] /\ outcome' \in [Cycles -> BOOLEAN]
    BY <1>1, NewTargetIsTyped DEF CrashWithCycles, CheckTypes
  <1>4. CheckTypes'
    BY <1>1, <1>3 DEF CheckTypes
  <1>5. CyclesRun' /\ ReadingsHold' /\ RecoveryIsRecent'
    BY <1>1, <1>2 DEF CheckInv, CyclesRun, ReadingsHold, RecoveryIsRecent
  <1>6. AlertsAreAnnounced'
    BY <1>1 DEF AlertsAreAnnounced
  <1>7. OpenIsShort' /\ AlertMatchesIncident' /\ PausedAlertsAreClosed' /\ PausesKnow'
    BY <1>1 DEF CheckInv, OpenIsShort, AlertMatchesIncident, PausedAlertsAreClosed, PausesKnow
  <1>8. QED
    BY <1>4, <1>5, <1>6, <1>7 DEF CheckInv

\* The steps of the composition are steps of the scheduler.
LEMMA ComposedStepsAreJobSteps == [ComposedNext]_composedVars => [JobNext]_jobVars
  <1>1. CASE UNCHANGED composedVars
    BY <1>1 DEF composedVars
  <1>2. ASSUME NEW p \in Processes, HostStep(p) \/ Fire(p) \/ CrashWithCycles(p)
        PROVE  JobNext
    BY <1>2 DEF HostStep, Declaring, Fire, CrashWithCycles, JobNext, Scheduling
  <1>3. ASSUME NEW e \in Executions, RunStep(e)
        PROVE  [JobNext]_jobVars
    BY <1>3 DEF RunStep, StartCycle, CycleStep, JobNext, Executing
  <1>4. CASE (Editing \/ Delete \/ SiteChanges) /\ UNCHANGED jobVars
    BY <1>4
  <1>5. QED
    BY <1>1, <1>2, <1>3, <1>4 DEF ComposedNext

LEMMA CheckStepPreserves ==
    ASSUME OneSchedule, JobInv, CheckInv, [ComposedNext]_composedVars
    PROVE  CheckInv'
  <1>1. OneCycle /\ Cycles = Executions
    BY CyclesExclude, CheckBounds DEF CheckInv
  <1>2. \A c \in Cycles : cyclePc[c] # "idle" => runPc[c] = "handle"
    BY DEF CheckInv, CyclesRun
  <1>3. runPc \in [Executions -> RunPcs]
    BY DEF JobInv, RunTypes
  <1>4. ASSUME UNCHANGED checkVars, UNCHANGED <<runPc, crashes>>
        PROVE  CheckInv'
    BY <1>2, <1>4, SchedulerKeepsChecks
  <1>5. ASSUME NEW p \in Processes, HostStep(p)
        PROVE  CheckInv'
    <2>1. UNCHANGED <<runPc, crashes>>
      BY <1>5 DEF HostStep, Declaring, Reconciling, Boot, ReadSchedules, ApplyReading,
                  FindDeclared, CreateDeclared, runVars
    <2>2. QED
      BY <1>4, <1>5, <2>1 DEF HostStep
  <1>6. ASSUME NEW p \in Processes, Fire(p)
        PROVE  CheckInv'
    <2>1. PICK k \in Keys, e \in Executions :
              UNCHANGED checkVars /\ ExecuteSchedule(p, k, e)
      BY <1>6 DEF Fire, CronFires, TriggerSchedule
    <2>2. /\ crashes' = crashes /\ runPc[e] = "idle"
          /\ \A c \in Executions : c # e => runPc'[c] = runPc[c]
      BY <1>3, <2>1 DEF ExecuteSchedule, Goto
    <2>3. QED
      BY <1>1, <1>2, <2>1, <2>2, SchedulerKeepsChecks
  <1>7. ASSUME NEW e \in Executions, StartCycle(e)
        PROVE  CheckInv'
    <2>1. /\ crashes' = crashes /\ runPc[e] = "insert"
          /\ \A c \in Executions : runPc'[c] = IF c = e THEN "handle" ELSE runPc[c]
      BY <1>3, <1>7 DEF StartCycle, InsertRun, Goto
    <2>2. CASE RunChecks(e)
      BY <1>1, <2>1, <2>2, RunChecksPreserves
    <2>3. CASE UNCHANGED checkVars
      BY <1>1, <1>2, <2>1, <2>3, SchedulerKeepsChecks
    <2>4. QED
      BY <1>7, <2>2, <2>3 DEF StartCycle
  <1>8. ASSUME NEW e \in Executions, CheckTarget(e), UNCHANGED jobVars
        PROVE  CheckInv'
    BY <1>1, <1>8, CycleMovesPreserve, AdvancePreserves DEF CheckTarget, jobVars, runVars
  <1>9. ASSUME NEW e \in Executions, UNCHANGED checkVars,
               \/ /\ cyclePc[e] = "idle"
                  /\ HandlerReturns(e) \/ HandlerThrows(e)
               \/ RecordSkip(e) \/ InsertFails(e) \/ RecordSuccess(e) \/ RecordFailure(e)
        PROVE  CheckInv'
    <2>1. /\ crashes' = crashes /\ \A c \in Executions : c # e => runPc'[c] = runPc[c]
          /\ cyclePc[e] = "idle" \/ runPc[e] # "handle"
      BY <1>3, <1>9 DEF HandlerReturns, HandlerThrows, RecordSkip, InsertFails, RecordSuccess,
                        RecordFailure, Goto
    <2>2. QED
      BY <1>1, <1>2, <1>9, <2>1, SchedulerKeepsChecks
  <1>10. ASSUME NEW e \in Executions, RunStep(e)
         PROVE  CheckInv'
    BY <1>7, <1>8, <1>9, <1>10 DEF RunStep, CycleStep
  <1>11. CASE (Editing \/ Delete \/ SiteChanges) /\ UNCHANGED jobVars
    BY <1>11, RequestsPreserve DEF jobVars, runVars
  <1>12. CASE UNCHANGED composedVars
    BY <1>4, <1>12 DEF composedVars, jobVars, runVars
  <1>13. QED
    BY <1>5, <1>6, <1>10, <1>11, <1>12, CycleCrashPreserves DEF ComposedNext

LEMMA ComposedImplementsScheduler == ComposedSpec => JobSpec
  <1>1. ComposedInit => JobInit
    BY DEF ComposedInit
  <1>2. QED
    BY <1>1, ComposedStepsAreJobSteps, PTL DEF ComposedSpec, JobSpec

\* The cycles of one schedule in one process leave the target, its incidents and
\* its announcements in agreement, for any thresholds and any number of runs and
\* requests, through crashes and edits that act on stale readings.
THEOREM ChecksStayConsistent ==
    ASSUME OneSchedule
    PROVE  ComposedSpec => []ChecksAreConsistent
  <1>1. JobInv /\ CheckInv => ChecksAreConsistent
    BY InvGivesTypes, CheckInvGivesTypes DEF CheckInv, ChecksAreConsistent
  <1>2. ComposedInit => JobInv /\ CheckInv
    BY InitEstablishes, InitEstablishesChecks DEF ComposedInit
  <1>3. JobInv /\ CheckInv /\ [ComposedNext]_composedVars => JobInv' /\ CheckInv'
    BY StepPreserves, ComposedStepsAreJobSteps, CheckStepPreserves, OneSchedule
  <1>4. QED
    BY <1>1, <1>2, <1>3, PTL DEF ComposedSpec

-----------------------------------------------------------------------------
(* What the counts stand for *)

Working == {c \in Cycles : cyclePc[c] \in {"probe", "advance"}}

\* Columns and readings count no more than was applied in a row.
CountsLag ==
    /\ target.failures <= failing /\ target.successes <= recovering
    /\ \A c \in Working : seen[c].failures <= failing /\ seen[c].successes <= recovering

LEMMA CountsGoOn ==
    ASSUME NEW n \in Nat, NEW m \in Nat, n <= m, NEW threshold \in Nat
    PROVE  /\ Counted(n + 1, threshold) <= Counted(m + 1, threshold)
           /\ (Counted(n + 1, threshold) >= threshold => Counted(m + 1, threshold) = threshold)
           /\ Counted(m + 1, threshold) >= 0
  BY DEF Counted

LEMMA CountsAreNumbers ==
    ASSUME CheckTypes
    PROVE  /\ target.failures \in Nat /\ target.successes \in Nat
           /\ failing \in Nat /\ recovering \in Nat
           /\ \A c \in Cycles : seen[c].failures \in Nat /\ seen[c].successes \in Nat
  BY CheckBounds DEF CheckTypes, Targets

\* One transaction.
LEMMA AdvanceCounts ==
    ASSUME CheckInv, OneCycle, CountsLag, NEW c \in Cycles, AdvanceState(c)
    PROVE  /\ CountsLag'
           /\ OpensAlert(c) => failing' = FailureThreshold
           /\ ClosesAlert(c) => recovering' = RecoveryThreshold
  <1>1. /\ CheckTypes /\ c \in Working
        /\ seen[c].failures <= failing /\ seen[c].successes <= recovering
        /\ seen[c].failures \in Nat /\ seen[c].successes \in Nat
        /\ failing \in Nat /\ recovering \in Nat
    BY CountsAreNumbers DEF CheckInv, AdvanceState, Working, CountsLag
  <1>2. /\ failing' = IF outcome[c] THEN 0 ELSE Counted(failing + 1, FailureThreshold)
        /\ recovering' = IF outcome[c] THEN Counted(recovering + 1, RecoveryThreshold) ELSE 0
    BY DEF AdvanceState
  <1>3. /\ Failures(c) <= failing' /\ Successes(c) <= recovering'
        /\ 0 <= recovering' /\ 0 <= failing'
        /\ (~outcome[c] /\ Failures(c) >= FailureThreshold => failing' = FailureThreshold)
        /\ (outcome[c] /\ seen[c].alertOpen /\ Successes(c) >= RecoveryThreshold
              => recovering' = RecoveryThreshold)
    BY <1>1, <1>2, CheckBounds, CountsGoOn DEF Failures, Successes
  <1>4. /\ target'.failures = Failures(c)
        /\ target'.successes = IF ClosesAlert(c) THEN 0 ELSE Successes(c)
    BY <1>1 DEF AdvanceState, CheckTypes, Targets
  <1>5. Working' = {}
    BY <1>1 DEF OneCycle, AdvanceState, CheckTypes, Working, Announces
  <1>6. QED
    BY <1>3, <1>4, <1>5 DEF CountsLag, OpensAlert, ClosesAlert

\* Any other step neither counts nor opens an alert, and closes one for a
\* request only.
OtherSteps ==
    /\ UNCHANGED <<failing, recovering>>
    /\ target'.failures = target.failures \/ target'.failures = 0
    /\ target'.successes = target.successes \/ target'.successes = 0
    /\ target'.alertOpen => target.alertOpen
    /\ incidents' # incidents => ~target'.exists \/ editPc' # editPc
    /\ \A c \in Working' : seen'[c] = target \/ (c \in Working /\ seen'[c] = seen[c])

LEMMA StepsCount ==
    ASSUME CheckInv, [ComposedNext]_composedVars
    PROVE  OtherSteps \/ \E c \in Cycles : AdvanceState(c)
  <1>1. CheckTypes /\ Cycles = Executions
    BY CheckBounds DEF CheckInv
  <1>2. ASSUME UNCHANGED checkVars PROVE OtherSteps
    BY <1>2 DEF checkVars, OtherSteps, Working
  <1>3. ASSUME NEW c \in Cycles, RunChecks(c) PROVE OtherSteps
    BY <1>1, <1>3 DEF RunChecks, OtherSteps, Working, checkHistory, editVars, CheckTypes
  <1>4. ASSUME NEW c \in Cycles, Probe(c) \/ AdvanceFails(c) \/ Emit(c) PROVE OtherSteps
    BY <1>1, <1>4 DEF Probe, AdvanceFails, Emit, EndCycle, OtherSteps, Working, checkHistory,
                      CheckTypes
  <1>5. CASE Editing \/ Delete \/ SiteChanges
    <2>1. UNCHANGED <<failing, recovering, cyclePc, seen>>
      BY <1>5 DEF Editing, ReadTarget, WriteTarget, Delete, SiteChanges, cycleVars, checkHistory
    <2>2. Working' = Working
      BY <2>1 DEF Working
    <2>3. ASSUME NEW u \in Editors, WriteTarget(u)
          PROVE  /\ target'.failures = target.failures /\ target'.successes = target.successes
                 /\ (target'.alertOpen => target.alertOpen) /\ editPc' # editPc
      <3>1. editPc' # editPc
        BY <1>1, <2>3 DEF WriteTarget, CheckTypes
      <3>2. CASE target.exists
        BY <1>1, <2>3, <3>1, <3>2 DEF WriteTarget, CheckTypes, Targets
      <3>3. CASE ~target.exists
        BY <2>3, <3>1, <3>3 DEF WriteTarget
      <3>4. QED
        BY <3>2, <3>3
    <2>4. CASE Delete
      <3>1. /\ target'.failures = 0 /\ target'.successes = 0 /\ target'.alertOpen = FALSE
            /\ target'.exists = FALSE
        BY <2>4 DEF Delete, NewTarget
      <3>2. QED
        BY <2>1, <2>2, <3>1 DEF OtherSteps
    <2>5. CASE UNCHANGED <<target, incidents>>
      BY <2>1, <2>2, <2>5 DEF OtherSteps
    <2>6. CASE \E u \in Editors : WriteTarget(u)
      BY <2>1, <2>2, <2>3, <2>6 DEF OtherSteps
    <2>7. QED
      BY <1>5, <2>4, <2>5, <2>6 DEF Editing, ReadTarget, SiteChanges
  <1>6. ASSUME NEW p \in Processes, CrashWithCycles(p) PROVE OtherSteps
    BY <1>1, <1>6 DEF CrashWithCycles, OtherSteps, Working, checkHistory, editVars, CheckTypes
  <1>7. ASSUME NEW e \in Executions, RunStep(e)
        PROVE  OtherSteps \/ AdvanceState(e)
    BY <1>1, <1>2, <1>3, <1>4, <1>7 DEF RunStep, StartCycle, CycleStep, CheckTarget
  <1>8. CASE UNCHANGED composedVars
    BY <1>2, <1>8 DEF composedVars
  <1>9. QED
    BY <1>1, <1>2, <1>5, <1>6, <1>7, <1>8 DEF ComposedNext, HostStep, Fire

LEMMA CountsStepPreserves ==
    ASSUME OneSchedule, JobInv, CheckInv, CountsLag, [ComposedNext]_composedVars
    PROVE  /\ CountsLag'
           /\ ~target.alertOpen /\ target'.alertOpen => failing' = FailureThreshold
           /\ incidents > incidents' /\ target'.exists /\ editPc' = editPc =>
                  recovering' = RecoveryThreshold
  <1>1. OneCycle /\ CheckTypes /\ incidents \in Nat
    BY CyclesExclude DEF CheckInv, CheckTypes
  <1>2. CASE OtherSteps
    <2>1. CountsLag'
      <3>1. /\ failing' = failing /\ recovering' = recovering
            /\ 0 <= failing /\ 0 <= recovering
        BY <1>1, <1>2, CountsAreNumbers DEF OtherSteps
      <3>2. target'.failures <= failing' /\ target'.successes <= recovering'
        BY <1>2, <3>1 DEF OtherSteps, CountsLag
      <3>3. \A c \in Working' : seen'[c].failures <= failing' /\ seen'[c].successes <= recovering'
        BY <1>2, <3>1 DEF OtherSteps, CountsLag
      <3>4. QED
        BY <3>2, <3>3 DEF CountsLag
    <2>2. ~(~target.alertOpen /\ target'.alertOpen)
      BY <1>2 DEF OtherSteps
    <2>3. ~(incidents > incidents' /\ target'.exists /\ editPc' = editPc)
      BY <1>1, <1>2 DEF OtherSteps
    <2>4. QED
      BY <2>1, <2>2, <2>3
  <1>3. ASSUME NEW c \in Cycles, AdvanceState(c)
        PROVE  /\ CountsLag'
               /\ ~target.alertOpen /\ target'.alertOpen => failing' = FailureThreshold
               /\ incidents > incidents' /\ target'.exists /\ editPc' = editPc =>
                      recovering' = RecoveryThreshold
    <2>1. /\ CountsLag'
          /\ OpensAlert(c) => failing' = FailureThreshold
          /\ ClosesAlert(c) => recovering' = RecoveryThreshold
      BY <1>1, <1>3, AdvanceCounts
    <2>2. target'.alertOpen => OpensAlert(c) \/ target.alertOpen
      BY <1>1, <1>3 DEF AdvanceState, CheckTypes, Targets
    <2>3. incidents > incidents' => ClosesAlert(c)
      BY <1>1, <1>3 DEF AdvanceState, IncidentsAfter
    <2>4. QED
      BY <2>1, <2>2, <2>3
  <1>4. QED
    BY <1>2, <1>3, StepsCount

LEMMA InitEstablishesCounts == CheckInit => CountsLag
  <1> SUFFICES ASSUME CheckInit PROVE CountsLag
    OBVIOUS
  <1>1. target.failures = 0 /\ target.successes = 0 /\ failing = 0 /\ recovering = 0
    BY DEF CheckInit, NewTarget
  <1>2. Working = {}
    BY DEF CheckInit, Working
  <1>3. QED
    BY <1>1, <1>2 DEF CountsLag

\* An alert opens on failures in a row and closes, unless a request closes it, on
\* successes in a row, for any thresholds: counts read earlier never run ahead of
\* what was applied.
THEOREM AlertsStayEarned ==
    ASSUME OneSchedule
    PROVE  ComposedSpec => AlertsAreEarned
  <1>1. ComposedInit => JobInv /\ CheckInv /\ CountsLag
    BY InitEstablishes, InitEstablishesChecks, InitEstablishesCounts DEF ComposedInit
  <1>2. JobInv /\ CheckInv /\ CountsLag /\ [ComposedNext]_composedVars
            => JobInv' /\ CheckInv' /\ CountsLag'
    BY StepPreserves, ComposedStepsAreJobSteps, CheckStepPreserves, CountsStepPreserves, OneSchedule
  <1>3. JobInv /\ CheckInv /\ CountsLag /\ [ComposedNext]_composedVars
            => [/\ ~target.alertOpen /\ target'.alertOpen => failing' = FailureThreshold
                /\ incidents > incidents' /\ target'.exists /\ editPc' = editPc =>
                       recovering' = RecoveryThreshold]_checkVars
    BY CountsStepPreserves, OneSchedule
  <1>4. QED
    BY <1>1, <1>2, <1>3, PTL DEF ComposedSpec, AlertsAreEarned
=============================================================================
