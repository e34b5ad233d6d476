-------------------------- MODULE NotificationCenter --------------------------
(***************************************************************************)
(* packages/modules/notification-center (notification-center.service.ts):  *)
(* notify() writes one record per deduplication key and pushes it to the   *)
(* recipients of the host; failed deliveries are kept until a later push   *)
(* reaches the recipient.  Requests of several processes interleave at     *)
(* every query; the results of one push are written in any order.          *)
(***************************************************************************)
EXTENDS Naturals, FiniteSets

CONSTANTS
    Topics,         \* deduplication keys of system notifications
    Quiet,          \* those below the severity floor of a strict center
    Recipients, NoTopic, NoCenter,
    Notifiers,      \* requests in progress, slots used again
    MaxCenterEdits, MaxNotifyFaults, MaxTests       \* bounds

ASSUME CenterAssumption ==
    /\ Quiet \subseteq Topics /\ NoTopic \notin Topics
    /\ {MaxCenterEdits, MaxNotifyFaults, MaxTests} \subseteq Nat

VARIABLES
    center,         \* the settings row, or NoCenter
    records,        \* topics with a record
    unresolved,     \* for each recipient, the topics with an unresolved failure
    notifyPc, topic, setting, results,  \* each request: step, topic (NoTopic for a
                                        \* test), settings read, results to write
    (* history and bounds *)
    pushes,         \* pushes of each topic, counted up to 2
    unreached,      \* recipients the last recorded push did not reach
    pushesOverlapped, centerEdits, notifyFaults, tests

requestVars == <<notifyPc, topic, setting, results>>
centerHistory == <<pushes, unreached, pushesOverlapped, centerEdits, notifyFaults, tests>>
centerVars == <<center, records, unresolved, requestVars, centerHistory>>

Settings == [push : BOOLEAN, strict : BOOLEAN]
Defaults == [push |-> FALSE, strict |-> TRUE]

NotificationsTypeOK ==
    /\ center \in Settings \union {NoCenter} /\ records \subseteq Topics
    /\ unresolved \in [Recipients -> SUBSET Topics]
    /\ notifyPc \in [Notifiers -> {"idle", "find", "create", "record", "push", "results"}]
    /\ topic \in [Notifiers -> Topics \union {NoTopic}]
    /\ setting \in [Notifiers -> Settings]
    /\ results \in [Notifiers -> SUBSET (Recipients \X BOOLEAN)]
    /\ pushes \in [Topics -> 0 .. 2] /\ unreached \subseteq Recipients
    /\ \A r \in Recipients : unresolved[r] \subseteq records
    /\ pushesOverlapped \in BOOLEAN /\ centerEdits \in 0 .. MaxCenterEdits
    /\ notifyFaults \in 0 .. MaxNotifyFaults /\ tests \in 0 .. MaxTests

CenterInit ==
    /\ center = NoCenter /\ records = {} /\ unresolved = [r \in Recipients |-> {}]
    /\ notifyPc = [n \in Notifiers |-> "idle"] /\ topic = [n \in Notifiers |-> NoTopic]
    /\ setting = [n \in Notifiers |-> Defaults] /\ results = [n \in Notifiers |-> {}]
    /\ pushes = [t \in Topics |-> 0] /\ unreached = {} /\ pushesOverlapped = FALSE
    /\ centerEdits = 0 /\ notifyFaults = 0 /\ tests = 0

-----------------------------------------------------------------------------
Finish(n) ==
    /\ notifyPc' = [notifyPc EXCEPT ![n] = "idle"] /\ topic' = [topic EXCEPT ![n] = NoTopic]
    /\ setting' = [setting EXCEPT ![n] = Defaults] /\ results' = [results EXCEPT ![n] = {}]

\* The setting is read; a notification below the floor is dropped.
Resolve(n, s) ==
    IF topic[n] \in Quiet /\ s.strict
    THEN Finish(n)
    ELSE /\ setting' = [setting EXCEPT ![n] = s]
         /\ notifyPc' = [notifyPc EXCEPT ![n] = "record"] /\ UNCHANGED <<topic, results>>

Notify(n, t) ==
    /\ notifyPc[n] = "idle" /\ notifyPc' = [notifyPc EXCEPT ![n] = "find"]
    /\ topic' = [topic EXCEPT ![n] = t]
    /\ UNCHANGED <<center, records, unresolved, setting, results, centerHistory>>

\* getOrCreateCenterSetting: find, then create.
FindCenter(n) ==
    /\ notifyPc[n] = "find"
    /\ IF center = NoCenter
       THEN /\ notifyPc' = [notifyPc EXCEPT ![n] = "create"]
            /\ UNCHANGED <<topic, setting, results>>
       ELSE Resolve(n, center)
    /\ UNCHANGED <<center, records, unresolved, centerHistory>>

\* Mutant: the row is upserted with the defaults.
UpsertCenter(n) ==
    /\ notifyPc[n] = "create"
    /\ center' = Defaults /\ Resolve(n, Defaults)
    /\ UNCHANGED <<records, unresolved, centerHistory>>

\* A second creation violates the key and fails the request.
CreateCenter(n) ==
    /\ notifyPc[n] = "create"
    /\ IF center = NoCenter
       THEN center' = Defaults /\ Resolve(n, Defaults)
       ELSE Finish(n) /\ UNCHANGED center
    /\ UNCHANGED <<records, unresolved, centerHistory>>

\* Only the request that created the record goes on to push.
GoesOn(n) == topic[n] \notin records /\ setting[n].push

CreateRecord(n) ==
    /\ notifyPc[n] = "record"
    /\ records' = records \union {topic[n]}
    /\ IF GoesOn(n)
       THEN notifyPc' = [notifyPc EXCEPT ![n] = "push"] /\ UNCHANGED <<topic, setting, results>>
       ELSE Finish(n)
    /\ UNCHANGED <<center, unresolved, centerHistory>>

\* testPush: its successes heal, its failures are only shown.
TestPush(n) ==
    /\ notifyPc[n] = "idle" /\ center # NoCenter /\ center.push
    /\ tests < MaxTests /\ tests' = tests + 1
    /\ notifyPc' = [notifyPc EXCEPT ![n] = "push"]
    /\ UNCHANGED <<center, records, unresolved, topic, setting, results, pushes, unreached,
                   pushesOverlapped, centerEdits, notifyFaults>>

\* Mutant: a test counts as a delivery that may fail.
ResultsWithFailures(n, reached) == {<<r, r \in reached>> : r \in Recipients}

ResultsOf(n, reached) ==
    {<<r, r \in reached>> : r \in IF topic[n] = NoTopic THEN reached ELSE Recipients}

\* pushSystemText returns with the recipients that were reached.
Push(n, reached) ==
    /\ notifyPc[n] = "push"
    /\ results' = [results EXCEPT ![n] = ResultsOf(n, reached)]
    /\ notifyPc' = [notifyPc EXCEPT ![n] = "results"]
    /\ unreached' = IF topic[n] = NoTopic THEN unreached \ reached ELSE Recipients \ reached
    /\ pushes' = IF topic[n] = NoTopic THEN pushes
                 ELSE [pushes EXCEPT ![topic[n]] = IF @ < 2 THEN @ + 1 ELSE @]
    /\ pushesOverlapped' =
           (pushesOverlapped \/ \E o \in Notifiers : notifyPc[o] = "results")
    /\ UNCHANGED <<center, records, unresolved, topic, setting, centerEdits, notifyFaults, tests>>

\* Mutant: only the failures of the same notification are resolved.
ResolvedOwn(n, r) == unresolved[r] \ {topic[n]}

\* resolveFailures: a success resolves whatever failed for the recipient.
Resolved(n, r) == {}

\* recordFailure or resolveFailures for one recipient.
WriteResult(n, r, ok) ==
    /\ notifyPc[n] = "results" /\ <<r, ok>> \in results[n]
    /\ unresolved' = [unresolved EXCEPT ![r] = IF ok THEN Resolved(n, r) ELSE @ \union {topic[n]}]
    /\ results' = [results EXCEPT ![n] = @ \ {<<r, ok>>}]
    /\ UNCHANGED <<center, records, notifyPc, topic, setting, centerHistory>>

FinishNotify(n) ==
    /\ notifyPc[n] = "results" /\ results[n] = {} /\ Finish(n)
    /\ UNCHANGED <<center, records, unresolved, centerHistory>>

\* A query fails or the process dies: what the request still had to do is not
\* done.  (The adapter failing as a whole is this step at the push, but for a
\* failure row of its own that no later push resolves.)
RequestDies(n) ==
    /\ notifyPc[n] # "idle"
    /\ notifyFaults < MaxNotifyFaults /\ notifyFaults' = notifyFaults + 1
    /\ Finish(n)
    /\ UNCHANGED <<center, records, unresolved, pushes, unreached, pushesOverlapped,
                   centerEdits, tests>>

UpdateCenter(s) ==
    /\ center # s /\ center' = s
    /\ centerEdits < MaxCenterEdits /\ centerEdits' = centerEdits + 1
    /\ UNCHANGED <<records, unresolved, requestVars, pushes, unreached, pushesOverlapped,
                   notifyFaults, tests>>

CenterNext ==
    \/ \E s \in Settings : UpdateCenter(s)
    \/ \E n \in Notifiers :
          \/ FindCenter(n) \/ CreateCenter(n) \/ CreateRecord(n) \/ TestPush(n)
          \/ FinishNotify(n) \/ RequestDies(n)
          \/ \E t \in Topics : Notify(n, t)
          \/ \E reached \in SUBSET Recipients : Push(n, reached)
          \/ \E r \in Recipients : \E ok \in BOOLEAN : WriteResult(n, r, ok)

CenterSpec == CenterInit /\ [][CenterNext]_centerVars

-----------------------------------------------------------------------------
(* Properties *)

\* However often and by however many requests a key is notified, its record is
\* pushed at most once, and never without the record.
PushedOnce == \A t \in Topics : pushes[t] <= 1 /\ (pushes[t] = 1 => t \in records)

\* The unresolved failures are those of the recipients that the last push did not
\* reach; excepted are requests that died and pushes that overlapped, where a
\* failure that is written after a later success stays.
FailuresAreCurrent ==
    (notifyFaults = 0 /\ ~pushesOverlapped /\ \A n \in Notifiers : notifyPc[n] # "results") =>
        \A r \in Recipients : unresolved[r] # {} <=> r \in unreached

\* Only an operator changes the settings row once it exists: the requests that
\* create it when they find none do not reset an edit.
CenterEditsSurvive ==
    [][(center # NoCenter /\ center' # center) => centerEdits' > centerEdits]_centerVars

\* A record is pushed once, and the failures on record are those of its push.
PushesAreAccounted == PushedOnce /\ FailuresAreCurrent
=============================================================================
