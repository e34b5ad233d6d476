-------------------------- MODULE CopilotRunsProofs --------------------------
(* Theorems about CopilotRuns for every number of users, conversations,      *)
(* requests and runs.                                                        *)
EXTENDS CopilotRuns, TLAPS

(* What the gate says comes from the user of the run; nothing else runs a tool. *)
GatesAreHonest == \A r \in ChatRuns :
    /\ chatRuns[r].gate = "confirmed" => chatRuns[r].by = "its user"
    /\ chatRuns[r].ranFor \subseteq {"its user"}

CopilotInv == CopilotTypeOK /\ GatesAreHonest /\ LocksAreReleased

USE CopilotAssumption DEF ChatRuns, NoRun, Times

LEMMA ConstantRecords ==
    /\ Unused \in RunRecords /\ Unused.steps = 0 /\ Unused.gate = "none" /\ Unused.ranFor = {}
    /\ Unused.pc = "unused"
    /\ Empty \in ChatRecords /\ Empty.run = NoRun /\ Empty.user = NoChatter
BY DEF Unused, RunOf, RunRecords, Empty, ChatRecords, Gates, Deciders

LEMMA InitEstablishes == CopilotInit => CopilotInv
  <1> SUFFICES ASSUME CopilotInit PROVE CopilotInv
    OBVIOUS
  <1>1. /\ \A c \in Chats : chats[c] = Empty
        /\ \A r \in ChatRuns : chatRuns[r] = Unused
    BY DEF CopilotInit
  <1>2. chats \in [Chats -> ChatRecords] /\ chatRuns \in [ChatRuns -> RunRecords]
    BY ConstantRecords DEF CopilotInit
  <1>3. replays \in [ChatRequests -> ReplayRecords] /\ chatClock \in Times
    BY DEF CopilotInit, ReplayRecords
  <1>4. QED
    BY <1>1, <1>2, <1>3, ConstantRecords
    DEF CopilotInv, CopilotTypeOK, GatesAreHonest, LocksAreReleased

Steps == {"unused", "model", "tool", "gate", "over"}

(* A record with some of its fields replaced, the way the actions replace them. *)
LEMMA GateKeepsShape ==
    ASSUME NEW x \in RunRecords, NEW g \in Gates, NEW b \in Deciders
    PROVE  [x EXCEPT !.gate = g, !.by = b] \in RunRecords
BY DEF RunRecords

LEMMA AbortKeepsShape ==
    ASSUME NEW x \in RunRecords, NEW a \in BOOLEAN
    PROVE  [x EXCEPT !.aborted = a] \in RunRecords
BY DEF RunRecords

LEMMA ToolKeepsShape ==
    ASSUME NEW x \in RunRecords, NEW p \in Steps, NEW k \in 0 .. MaxTools
    PROVE  [x EXCEPT !.pc = p, !.tools = k] \in RunRecords
BY DEF RunRecords, Steps

LEMMA TurnKeepsShape ==
    ASSUME NEW x \in RunRecords, NEW k \in 0 .. MaxAgentSteps
    PROVE  [x EXCEPT !.pc = "tool", !.steps = k] \in RunRecords
BY DEF RunRecords

LEMMA SuspendKeepsShape ==
    ASSUME NEW x \in RunRecords, NEW k \in 0 .. MaxTools, NEW t \in Times
    PROVE  [x EXCEPT !.pc = "gate", !.tools = k, !.gate = "pending", !.gateAt = t, !.by = "nobody"]
              \in RunRecords
BY DEF RunRecords, Gates, Deciders

LEMMA ResumeKeepsShape ==
    ASSUME NEW x \in RunRecords, NEW p \in Steps, NEW d \in SUBSET Deciders
    PROVE  [x EXCEPT !.pc = p, !.gate = "none", !.by = "nobody", !.ranFor = d] \in RunRecords
BY DEF RunRecords, Steps, Gates, Deciders

LEMMA EndKeepsShape ==
    ASSUME NEW x \in RunRecords, NEW t \in Times
    PROVE  [x EXCEPT !.pc = "over", !.end = t, !.steps = 0, !.tools = 0] \in RunRecords
  <1>1. 0 \in 0 .. MaxAgentSteps /\ 0 \in 0 .. MaxTools
    OBVIOUS
  <1>2. QED
    BY <1>1 DEF RunRecords

LEMMA TypedState ==
    ASSUME CopilotTypeOK, NEW r \in ChatRuns
    PROVE  /\ chatRuns[r] \in RunRecords /\ chatClock \in Times
           /\ chatRuns[r].tools \in 0 .. MaxTools /\ chatRuns[r].steps \in 0 .. MaxAgentSteps
           /\ chatRuns[r].ranFor \in SUBSET Deciders /\ chatRuns[r].request \in ChatRequests \union {NoRequest}
           /\ chatRuns[r].user \in Chatters \union {NoChatter}
BY DEF CopilotTypeOK, RunRecords

LEMMA FreshRunIsTyped ==
    ASSUME NEW q \in ChatRequests, NEW u \in Chatters, NEW c \in Chats, NEW t \in Times
    PROVE  /\ RunOf(q, u, c, t, "model") \in RunRecords
           /\ RunOf(q, u, c, t, "model").pc = "model"
           /\ RunOf(q, u, c, t, "model").gate = "none"
           /\ RunOf(q, u, c, t, "model").ranFor = {}
BY DEF RunOf, RunRecords, Gates, Deciders

(* Pruning leaves records that are typed, and no lock that was not there. *)
LEMMA PruningIsSafe ==
    ASSUME CopilotTypeOK
    PROVE  /\ PrunedChats \in [Chats -> ChatRecords]
           /\ PrunedReplays \in [ChatRequests -> ReplayRecords]
           /\ \A c \in Chats : PrunedChats[c] \in {chats[c], Empty}
BY ConstantRecords DEF CopilotTypeOK, PrunedChats, PrunedReplays, ReplayRecords

(* A run replaced by a typed one that is as live and as honest as it was. *)
LEMMA RunStepPreserves ==
    ASSUME CopilotInv, NEW r \in ChatRuns, NEW run \in RunRecords,
           chatRuns' = [chatRuns EXCEPT ![r] = run],
           run.pc \in {"tool", "gate"} => run.steps < MaxAgentSteps,
           Live(r) => run.pc \in {"model", "tool", "gate"},
           run.gate = "confirmed" => run.by = "its user",
           run.ranFor \subseteq {"its user"},
           UNCHANGED <<chats, replays, chatClock>>
    PROVE  CopilotInv'
BY DEF CopilotInv, CopilotTypeOK, GatesAreHonest, LocksAreReleased, Live, ChatRecords

-----------------------------------------------------------------------------
LEMMA RefusalPreserves ==
    ASSUME CopilotInv, NEW q \in ChatRequests, NEW u \in Chatters, NEW c \in Chats,
           BeginRefused(q, u, c)
    PROVE  CopilotInv'
BY PruningIsSafe, ConstantRecords
DEF CopilotInv, CopilotTypeOK, GatesAreHonest, LocksAreReleased, Live, BeginRefused

LEMMA BeginPreserves ==
    ASSUME CopilotInv, NEW q \in ChatRequests, NEW u \in Chatters, NEW c \in Chats,
           BeginRun(q, u, c)
    PROVE  CopilotInv'
  <1> DEFINE table(r) == [PrunedChats EXCEPT
                            ![c] = [user |-> u, updatedAt |-> chatClock, run |-> r]]
             fresh == RunOf(q, u, c, chatClock, "model")
  <1>1. PICK r \in ChatRuns :
          /\ chatRuns[r].pc = "unused"
          /\ \E E \in Evicted(table(r), u) :
               chats' = [d \in Chats |-> IF d \in E THEN Empty ELSE table(r)[d]]
          /\ chatRuns' = [chatRuns EXCEPT ![r] = fresh]
    BY DEF BeginRun
  <1>2. PICK E : chats' = [d \in Chats |-> IF d \in E THEN Empty ELSE table(r)[d]]
    BY <1>1
  <1>3. replays' = PrunedReplays /\ chatClock' = chatClock
    BY DEF BeginRun
  <1>4. [user |-> u, updatedAt |-> chatClock, run |-> r] \in ChatRecords
    BY DEF CopilotInv, CopilotTypeOK, ChatRecords
  <1>5. /\ table(r) \in [Chats -> ChatRecords]
        /\ \A d \in Chats : table(r)[d].run \in {chats[d].run, NoRun, r}
        /\ \A d \in Chats : table(r)[d].user = NoChatter => table(r)[d].run = NoRun
    BY <1>4, PruningIsSafe, ConstantRecords DEF CopilotInv, CopilotTypeOK
  <1>6. fresh \in RunRecords /\ fresh.pc = "model" /\ fresh.gate = "none" /\ fresh.ranFor = {}
    BY FreshRunIsTyped DEF CopilotInv, CopilotTypeOK
  <1> HIDE DEF fresh
  <1>7. CopilotTypeOK'
    BY <1>1, <1>2, <1>3, <1>5, <1>6, PruningIsSafe, ConstantRecords DEF CopilotInv, CopilotTypeOK
  <1>8. GatesAreHonest'
    BY <1>1, <1>6 DEF CopilotInv, CopilotTypeOK, GatesAreHonest
  <1>9. LocksAreReleased'
    BY <1>1, <1>2, <1>5, <1>6, ConstantRecords DEF CopilotInv, CopilotTypeOK, LocksAreReleased, Live
  <1>10. QED
    BY <1>7, <1>8, <1>9 DEF CopilotInv

LEMMA DecidePreserves ==
    ASSUME CopilotInv, NEW r \in ChatRuns, NEW u \in Chatters, Decide(r, u)
    PROVE  CopilotInv'
  <1>1. PICK v \in {"confirmed", "denied"} :
          chatRuns' = [chatRuns EXCEPT ![r] =
            Settled(@, v, IF u = @.user THEN "its user" ELSE "another")]
    BY DEF Decide
  <1> DEFINE run == [chatRuns[r] EXCEPT !.gate = v, !.by = "its user"]
  <1>2. chatRuns' = [chatRuns EXCEPT ![r] = run]
    BY <1>1 DEF Decide, MayResolve, Settled, CopilotInv, CopilotTypeOK
  <1>3. run \in RunRecords
    BY TypedState, GateKeepsShape DEF CopilotInv, Gates, Deciders
  <1>4. /\ run.pc = chatRuns[r].pc /\ run.steps = chatRuns[r].steps
        /\ run.by = "its user" /\ run.ranFor = chatRuns[r].ranFor
    BY DEF CopilotInv, CopilotTypeOK, RunRecords
  <1> HIDE DEF run
  <1>5. QED
    BY <1>2, <1>3, <1>4, RunStepPreserves
    DEF Decide, CopilotInv, CopilotTypeOK, GatesAreHonest, Live

(* A pending gate settled as denied, whoever settles it. *)
LEMMA DenialPreserves ==
    ASSUME CopilotInv, NEW r \in ChatRuns, NEW who \in Deciders, NEW flag \in BOOLEAN,
           chatRuns' = [chatRuns EXCEPT ![r] = Settled([@ EXCEPT !.aborted = flag], "denied", who)],
           UNCHANGED <<chats, replays, chatClock>>
    PROVE  CopilotInv'
  <1> DEFINE run == Settled([chatRuns[r] EXCEPT !.aborted = flag], "denied", who)
  <1>1. chatRuns' = [chatRuns EXCEPT ![r] = run]
    BY DEF CopilotInv, CopilotTypeOK
  <1>2. run \in RunRecords
    <2>1. [chatRuns[r] EXCEPT !.aborted = flag] \in RunRecords /\ "denied" \in Gates
      BY TypedState, AbortKeepsShape DEF CopilotInv, Gates
    <2>2. QED
      BY <2>1, GateKeepsShape DEF Settled
  <1>3. /\ run.pc = chatRuns[r].pc /\ run.steps = chatRuns[r].steps
        /\ run.ranFor = chatRuns[r].ranFor
        /\ run.gate = "confirmed" => run.by = chatRuns[r].by /\ chatRuns[r].gate = "confirmed"
    BY DEF CopilotInv, CopilotTypeOK, RunRecords, Settled
  <1> HIDE DEF run
  <1>4. (run.gate = "confirmed" => run.by = "its user") /\ run.ranFor \subseteq {"its user"}
    BY <1>3 DEF CopilotInv, GatesAreHonest
  <1>5. run.pc \in {"tool", "gate"} => run.steps < MaxAgentSteps
    BY <1>3 DEF CopilotInv, CopilotTypeOK
  <1>6. QED
    BY <1>1, <1>2, <1>3, <1>4, <1>5, RunStepPreserves DEF Live

LEMMA CallsToolsPreserves ==
    ASSUME CopilotInv, NEW r \in ChatRuns, CallsTools(r)
    PROVE  CopilotInv'
  <1> DEFINE run == [chatRuns[r] EXCEPT !.pc = "tool", !.steps = @ + 1]
  <1>1. chatRuns' = [chatRuns EXCEPT ![r] = run]
    BY DEF CallsTools, CopilotInv, CopilotTypeOK
  <1>2. chatRuns[r].steps + 1 \in 0 .. MaxAgentSteps /\ chatRuns[r].steps + 1 < MaxAgentSteps
    <2>1. chatRuns[r].steps \in Nat /\ chatRuns[r].steps + 1 < MaxAgentSteps
      BY TypedState DEF CallsTools, MayTakeStep, CopilotInv
    <2>2. QED
      BY <2>1
  <1>3. /\ run \in RunRecords /\ run.steps < MaxAgentSteps
        /\ run.pc = "tool" /\ run.gate = chatRuns[r].gate /\ run.by = chatRuns[r].by
        /\ run.ranFor = chatRuns[r].ranFor
    <2>1. run \in RunRecords
      BY <1>2, TypedState, TurnKeepsShape DEF CopilotInv
    <2>2. chatRuns[r] \in RunRecords
      BY TypedState DEF CopilotInv
    <2>3. QED
      BY <1>2, <2>1, <2>2 DEF RunRecords
  <1> HIDE DEF run
  <1>4. run.gate = "confirmed" => run.by = "its user"
    BY <1>3 DEF CopilotInv, GatesAreHonest
  <1>5. run.ranFor \subseteq {"its user"}
    BY <1>3 DEF CopilotInv, GatesAreHonest
  <1>6. QED
    BY <1>1, <1>3, <1>4, <1>5, RunStepPreserves DEF CallsTools

LEMMA DirectPreserves ==
    ASSUME CopilotInv, NEW r \in ChatRuns, Direct(r)
    PROVE  CopilotInv'
  <1>1. PICK step \in AfterTool :
          chatRuns' = [chatRuns EXCEPT ![r].pc = step, ![r].tools = @ + 1]
    BY DEF Direct
  <1> DEFINE run == [chatRuns[r] EXCEPT !.pc = step, !.tools = @ + 1]
  <1>2. chatRuns' = [chatRuns EXCEPT ![r] = run]
    BY <1>1 DEF CopilotInv, CopilotTypeOK
  <1>3. run \in RunRecords
    <2>1. chatRuns[r].tools + 1 \in 0 .. MaxTools
      BY TypedState DEF Direct, CopilotInv
    <2>2. QED
      BY <2>1, TypedState, ToolKeepsShape DEF AfterTool, Steps, CopilotInv
  <1>4. run.pc \in {"tool", "model"} /\ run.steps < MaxAgentSteps /\ run.gate = chatRuns[r].gate
        /\ run.by = chatRuns[r].by /\ run.ranFor = chatRuns[r].ranFor
    <2>1. chatRuns[r] \in RunRecords /\ chatRuns[r].steps < MaxAgentSteps
      BY DEF Direct, CopilotInv, CopilotTypeOK
    <2>2. QED
      BY <2>1 DEF AfterTool, RunRecords
  <1> HIDE DEF run
  <1>5. QED
    BY <1>2, <1>3, <1>4, RunStepPreserves DEF Direct, CopilotInv, GatesAreHonest

LEMMA SuspendPreserves ==
    ASSUME CopilotInv, NEW r \in ChatRuns, Suspend(r)
    PROVE  CopilotInv'
  <1> DEFINE run == [chatRuns[r] EXCEPT !.pc = "gate", !.tools = @ + 1, !.gate = "pending",
                       !.gateAt = chatClock, !.by = "nobody"]
  <1>1. chatRuns' = [chatRuns EXCEPT ![r] = run]
    BY DEF Suspend, CopilotInv, CopilotTypeOK
  <1>2. run \in RunRecords
    <2>1. chatRuns[r].tools + 1 \in 0 .. MaxTools
      BY TypedState DEF Suspend, CopilotInv
    <2>2. QED
      BY <2>1, TypedState, SuspendKeepsShape DEF CopilotInv
  <1>3. run.pc = "gate" /\ run.steps < MaxAgentSteps /\ run.gate = "pending"
        /\ run.ranFor = chatRuns[r].ranFor
    BY DEF Suspend, CopilotInv, CopilotTypeOK, RunRecords
  <1> HIDE DEF run
  <1>4. QED
    BY <1>1, <1>2, <1>3, RunStepPreserves DEF Suspend, CopilotInv, GatesAreHonest

LEMMA ResumePreserves ==
    ASSUME CopilotInv, NEW r \in ChatRuns, Resume(r)
    PROVE  CopilotInv'
  <1> DEFINE more == IF Executes(chatRuns[r]) THEN {chatRuns[r].by} ELSE {}
  <1>1. PICK step \in AfterTool :
          chatRuns' = [chatRuns EXCEPT ![r].pc = step, ![r].gate = "none", ![r].by = "nobody",
                         ![r].ranFor = @ \union more]
    BY DEF Resume
  <1>2. more \subseteq {"its user"}
    BY DEF CopilotInv, GatesAreHonest, Executes
  <1> HIDE DEF more
  <1> DEFINE run == [chatRuns[r] EXCEPT !.pc = step, !.gate = "none", !.by = "nobody",
                       !.ranFor = @ \union more]
  <1>3. chatRuns' = [chatRuns EXCEPT ![r] = run]
    BY <1>1 DEF CopilotInv, CopilotTypeOK
  <1>4. run \in RunRecords
    <2>1. chatRuns[r].ranFor \union more \in SUBSET Deciders
      BY <1>2, TypedState DEF CopilotInv, Deciders
    <2>2. QED
      BY <2>1, TypedState, ResumeKeepsShape DEF AfterTool, Steps, CopilotInv
  <1>5. run.pc \in {"tool", "model"} /\ run.steps < MaxAgentSteps /\ run.gate = "none"
        /\ run.ranFor = chatRuns[r].ranFor \union more
    BY DEF Resume, AfterTool, CopilotInv, CopilotTypeOK, RunRecords
  <1> HIDE DEF run
  <1>6. QED
    BY <1>2, <1>3, <1>4, <1>5, RunStepPreserves DEF Resume, CopilotInv, GatesAreHonest

(* However a run ends, its lock ends with it. *)
LEMMA OverPreserves ==
    ASSUME CopilotInv, NEW r \in ChatRuns, Live(r), Over(r)
    PROVE  CopilotInv'
  <1> DEFINE run == [chatRuns[r] EXCEPT !.pc = "over", !.end = chatClock, !.steps = 0, !.tools = 0]
  <1>1. chatRuns' = [chatRuns EXCEPT ![r] = run]
    BY DEF Over, CopilotInv, CopilotTypeOK
  <1>2. run \in RunRecords
    BY TypedState, EndKeepsShape DEF CopilotInv
  <1>3. run.pc = "over" /\ run.gate = chatRuns[r].gate /\ run.by = chatRuns[r].by
        /\ run.ranFor = chatRuns[r].ranFor
    BY DEF CopilotInv, CopilotTypeOK, RunRecords
  <1> HIDE DEF run
  <1>4. /\ chats' \in [Chats -> ChatRecords]
        /\ \A c \in Chats : chats'[c].run \in {chats[c].run, NoRun} \ {r}
        /\ \A c \in Chats : chats'[c].user = chats[c].user
    <2>1. ASSUME NEW x \in ChatRecords
          PROVE  /\ [x EXCEPT !.run = NoRun, !.updatedAt = chatClock] \in ChatRecords
                 /\ [x EXCEPT !.run = NoRun, !.updatedAt = chatClock].run = NoRun
                 /\ [x EXCEPT !.run = NoRun, !.updatedAt = chatClock].user = x.user
      BY DEF ChatRecords, CopilotInv, CopilotTypeOK
    <2>2. chats' = Released(r) /\ r # NoRun
      BY DEF Over
    <2>3. QED
      BY <2>1, <2>2 DEF Released, CopilotInv, CopilotTypeOK
  <1>5. replays' \in [ChatRequests -> ReplayRecords]
    <2>1. [user |-> chatRuns[r].user, at |-> chatClock] \in ReplayRecords
      BY TypedState DEF CopilotInv, ReplayRecords
    <2>2. QED
      BY <2>1 DEF Over, CopilotInv, CopilotTypeOK
  <1>6. CopilotTypeOK'
    <2>1. chatRuns \in [ChatRuns -> RunRecords] /\ chatClock \in Times /\ chatClock' = chatClock
      BY DEF Over, CopilotInv, CopilotTypeOK
    <2>2. chatRuns' \in [ChatRuns -> RunRecords]
      BY <1>1, <1>2, <2>1
    <2>3. \A s \in ChatRuns : chatRuns'[s].pc \in {"tool", "gate"} => chatRuns'[s].steps < MaxAgentSteps
      BY <1>1, <1>3 DEF CopilotInv, CopilotTypeOK
    <2>4. QED
      BY <2>1, <2>2, <2>3, <1>4, <1>5 DEF CopilotInv, CopilotTypeOK
  <1>7. GatesAreHonest'
    BY <1>1, <1>3 DEF CopilotInv, CopilotTypeOK, GatesAreHonest
  <1>8. LocksAreReleased'
    BY <1>1, <1>4 DEF CopilotInv, CopilotTypeOK, LocksAreReleased, Live
  <1>9. QED
    BY <1>6, <1>7, <1>8 DEF CopilotInv

LEMMA StepPreserves == CopilotInv /\ [CopilotNext]_copilotVars => CopilotInv'
  <1> SUFFICES ASSUME CopilotInv, [CopilotNext]_copilotVars PROVE CopilotInv'
    OBVIOUS
  <1>1. ASSUME NEW q \in ChatRequests, NEW u \in Chatters, NEW c \in Chats,
               BeginRefused(q, u, c) \/ BeginRun(q, u, c)
        PROVE  CopilotInv'
    BY <1>1, RefusalPreserves, BeginPreserves
  <1>2. ASSUME NEW r \in ChatRuns, NEW u \in Chatters, Decide(r, u) PROVE CopilotInv'
    BY <1>2, DecidePreserves
  <1>3. ASSUME NEW r \in ChatRuns, GateLapses(r) PROVE CopilotInv'
    <2>1. chatRuns[r] = [chatRuns[r] EXCEPT !.aborted = chatRuns[r].aborted]
          /\ chatRuns[r].aborted \in BOOLEAN
      BY DEF CopilotInv, CopilotTypeOK, RunRecords
    <2>2. QED
      BY <1>3, <2>1, DenialPreserves DEF GateLapses, TimedOut, Deciders, CopilotInv, CopilotTypeOK
  <1>4. ASSUME NEW r \in ChatRuns, Abort(r) PROVE CopilotInv'
    BY <1>4, DenialPreserves DEF Abort, Cancelled, Deciders, CopilotInv, CopilotTypeOK
  <1>5. ASSUME NEW r \in ChatRuns, CallsTools(r) \/ Direct(r) \/ Suspend(r) \/ Resume(r)
        PROVE  CopilotInv'
    BY <1>5, CallsToolsPreserves, DirectPreserves, SuspendPreserves, ResumePreserves
  <1>6. ASSUME NEW r \in ChatRuns, Terminates(r) \/ ObserverFails(r) PROVE CopilotInv'
    BY <1>6, OverPreserves DEF Terminates, ObserverFails, Live
  <1>7. CASE ChatTick
    <2>1. chatClock' \in Times /\ UNCHANGED <<chats, replays, chatRuns>>
      BY <1>7 DEF ChatTick, CopilotInv, CopilotTypeOK
    <2>2. QED
      BY <2>1 DEF CopilotInv, CopilotTypeOK, GatesAreHonest, LocksAreReleased, Live
  <1>8. CASE UNCHANGED copilotVars
    BY <1>8 DEF copilotVars, CopilotInv, CopilotTypeOK, GatesAreHonest, LocksAreReleased, Live
  <1>9. QED
    BY <1>1, <1>2, <1>3, <1>4, <1>5, <1>6, <1>7, <1>8 DEF CopilotNext

(* The kernel's stores keep their shape, and tools are called only while a    *)
(* turn is left.                                                              *)
THEOREM CopilotIsTyped == CopilotSpec => []CopilotTypeOK
  <1>1. CopilotInv => CopilotTypeOK
    BY DEF CopilotInv
  <1>2. QED
    BY <1>1, InitEstablishes, StepPreserves, PTL DEF CopilotSpec

(* A tool that needs approval runs only on the word of its run's user, for    *)
(* any number of users, runs and gates, whatever settles them first.          *)
THEOREM ToolsRunOnlyApproved == CopilotSpec => []ApprovedOnly
  <1>1. CopilotInv => ApprovedOnly
    BY DEF CopilotInv, GatesAreHonest, ApprovedOnly
  <1>2. QED
    BY <1>1, InitEstablishes, StepPreserves, PTL DEF CopilotSpec

(* No ending of a run leaves its conversation locked.                         *)
THEOREM NoLockOutlivesItsRun == CopilotSpec => []LocksAreReleased
  <1>1. CopilotInv => LocksAreReleased
    BY DEF CopilotInv
  <1>2. QED
    BY <1>1, InitEstablishes, StepPreserves, PTL DEF CopilotSpec

-----------------------------------------------------------------------------
(* Why a conversation has one run: the record of a conversation carries the   *)
(* start of the run that holds it, and a live run that holds it no longer     *)
(* has worked for more than the time to live.                                 *)
LockInv ==
    /\ \A r \in ChatRuns : Live(r) => chatRuns[r].chat \in Chats
    /\ \A c \in Chats : chats[c].run # NoRun =>
          chats[c].updatedAt = chatRuns[chats[c].run].start /\ chatRuns[chats[c].run].chat = c
    /\ \A r \in ChatRuns : Live(r) /\ chats[chatRuns[r].chat].run # r =>
          chatClock - chatRuns[r].start > ChatTtl
    /\ \A r, s \in ChatRuns : r < s /\ Started(s) => Started(r)
    /\ OneRunPerChat

(* A step of a run that moves neither its conversation nor its start. *)
LEMMA RunStepKeepsLocks ==
    ASSUME CopilotInv, LockInv,
           \A s \in ChatRuns : /\ chatRuns'[s].chat = chatRuns[s].chat
                               /\ chatRuns'[s].start = chatRuns[s].start
                               /\ Live(s)' => Live(s)
                               /\ Started(s)' <=> Started(s),
           \A c \in Chats : chats'[c] = chats[c] \/ (chats'[c].run = NoRun /\
                 (chats[c].run # NoRun => chatRuns'[chats[c].run].pc \notin {"model", "tool", "gate"})),
           chatClock' = chatClock
    PROVE  LockInv'
  <1>1. \A c \in Chats : chats[c].run \in ChatRuns \union {NoRun}
    BY DEF CopilotInv, CopilotTypeOK, ChatRecords
  <1>2. \A r \in ChatRuns : Live(r)' /\ chats'[chatRuns'[r].chat].run # r =>
          chatClock' - chatRuns'[r].start > ChatTtl
    <2> SUFFICES ASSUME NEW r \in ChatRuns, Live(r)', chats'[chatRuns[r].chat].run # r
                 PROVE  chatClock - chatRuns[r].start > ChatTtl
      OBVIOUS
    <2>1. Live(r) /\ chatRuns[r].chat \in Chats /\ r # NoRun
      BY DEF LockInv
    <2>2. chats[chatRuns[r].chat].run # r
      BY <2>1 DEF Live
    <2>3. QED
      BY <2>1, <2>2 DEF LockInv
  <1>3. \A c \in Chats : chats'[c].run # NoRun =>
          chats'[c].updatedAt = chatRuns'[chats'[c].run].start /\ chatRuns'[chats'[c].run].chat = c
    BY <1>1 DEF LockInv
  <1>4. OneRunPerChat'
    BY DEF LockInv, OneRunPerChat
  <1>5. QED
    BY <1>2, <1>3, <1>4 DEF LockInv

LEMMA RunActionKeepsLocks ==
    ASSUME CopilotInv, LockInv, NEW r \in ChatRuns,
           \/ \E u \in Chatters : Decide(r, u)
           \/ GateLapses(r) \/ Abort(r) \/ CallsTools(r) \/ Direct(r) \/ Suspend(r) \/ Resume(r)
           \/ Terminates(r) \/ ObserverFails(r)
    PROVE  LockInv'
  <1>1. chatRuns \in [ChatRuns -> RunRecords]
    BY DEF CopilotInv, CopilotTypeOK
  <1> DEFINE Kept == \A s \in ChatRuns : /\ chatRuns'[s].chat = chatRuns[s].chat
                                         /\ chatRuns'[s].start = chatRuns[s].start
                                         /\ Live(s)' => Live(s)
                                         /\ Started(s)' <=> Started(s)
  <1>2. CASE \/ \E u \in Chatters : Decide(r, u)
             \/ GateLapses(r) \/ Abort(r) \/ CallsTools(r) \/ Direct(r) \/ Suspend(r) \/ Resume(r)
    <2>1. UNCHANGED <<chats, chatClock>>
      BY <1>2 DEF Decide, GateLapses, Abort, CallsTools, Direct, Suspend, Resume
    <2>2. \A s \in ChatRuns \ {r} : chatRuns'[s] = chatRuns[s]
      BY <1>1, <1>2 DEF Decide, GateLapses, Abort, CallsTools, Direct, Suspend, Resume
    <2>3. /\ chatRuns'[r].chat = chatRuns[r].chat /\ chatRuns'[r].start = chatRuns[r].start
          /\ Live(r)' => Live(r)
          /\ Started(r)' <=> Started(r)
      <3>1. CASE \E u \in Chatters : Decide(r, u)
        <4>1. PICK v \in {"confirmed", "denied"}, who \in Deciders :
                chatRuns' = [chatRuns EXCEPT ![r] = Settled(@, v, who)]
          BY <3>1 DEF Decide, Deciders
        <4>2. QED
          BY <1>1, <4>1 DEF Settled, Live, Started, RunRecords
      <3>2. CASE GateLapses(r)
        BY <1>1, <3>2 DEF GateLapses, TimedOut, Settled, Live, Started, RunRecords
      <3>3. CASE Abort(r)
        BY <1>1, <3>3 DEF Abort, Cancelled, Settled, Live, Started, RunRecords
      <3>4. CASE CallsTools(r)
        BY <1>1, <3>4 DEF CallsTools, Live, Started, RunRecords
      <3>5. CASE Direct(r)
        BY <1>1, <3>5 DEF Direct, AfterTool, Live, Started, RunRecords
      <3>6. CASE Suspend(r)
        BY <1>1, <3>6 DEF Suspend, Live, Started, RunRecords
      <3>7. CASE Resume(r)
        BY <1>1, <3>7 DEF Resume, AfterTool, Live, Started, RunRecords
      <3>8. QED
        BY <1>2, <3>1, <3>2, <3>3, <3>4, <3>5, <3>6, <3>7
    <2>4. Kept
      BY <2>2, <2>3 DEF Live, Started
    <2>5. QED
      BY <2>1, <2>4, RunStepKeepsLocks
  <1>3. CASE Terminates(r) \/ ObserverFails(r)
    <2>1. Over(r) /\ Live(r)
      BY <1>3 DEF Terminates, ObserverFails, Live
    <2>2. Kept /\ ~Live(r)'
      <3>1. chatRuns' = [chatRuns EXCEPT ![r].pc = "over", ![r].end = chatClock,
              ![r].steps = 0, ![r].tools = 0]
        BY <2>1 DEF Over
      <3>2. \A s \in ChatRuns \ {r} : chatRuns'[s] = chatRuns[s]
        BY <1>1, <3>1
      <3>3. /\ chatRuns'[r].chat = chatRuns[r].chat /\ chatRuns'[r].start = chatRuns[r].start
            /\ chatRuns'[r].pc = "over"
        BY <1>1, <3>1 DEF RunRecords
      <3>4. QED
        BY <2>1, <3>2, <3>3 DEF Live, Started
    <2>3. \A c \in Chats : chats'[c] = chats[c] \/ (chats'[c].run = NoRun /\ chats[c].run = r)
      BY <2>1 DEF Over, Released, CopilotInv, CopilotTypeOK, ChatRecords
    <2>4. chatClock' = chatClock
      BY <2>1 DEF Over
    <2>5. QED
      BY <2>2, <2>3, <2>4, RunStepKeepsLocks DEF Live
  <1>4. QED
    BY <1>2, <1>3

(* A request gets the lock of a conversation nobody holds, or of one whose    *)
(* holder has outlived it.                                                    *)
LEMMA BeginKeepsLocks ==
    ASSUME CopilotInv, LockInv, NEW q \in ChatRequests, NEW u \in Chatters, NEW c \in Chats,
           BeginRun(q, u, c)
    PROVE  LockInv'
  <1> DEFINE table(s) == [PrunedChats EXCEPT
                            ![c] = [user |-> u, updatedAt |-> chatClock, run |-> s]]
             fresh == RunOf(q, u, c, chatClock, "model")
  <1>1. PICK s \in ChatRuns :
          /\ chatRuns[s].pc = "unused" /\ \A r \in 1 .. s - 1 : chatRuns[r].pc # "unused"
          /\ \E E \in Evicted(table(s), u) :
               chats' = [d \in Chats |-> IF d \in E THEN Empty ELSE table(s)[d]]
          /\ chatRuns' = [chatRuns EXCEPT ![s] = fresh]
    BY DEF BeginRun
  <1>2. PICK E \in Evicted(table(s), u) :
          chats' = [d \in Chats |-> IF d \in E THEN Empty ELSE table(s)[d]]
    BY <1>1
  <1>3. chatClock' = chatClock /\ chatClock \in Times /\ s # NoRun
    BY DEF BeginRun, CopilotInv, CopilotTypeOK
  <1>4. fresh.pc = "model" /\ fresh.chat = c /\ fresh.start = chatClock
    BY DEF RunOf
  <1> HIDE DEF fresh
  <1>5. \A r \in ChatRuns : chatRuns'[r] = IF r = s THEN fresh ELSE chatRuns[r]
    BY <1>1 DEF CopilotInv, CopilotTypeOK
  <1>6. \A d \in E : table(s)[d].run = NoRun
    BY <1>2 DEF Evicted
  <1>7. /\ table(s)[c].run = s /\ table(s)[c].updatedAt = chatClock
        /\ \A d \in Chats \ {c} : table(s)[d] = PrunedChats[d]
    BY PruningIsSafe DEF CopilotInv
  <1>8. /\ chats'[c] = table(s)[c] /\ c \notin E
        /\ \A d \in Chats \ {c} : chats'[d] = chats[d]
                                 \/ (chats[d].run = NoRun /\ chats'[d].run = NoRun)
    <2>1. \A d \in Chats \ {c} : PrunedChats[d] = chats[d]
                                 \/ (chats[d].run = NoRun /\ PrunedChats[d].run = NoRun)
      BY ConstantRecords DEF PrunedChats
    <2>2. c \notin E
      BY <1>3, <1>6, <1>7
    <2>3. QED
      BY <1>2, <1>6, <1>7, <2>1, <2>2, ConstantRecords
  <1>9. \A r \in ChatRuns : Live(r) /\ chatRuns[r].chat = c => chatClock - chatRuns[r].start > ChatTtl
    <2> SUFFICES ASSUME NEW r \in ChatRuns, Live(r), chatRuns[r].chat = c
                 PROVE  chatClock - chatRuns[r].start > ChatTtl
      OBVIOUS
    <2>1. CASE chats[c].run # r
      BY <2>1 DEF LockInv
    <2>2. CASE chats[c].run = r
      <3>1. PrunedChats[c] = chats[c] /\ r # NoRun
        BY <2>2 DEF PrunedChats
      <3>2. Found(c).run = NoRun
        BY DEF BeginRun, Refused
      <3>3. Lapsed(chats[c])
        BY <2>2, <3>1, <3>2 DEF Found
      <3>4. QED
        BY <2>2, <3>1, <3>3 DEF Lapsed, LockInv
    <2>3. QED
      BY <2>1, <2>2
  <1>10. \A r \in ChatRuns : r < s <=> Started(r)
    BY <1>1 DEF LockInv, Started
  <1>11. /\ \A r \in ChatRuns \ {s} : (Live(r)' <=> Live(r)) /\ (Started(r)' <=> Started(r))
         /\ Live(s)' /\ Started(s)' /\ ~Live(s) /\ ~Started(s)
    BY <1>1, <1>4, <1>5 DEF Live, Started
  <1>12. \A d \in Chats : chats[d].run # s
    BY <1>3, <1>11 DEF CopilotInv, LocksAreReleased
  <1>13. \A r \in ChatRuns : Live(r)' => chatRuns'[r].chat \in Chats
    BY <1>4, <1>5, <1>11 DEF LockInv
  <1>14. \A d \in Chats : chats'[d].run # NoRun =>
          chats'[d].updatedAt = chatRuns'[chats'[d].run].start /\ chatRuns'[chats'[d].run].chat = d
    <2>1. ASSUME NEW d \in Chats \ {c}, chats'[d].run # NoRun
          PROVE  chats'[d].updatedAt = chatRuns'[chats'[d].run].start
                 /\ chatRuns'[chats'[d].run].chat = d
      <3>1. chats'[d] = chats[d] /\ chats[d].run \in ChatRuns \ {s}
        BY <1>8, <1>12, <2>1 DEF CopilotInv, CopilotTypeOK, ChatRecords
      <3>2. QED
        BY <1>5, <2>1, <3>1 DEF LockInv
    <2>2. QED
      BY <1>4, <1>5, <1>7, <1>8, <2>1
  <1>15. \A r \in ChatRuns : Live(r)' /\ chats'[chatRuns'[r].chat].run # r =>
          chatClock' - chatRuns'[r].start > ChatTtl
    <2> SUFFICES ASSUME NEW r \in ChatRuns \ {s}, Live(r), chats'[chatRuns[r].chat].run # r
                 PROVE  chatClock - chatRuns[r].start > ChatTtl
      BY <1>3, <1>4, <1>5, <1>7, <1>8, <1>11
    <2>1. CASE chatRuns[r].chat = c
      BY <1>9, <2>1
    <2>2. CASE chatRuns[r].chat # c
      BY <1>8, <2>2 DEF LockInv
    <2>3. QED
      BY <2>1, <2>2
  <1>16. \A r, t \in ChatRuns : r < t /\ Started(t)' => Started(r)'
    BY <1>10, <1>11 DEF LockInv
  <1>17. OneRunPerChat'
    <2> SUFFICES ASSUME NEW r \in ChatRuns, NEW t \in ChatRuns, r < t, Live(r)', Live(t)',
                        chatRuns'[r].chat = chatRuns'[t].chat
                 PROVE  chatRuns'[t].start - chatRuns'[r].start > ChatTtl
      BY DEF OneRunPerChat
    <2>1. r # s
      BY <1>10, <1>11 DEF Live, Started
    <2>2. CASE t = s
      BY <1>4, <1>5, <1>9, <1>11, <2>1, <2>2
    <2>3. CASE t # s
      BY <1>5, <1>11, <2>1, <2>3 DEF LockInv, OneRunPerChat
    <2>4. QED
      BY <2>2, <2>3
  <1>18. QED
    BY <1>13, <1>14, <1>15, <1>16, <1>17 DEF LockInv

LEMMA RefusalKeepsLocks ==
    ASSUME CopilotInv, LockInv, NEW q \in ChatRequests, NEW u \in Chatters, NEW c \in Chats,
           BeginRefused(q, u, c)
    PROVE  LockInv'
  <1>1. \A d \in Chats : chats'[d] = chats[d] \/ (chats'[d].run = NoRun /\ chats[d].run = NoRun)
    BY ConstantRecords DEF BeginRefused, PrunedChats
  <1>2. chatRuns' = chatRuns /\ chatClock' = chatClock
    BY DEF BeginRefused
  <1>3. QED
    BY <1>1, <1>2, RunStepKeepsLocks DEF Live, Started

LEMMA StepKeepsLocks == CopilotInv /\ LockInv /\ [CopilotNext]_copilotVars => LockInv'
  <1> SUFFICES ASSUME CopilotInv, LockInv, [CopilotNext]_copilotVars PROVE LockInv'
    OBVIOUS
  <1>1. ASSUME NEW q \in ChatRequests, NEW u \in Chatters, NEW c \in Chats,
               BeginRefused(q, u, c) \/ BeginRun(q, u, c)
        PROVE  LockInv'
    BY <1>1, RefusalKeepsLocks, BeginKeepsLocks
  <1>2. ASSUME NEW r \in ChatRuns, NEW u \in Chatters, Decide(r, u) PROVE LockInv'
    BY <1>2, RunActionKeepsLocks
  <1>3. ASSUME NEW r \in ChatRuns,
               \/ GateLapses(r) \/ Abort(r) \/ CallsTools(r) \/ Direct(r) \/ Suspend(r)
               \/ Resume(r) \/ Terminates(r) \/ ObserverFails(r)
        PROVE  LockInv'
    BY <1>3, RunActionKeepsLocks
  <1>4. CASE ChatTick
    <2>1. \A r \in ChatRuns : chatRuns[r].start \in Nat
      BY DEF CopilotInv, CopilotTypeOK, RunRecords
    <2>2. chatClock \in Nat /\ chatClock' = chatClock + 1 /\ UNCHANGED <<chats, replays, chatRuns>>
      BY <1>4 DEF ChatTick, CopilotInv, CopilotTypeOK
    <2>3. \A r \in ChatRuns : chatClock - chatRuns[r].start > ChatTtl =>
                               chatClock' - chatRuns[r].start > ChatTtl
      BY <2>1, <2>2
    <2>4. QED
      BY <2>2, <2>3 DEF LockInv, OneRunPerChat, Live, Started
  <1>5. CASE UNCHANGED copilotVars
    BY <1>5 DEF copilotVars, LockInv, OneRunPerChat, Live, Started
  <1>6. QED
    BY <1>1, <1>2, <1>3, <1>4, <1>5 DEF CopilotNext

(* Two runs work on one conversation only if the earlier one had held it for  *)
(* longer than its time to live when the later one began.                     *)
THEOREM ChatsRunOneAtATime == CopilotSpec => []OneRunPerChat
  <1>1. CopilotInit => LockInv
    BY ConstantRecords DEF CopilotInit, LockInv, OneRunPerChat, Live, Started
  <1>2. LockInv => OneRunPerChat
    BY DEF LockInv
  <1>3. QED
    BY <1>1, <1>2, InitEstablishes, StepPreserves, StepKeepsLocks, PTL DEF CopilotSpec

(* A conversation is worked on by one run at a time and is free when that    *)
(* ended.                                                                     *)
THEOREM ChatsHaveOneOwner == CopilotSpec => []ChatsAreExclusive
  <1>1. OneRunPerChat /\ LocksAreReleased => ChatsAreExclusive
    BY DEF ChatsAreExclusive
  <1>2. QED
    BY <1>1, ChatsRunOneAtATime, NoLockOutlivesItsRun, PTL

-----------------------------------------------------------------------------
(* Why a repeated request is answered from the retained events: those of a   *)
(* run that is over are found under its request, or a later run's, until     *)
(* they have lapsed.                                                         *)
Retained(r) ==
    \/ chatClock - chatRuns[r].end > ReplayRetention
    \/ /\ replays[chatRuns[r].request].user # NoChatter
       /\ replays[chatRuns[r].request].at >= chatRuns[r].end

ReplayInv ==
    /\ \A r \in ChatRuns : Started(r) =>
           chatRuns[r].request \in ChatRequests /\ chatRuns[r].user \in Chatters
    /\ \A r \in ChatRuns : chatRuns[r].pc = "over" => chatRuns[r].end <= chatClock /\ Retained(r)

(* What a step of a run that does not end it leaves alone. *)
LEMMA WorkKeepsRequests ==
    ASSUME CopilotInv, NEW r \in ChatRuns,
           \/ \E u \in Chatters : Decide(r, u)
           \/ GateLapses(r) \/ Abort(r) \/ CallsTools(r) \/ Direct(r) \/ Suspend(r) \/ Resume(r)
    PROVE  /\ UNCHANGED <<chats, replays, chatClock>>
           /\ \A s \in ChatRuns : /\ Started(s)' <=> Started(s)
                                  /\ chatRuns'[s].pc = "over" <=> chatRuns[s].pc = "over"
                                  /\ chatRuns'[s].request = chatRuns[s].request
                                  /\ chatRuns'[s].user = chatRuns[s].user
                                  /\ chatRuns'[s].end = chatRuns[s].end
  <1>1. chatRuns \in [ChatRuns -> RunRecords]
    BY DEF CopilotInv, CopilotTypeOK
  <1>2. UNCHANGED <<chats, replays, chatClock>>
    BY DEF Decide, GateLapses, Abort, CallsTools, Direct, Suspend, Resume
  <1>3. \A s \in ChatRuns \ {r} : chatRuns'[s] = chatRuns[s]
    BY <1>1 DEF Decide, GateLapses, Abort, CallsTools, Direct, Suspend, Resume
  <1> DEFINE Same == /\ chatRuns'[r].request = chatRuns[r].request /\ chatRuns'[r].user = chatRuns[r].user
                     /\ chatRuns'[r].end = chatRuns[r].end
                     /\ chatRuns'[r].pc = "unused" <=> chatRuns[r].pc = "unused"
                     /\ chatRuns'[r].pc = "over" <=> chatRuns[r].pc = "over"
  <1>4. Same
    <2>1. CASE \E u \in Chatters : Decide(r, u)
      <3>1. PICK v \in {"confirmed", "denied"}, who \in Deciders :
              chatRuns' = [chatRuns EXCEPT ![r] = Settled(@, v, who)]
        BY <2>1 DEF Decide, Deciders
      <3>2. QED
        BY <1>1, <3>1 DEF Settled, RunRecords
    <2>2. CASE GateLapses(r)
      BY <1>1, <2>2 DEF GateLapses, TimedOut, Settled, RunRecords
    <2>3. CASE Abort(r)
      BY <1>1, <2>3 DEF Abort, Cancelled, Settled, RunRecords
    <2>4. CASE CallsTools(r)
      BY <1>1, <2>4 DEF CallsTools, RunRecords
    <2>5. CASE Direct(r)
      BY <1>1, <2>5 DEF Direct, AfterTool, RunRecords
    <2>6. CASE Suspend(r)
      BY <1>1, <2>6 DEF Suspend, RunRecords
    <2>7. CASE Resume(r)
      BY <1>1, <2>7 DEF Resume, AfterTool, RunRecords
    <2>8. QED
      BY <2>1, <2>2, <2>3, <2>4, <2>5, <2>6, <2>7
  <1> HIDE DEF Same
  <1>5. ASSUME NEW s \in ChatRuns
        PROVE  /\ Started(s)' <=> Started(s)
               /\ chatRuns'[s].pc = "over" <=> chatRuns[s].pc = "over"
               /\ chatRuns'[s].request = chatRuns[s].request
               /\ chatRuns'[s].user = chatRuns[s].user
               /\ chatRuns'[s].end = chatRuns[s].end
    BY <1>3, <1>4 DEF Same, Started
  <1>6. QED
    BY <1>2, <1>5

LEMMA OverKeepsReplays ==
    ASSUME CopilotInv, ReplayInv, NEW r \in ChatRuns, Live(r), Over(r)
    PROVE  ReplayInv' /\ \A s \in ChatRuns : Started(s)' <=> Started(s)
  <1> DEFINE run == [chatRuns[r] EXCEPT !.pc = "over", !.end = chatClock, !.steps = 0, !.tools = 0]
             q == chatRuns[r].request
  <1>1. \A s \in ChatRuns : chatRuns'[s] = IF s = r THEN run ELSE chatRuns[s]
    BY DEF Over, CopilotInv, CopilotTypeOK
  <1>2. run.pc = "over" /\ run.end = chatClock /\ run.request = q /\ run.user = chatRuns[r].user
    BY DEF CopilotInv, CopilotTypeOK, RunRecords
  <1>3. Started(r) /\ q \in ChatRequests /\ chatRuns[r].user \in Chatters
    BY DEF ReplayInv, Started, Live
  <1>4. /\ chatClock' = chatClock /\ chatClock \in Nat
        /\ \A p \in ChatRequests : replays'[p] = IF p = q THEN [user |-> chatRuns[r].user, at |-> chatClock]
                                                 ELSE replays[p]
    BY <1>3 DEF Over, CopilotInv, CopilotTypeOK
  <1>5. replays'[q].user # NoChatter /\ replays'[q].at = chatClock
    BY <1>3, <1>4
  <1> HIDE DEF run, q
  <1>6. \A s \in ChatRuns : Started(s)' <=> Started(s)
    BY <1>1, <1>2, <1>3 DEF Started
  <1>7. \A s \in ChatRuns : Started(s)' =>
           chatRuns'[s].request \in ChatRequests /\ chatRuns'[s].user \in Chatters
    BY <1>1, <1>2, <1>3, <1>6 DEF ReplayInv
  <1>8. ASSUME NEW s \in ChatRuns, chatRuns'[s].pc = "over"
        PROVE  chatRuns'[s].end <= chatClock' /\ Retained(s)'
    <2>1. CASE s = r
      <3>1. chatRuns'[s].end = chatClock /\ chatRuns'[s].request = q
        BY <1>1, <1>2, <2>1
      <3>2. QED
        BY <1>4, <1>5, <3>1 DEF Retained
    <2>2. CASE s # r
      <3>1. chatRuns'[s] = chatRuns[s] /\ chatRuns[s].end <= chatClock /\ Retained(s)
            /\ chatRuns[s].request \in ChatRequests /\ chatRuns[s].end \in Nat
        BY <1>1, <1>8, <2>2 DEF ReplayInv, Started, CopilotInv, CopilotTypeOK, RunRecords
      <3>2. CASE chatRuns[s].request = q
        BY <1>4, <1>5, <3>1, <3>2 DEF Retained
      <3>3. CASE chatRuns[s].request # q
        BY <1>4, <3>1, <3>3 DEF Retained
      <3>4. QED
        BY <3>1, <3>2, <3>3, <1>4
    <2>3. QED
      BY <2>1, <2>2
  <1>9. QED
    BY <1>6, <1>7, <1>8 DEF ReplayInv

(* Pruning drops retained events only when they have lapsed. *)
LEMMA PruningKeepsRetained ==
    ASSUME CopilotInv, ReplayInv, NEW r \in ChatRuns, chatRuns[r].pc = "over"
    PROVE  \/ chatClock - chatRuns[r].end > ReplayRetention
           \/ PrunedReplays[chatRuns[r].request] = replays[chatRuns[r].request]
              /\ replays[chatRuns[r].request].user # NoChatter
              /\ replays[chatRuns[r].request].at >= chatRuns[r].end
  <1> DEFINE q == chatRuns[r].request
  <1>1. q \in ChatRequests /\ Retained(r)
    BY DEF ReplayInv, Started
  <1>2. replays[q].at \in Nat /\ chatRuns[r].end \in Nat /\ chatClock \in Nat
    BY <1>1 DEF CopilotInv, CopilotTypeOK, RunRecords, ReplayRecords
  <1>3. PrunedReplays[q] = IF chatClock - replays[q].at > ReplayRetention
                           THEN [user |-> NoChatter, at |-> 0] ELSE replays[q]
    BY <1>1 DEF PrunedReplays
  <1>4. CASE chatClock - replays[q].at > ReplayRetention
    BY <1>1, <1>2, <1>4 DEF Retained
  <1>5. CASE ~(chatClock - replays[q].at > ReplayRetention)
    BY <1>1, <1>3, <1>5 DEF Retained
  <1>6. QED
    BY <1>4, <1>5

LEMMA RefusalKeepsReplays ==
    ASSUME CopilotInv, ReplayInv, NEW q \in ChatRequests, NEW u \in Chatters, NEW c \in Chats,
           BeginRefused(q, u, c)
    PROVE  ReplayInv' /\ \A s \in ChatRuns : Started(s)' <=> Started(s)
  <1>1. replays' = PrunedReplays /\ chatRuns' = chatRuns /\ chatClock' = chatClock
    BY DEF BeginRefused
  <1>2. \A r \in ChatRuns : chatRuns[r].pc = "over" => Retained(r)'
    BY <1>1, PruningKeepsRetained DEF Retained
  <1>3. QED
    BY <1>1, <1>2 DEF ReplayInv, Started

LEMMA BeginKeepsReplays ==
    ASSUME CopilotInv, ReplayInv, NEW q \in ChatRequests, NEW u \in Chatters, NEW c \in Chats,
           BeginRun(q, u, c)
    PROVE  /\ ReplayInv'
           /\ \A r, s \in ChatRuns :
                  (Begins(s) /\ chatRuns[r].pc = "over" /\ chatRuns[r].request = chatRuns'[s].request)
                      => chatClock - chatRuns[r].end > ReplayRetention
  <1> DEFINE fresh == RunOf(q, u, c, chatClock, "model")
  <1>1. PICK n \in ChatRuns : chatRuns[n].pc = "unused" /\ chatRuns' = [chatRuns EXCEPT ![n] = fresh]
    BY DEF BeginRun
  <1>2. fresh.pc = "model" /\ fresh.request = q /\ fresh.user = u
    BY DEF RunOf
  <1> HIDE DEF fresh
  <1>3. \A s \in ChatRuns : chatRuns'[s] = IF s = n THEN fresh ELSE chatRuns[s]
    BY <1>1 DEF CopilotInv, CopilotTypeOK
  <1>4. replays' = PrunedReplays /\ chatClock' = chatClock /\ PrunedReplays[q].user = NoChatter
    BY DEF BeginRun, Refused
  <1>5. \A s \in ChatRuns : Started(s)' =>
           chatRuns'[s].request \in ChatRequests /\ chatRuns'[s].user \in Chatters
    BY <1>2, <1>3 DEF ReplayInv, Started
  <1>6. ASSUME NEW s \in ChatRuns, chatRuns'[s].pc = "over"
        PROVE  chatRuns'[s].end <= chatClock' /\ Retained(s)'
    <2>1. chatRuns'[s] = chatRuns[s] /\ chatRuns[s].pc = "over"
      BY <1>2, <1>3, <1>6
    <2>2. Retained(s)'
      BY <1>4, <2>1, PruningKeepsRetained DEF Retained
    <2>3. QED
      BY <1>4, <2>1, <2>2 DEF ReplayInv
  <1>7. ASSUME NEW r \in ChatRuns, NEW s \in ChatRuns, Begins(s), chatRuns[r].pc = "over",
               chatRuns[r].request = chatRuns'[s].request
        PROVE  chatClock - chatRuns[r].end > ReplayRetention
    <2>1. s = n
      BY <1>3, <1>7 DEF Begins, Started
    <2>2. chatRuns[r].request = q
      BY <1>2, <1>3, <1>7, <2>1
    <2>3. QED
      BY <1>4, <1>7, <2>2, PruningKeepsRetained
  <1>8. QED
    BY <1>5, <1>6, <1>7 DEF ReplayInv

RepeatsWait ==
    \A r, s \in ChatRuns :
        (Begins(s) /\ chatRuns[r].pc = "over" /\ chatRuns[r].request = chatRuns'[s].request)
            => chatClock - chatRuns[r].end > ReplayRetention

LEMMA StepKeepsReplays ==
    CopilotInv /\ ReplayInv /\ [CopilotNext]_copilotVars => ReplayInv' /\ RepeatsWait
  <1> SUFFICES ASSUME CopilotInv, ReplayInv, [CopilotNext]_copilotVars
               PROVE  ReplayInv' /\ RepeatsWait
    OBVIOUS
  <1>1. (\A s \in ChatRuns : Started(s)' <=> Started(s)) => RepeatsWait
    BY DEF RepeatsWait, Begins
  <1>2. ASSUME NEW q \in ChatRequests, NEW u \in Chatters, NEW c \in Chats,
               BeginRefused(q, u, c) \/ BeginRun(q, u, c)
        PROVE  ReplayInv' /\ RepeatsWait
    BY <1>1, <1>2, RefusalKeepsReplays, BeginKeepsReplays DEF RepeatsWait
  <1>3. ASSUME NEW r \in ChatRuns,
               \/ \E u \in Chatters : Decide(r, u)
               \/ GateLapses(r) \/ Abort(r) \/ CallsTools(r) \/ Direct(r) \/ Suspend(r) \/ Resume(r)
        PROVE  ReplayInv' /\ RepeatsWait
    <2>1. /\ UNCHANGED <<chats, replays, chatClock>>
          /\ \A s \in ChatRuns : /\ Started(s)' <=> Started(s)
                                 /\ chatRuns'[s].pc = "over" <=> chatRuns[s].pc = "over"
                                 /\ chatRuns'[s].request = chatRuns[s].request
                                 /\ chatRuns'[s].user = chatRuns[s].user
                                 /\ chatRuns'[s].end = chatRuns[s].end
      BY <1>3, WorkKeepsRequests
    <2>2. \A s \in ChatRuns : Retained(s) => Retained(s)'
      BY <2>1 DEF Retained
    <2>3. QED
      BY <1>1, <2>1, <2>2 DEF ReplayInv
  <1>4. ASSUME NEW r \in ChatRuns, Terminates(r) \/ ObserverFails(r)
        PROVE  ReplayInv' /\ RepeatsWait
    BY <1>1, <1>4, OverKeepsReplays DEF Terminates, ObserverFails, Live
  <1>5. CASE ChatTick
    <2>1. UNCHANGED <<chats, replays, chatRuns>> /\ chatClock' = chatClock + 1 /\ chatClock \in Nat
      BY <1>5 DEF ChatTick, CopilotInv, CopilotTypeOK
    <2>2. \A s \in ChatRuns : chatRuns[s].end \in Nat
      BY DEF CopilotInv, CopilotTypeOK, RunRecords
    <2>3. \A s \in ChatRuns : /\ chatRuns[s].end <= chatClock => chatRuns[s].end <= chatClock'
                              /\ Retained(s) => Retained(s)'
      BY <2>1, <2>2 DEF Retained
    <2>4. QED
      BY <1>1, <2>1, <2>3 DEF ReplayInv, Started
  <1>6. CASE UNCHANGED copilotVars
    BY <1>1, <1>6 DEF copilotVars, ReplayInv, Retained, Started
  <1>7. QED
    BY <1>2, <1>3, <1>4, <1>5, <1>6 DEF CopilotNext

(* A request sent again after its run ended does not run the model again      *)
(* before the retained events have lapsed, whoever sends it, on whichever      *)
(* conversation, and however many runs it had.                                *)
THEOREM RepeatsStayReplayed == CopilotSpec => RepeatsAreReplayed
  <1>1. CopilotInit => ReplayInv
    BY ConstantRecords DEF CopilotInit, ReplayInv, Started
  <1>2. CopilotInv /\ ReplayInv /\ [CopilotNext]_copilotVars
          => [\A r, s \in ChatRuns :
                (Begins(s) /\ chatRuns[r].pc = "over" /\ chatRuns[r].request = chatRuns'[s].request) =>
                    chatClock - chatRuns[r].end > ReplayRetention]_copilotVars
    BY StepKeepsReplays DEF RepeatsWait
  <1>3. QED
    BY <1>1, <1>2, InitEstablishes, StepPreserves, StepKeepsReplays, PTL
    DEF CopilotSpec, RepeatsAreReplayed
=============================================================================
