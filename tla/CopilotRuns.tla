----------------------------- MODULE CopilotRuns -----------------------------
(***************************************************************************)
(* packages/modules/copilot/kernel: a chat request becomes a run of the    *)
(* agent loop (agent-runner.ts) behind the lock of its conversation        *)
(* (conversation-store.ts); a tool that needs approval suspends the run    *)
(* until its user decides, time runs out or the run is aborted             *)
(* (confirmation-manager.ts).  consume-agent-run.ts ties the two ends.     *)
(* Everything lives in memory: a restart forgets all of it at once.        *)
(***************************************************************************)
EXTENDS Naturals, FiniteSets

CONSTANTS
    Chatters, Chats, ChatRequests,  \* users, conversation ids, request ids
    NoChatter, NoRequest, NoChat,
    ChatTtl, ReplayRetention, ApprovalTimeout,
    MaxChats,                       \* conversations kept per user
    MaxAgentSteps,
    MaxChatRuns, MaxChatTime, MaxTools  \* bounds: runs, the clock, tools of a run

ASSUME CopilotAssumption ==
    /\ {MaxChatRuns, ChatTtl, ReplayRetention, ApprovalTimeout, MaxChatTime} \subseteq Nat
    /\ {MaxChats, MaxAgentSteps, MaxTools} \subseteq Nat \ {0}
    /\ NoChatter \notin Chatters

VARIABLES
    chats,      \* conversation id -> record; user NoChatter when there is none
    replays,    \* request id -> user and time of its retained events
    chatRuns,   \* the runs started so far and what each one is doing
    chatClock

copilotVars == <<chats, replays, chatRuns, chatClock>>

NoRun == 0
ChatRuns == 1 .. MaxChatRuns        \* numbered as they start
Times == 0 .. MaxChatTime
Gates == {"none", "pending", "confirmed", "denied"}
RunOf(q, u, c, t, step) ==
    [request |-> q, user |-> u, chat |-> c, start |-> t, end |-> 0, pc |-> step,
     steps |-> 0, tools |-> 0, aborted |-> FALSE,
     gate |-> "none", gateAt |-> 0, by |-> "nobody", ranFor |-> {}]
Unused == RunOf(NoRequest, NoChatter, NoChat, 0, "unused")
Deciders == {"nobody", "its user", "another", "timeout", "abort"}
Empty == [user |-> NoChatter, updatedAt |-> 0, run |-> NoRun]

RunRecords == [request : ChatRequests \union {NoRequest},
               user : Chatters \union {NoChatter}, chat : Chats \union {NoChat},
               start : Times, end : Times, pc : {"unused", "model", "tool", "gate", "over"},
               steps : 0 .. MaxAgentSteps, tools : 0 .. MaxTools, aborted : BOOLEAN,
               gate : Gates, gateAt : Times, by : Deciders, ranFor : SUBSET Deciders]
ChatRecords == [user : Chatters \union {NoChatter}, updatedAt : Times,
                run : ChatRuns \union {NoRun}]
ReplayRecords == [user : Chatters \union {NoChatter}, at : Times]

Live(r) == chatRuns[r].pc \in {"model", "tool", "gate"}

CopilotTypeOK ==
    /\ chats \in [Chats -> ChatRecords] /\ replays \in [ChatRequests -> ReplayRecords]
    /\ chatRuns \in [ChatRuns -> RunRecords]
    /\ chatClock \in Times
    /\ \A r \in ChatRuns : chatRuns[r].pc \in {"tool", "gate"} => chatRuns[r].steps < MaxAgentSteps
    /\ \A c \in Chats : chats[c].user = NoChatter => chats[c].run = NoRun

CopilotInit ==
    /\ chats = [c \in Chats |-> Empty]
    /\ replays = [q \in ChatRequests |-> [user |-> NoChatter, at |-> 0]]
    /\ chatRuns = [r \in ChatRuns |-> Unused] /\ chatClock = 0

-----------------------------------------------------------------------------
(* conversation-store.ts: beginRun prunes what has lapsed, replays a        *)
(* retained request, refuses strangers and busy conversations, and starts   *)
(* the run of any other request.                                            *)
\* Mutant: off by one.
LapsedInTime(c) == chatClock - c.updatedAt >= ChatTtl
Lapsed(c) == chatClock - c.updatedAt > ChatTtl

PrunedChats == [c \in Chats |-> IF chats[c].run = NoRun /\ Lapsed(chats[c]) THEN Empty ELSE chats[c]]

\* Mutant: off by one.
PrunedEarly == [q \in ChatRequests |->
    IF chatClock - replays[q].at >= ReplayRetention
    THEN [user |-> NoChatter, at |-> 0] ELSE replays[q]]
PrunedReplays == [q \in ChatRequests |->
    IF chatClock - replays[q].at > ReplayRetention
    THEN [user |-> NoChatter, at |-> 0] ELSE replays[q]]

(* The record a request finds: one that lapsed under a run still at work is *)
(* replaced, and its run goes on without being in the table.                *)
Found(c) == IF Lapsed(PrunedChats[c]) THEN Empty ELSE PrunedChats[c]

(* evictConversations: the user's least recently updated idle records go. *)
Evicted(table, u) ==
    LET own == {c \in Chats : table[c].user = u}
        idle == {c \in own : table[c].run = NoRun}
        enough(E) == E = idle \/ Cardinality(own) <= MaxChats + Cardinality(E)
    IN  {E \in SUBSET idle :
            /\ enough(E) /\ \A c \in E : ~enough(E \ {c})
            /\ \A c \in E, d \in idle \ E : table[c].updatedAt <= table[d].updatedAt}

Refused(q, u, c) ==
    \/ PrunedReplays[q].user # NoChatter        \* replayed, or forbidden to another user
    \/ PrunedChats[c].user \notin {NoChatter, u}
    \/ Found(c).run # NoRun                     \* run_in_progress

BeginRefused(q, u, c) ==
    /\ Refused(q, u, c)
    /\ chats' = PrunedChats /\ replays' = PrunedReplays
    /\ UNCHANGED <<chatRuns, chatClock>>

BeginRun(q, u, c) ==
    /\ ~Refused(q, u, c)
    /\ \E r \in ChatRuns :
         /\ chatRuns[r].pc = "unused" /\ \A s \in 1 .. r - 1 : chatRuns[s].pc # "unused"
         /\ LET table == [PrunedChats EXCEPT
                            ![c] = [user |-> u, updatedAt |-> chatClock, run |-> r]]
            IN  \E E \in Evicted(table, u) :
                  chats' = [d \in Chats |-> IF d \in E THEN Empty ELSE table[d]]
         /\ chatRuns' = [chatRuns EXCEPT ![r] = RunOf(q, u, c, chatClock, "model")]
    /\ replays' = PrunedReplays /\ UNCHANGED chatClock

-----------------------------------------------------------------------------
(* confirmation-manager.ts: the first decision settles the gate. *)
Settled(run, verdict, who) ==
    IF run.gate = "pending" THEN [run EXCEPT !.gate = verdict, !.by = who] ELSE run

(* resolve: only the user the gate belongs to. *)
\* Mutant: whoever knows the id of the gate decides.
MayResolveAny(u, run) == TRUE
MayResolve(u, run) == u = run.user

Decide(r, u) ==
    /\ chatRuns[r].gate = "pending" /\ MayResolve(u, chatRuns[r])
    /\ \E verdict \in {"confirmed", "denied"} :
         chatRuns' = [chatRuns EXCEPT ![r] =
           Settled(@, verdict, IF u = @.user THEN "its user" ELSE "another")]
    /\ UNCHANGED <<chats, replays, chatClock>>

TimedOut(run) == Settled(run, "denied", "timeout")
Cancelled(run) == Settled([run EXCEPT !.aborted = TRUE], "denied", "abort")

GateLapses(r) ==
    /\ chatRuns[r].gate = "pending" /\ chatClock - chatRuns[r].gateAt >= ApprovalTimeout
    /\ chatRuns' = [chatRuns EXCEPT ![r] = TimedOut(@)]
    /\ UNCHANGED <<chats, replays, chatClock>>

(* The transport aborts the run: its client went away. *)
Abort(r) ==
    /\ Live(r) \/ chatRuns[r].gate = "pending"
    /\ ~chatRuns[r].aborted
    /\ chatRuns' = [chatRuns EXCEPT ![r] = Cancelled(@)]
    /\ UNCHANGED <<chats, replays, chatClock>>

-----------------------------------------------------------------------------
(* agent-runner.ts: a model turn that calls a tool, unless the run was       *)
(* aborted or the turn was its last one.                                     *)
MayTakeStep(run) == ~run.aborted /\ run.steps + 1 < MaxAgentSteps

CallsTools(r) ==
    /\ chatRuns[r].pc = "model" /\ MayTakeStep(chatRuns[r])
    /\ chatRuns' = [chatRuns EXCEPT ![r].pc = "tool", ![r].steps = @ + 1]
    /\ UNCHANGED <<chats, replays, chatClock>>

(* The next tool call of the turn: refused by its preparation or run at      *)
(* once (Direct), or suspended for approval (Suspend).                       *)
AfterTool == {"tool", "model"}

Direct(r) ==
    /\ chatRuns[r].pc = "tool" /\ chatRuns[r].tools < MaxTools
    /\ \E pc \in AfterTool :
         chatRuns' = [chatRuns EXCEPT ![r].pc = pc, ![r].tools = @ + 1]
    /\ UNCHANGED <<chats, replays, chatClock>>

Suspend(r) ==
    /\ chatRuns[r].pc = "tool" /\ ~chatRuns[r].aborted /\ chatRuns[r].tools < MaxTools
    /\ chatRuns' = [chatRuns EXCEPT ![r].pc = "gate", ![r].tools = @ + 1,
         ![r].gate = "pending", ![r].gateAt = chatClock, ![r].by = "nobody"]
    /\ UNCHANGED <<chats, replays, chatClock>>

(* The run resumes; executePrepared looks at the abort signal once more. *)
Executes(run) == run.gate = "confirmed" /\ ~run.aborted

Resume(r) ==
    /\ chatRuns[r].pc = "gate" /\ chatRuns[r].gate \in {"confirmed", "denied"}
    /\ \E pc \in AfterTool :
         chatRuns' = [chatRuns EXCEPT ![r].pc = pc, ![r].gate = "none", ![r].by = "nobody",
           ![r].ranFor = @ \union (IF Executes(chatRuns[r]) THEN {chatRuns[r].by} ELSE {})]
    /\ UNCHANGED <<chats, replays, chatClock>>

-----------------------------------------------------------------------------
(* finish: the lock is given back, to the record the run was started on, and *)
(* the run's events are retained under its request.                          *)
Released(r) == [c \in Chats |->
    IF chats[c].run = r THEN [chats[c] EXCEPT !.run = NoRun, !.updatedAt = chatClock] ELSE chats[c]]

Over(r) ==
    /\ chatRuns' = [chatRuns EXCEPT ![r].pc = "over", ![r].end = chatClock,
         ![r].steps = 0, ![r].tools = 0]
    /\ chats' = Released(r)
    /\ replays' = [replays EXCEPT ![chatRuns[r].request] = [user |-> chatRuns[r].user, at |-> chatClock]]
    /\ UNCHANGED chatClock

(* run-finished or failed: no tools left to call, a model error, the step     *)
(* limit or the abort.                                                        *)
Terminates(r) == chatRuns[r].pc = "model" /\ Over(r)

(* consumeAgentRun: the transport's onEvent throws on some event; the loop is *)
(* left and the handle failed, a pending gate stays with its timer.           *)
ObserverFails(r) == Live(r) /\ Over(r)

ChatTick == chatClock < MaxChatTime /\ chatClock' = chatClock + 1 /\ UNCHANGED <<chats, replays, chatRuns>>

CopilotNext ==
    \/ \E q \in ChatRequests, u \in Chatters, c \in Chats : BeginRefused(q, u, c) \/ BeginRun(q, u, c)
    \/ \E r \in ChatRuns, u \in Chatters : Decide(r, u)
    \/ \E r \in ChatRuns :
         \/ GateLapses(r) \/ Abort(r) \/ CallsTools(r) \/ Direct(r) \/ Suspend(r)
         \/ Resume(r) \/ Terminates(r) \/ ObserverFails(r)
    \/ ChatTick

CopilotSpec == CopilotInit /\ [][CopilotNext]_copilotVars

-----------------------------------------------------------------------------
Started(r) == chatRuns[r].pc # "unused"

(* A tool that needs approval runs only on the word of the user whose run it *)
(* is, and never on that of another user, of the timer or of the abort that  *)
(* settled the gate first (confirmation-manager.ts:124-140).                 *)
ApprovedOnly == \A r \in ChatRuns : chatRuns[r].ranFor \subseteq {"its user"}

(* Two runs work on one conversation only when the later one began after the *)
(* earlier one had held the conversation for longer than its time to live    *)
(* (conversation-store.ts:132-160).                                          *)
OneRunPerChat ==
    \A r, s \in ChatRuns :
        (r < s /\ Live(r) /\ Live(s) /\ chatRuns[r].chat = chatRuns[s].chat) =>
            chatRuns[s].start - chatRuns[r].start > ChatTtl

(* A request that is sent again after its run ended is answered from the     *)
(* retained events, on whichever conversation it comes, and does not run the *)
(* model again until these have lapsed (conversation-store.ts:116-126).      *)
Begins(r) == ~Started(r) /\ Started(r)'

RepeatsAreReplayed ==
    [][\A r, s \in ChatRuns :
         (Begins(s) /\ chatRuns[r].pc = "over" /\ chatRuns[r].request = chatRuns'[s].request) =>
             chatClock - chatRuns[r].end > ReplayRetention]_copilotVars

(* A conversation is locked only by a run at work: whichever way a run ends, *)
(* also by a transport that failed, the next request finds it open.          *)
LocksAreReleased == \A c \in Chats : chats[c].run # NoRun => Live(chats[c].run)

\* A conversation is worked on by one run at a time and is free when that ended.
ChatsAreExclusive == OneRunPerChat /\ LocksAreReleased
=============================================================================
