---------------------------- MODULE AccountSessions ----------------------------
(***************************************************************************)
(* packages/modules/account (modules/session/session.service.ts): a login   *)
(* session whose refresh token is rotated by every refresh.  The tabs of    *)
(* one browser share the cookie the token is kept in; they refresh and log  *)
(* out at the same time, and replies are lost or arrive late.  A refresh    *)
(* repeated soon after its rotation is answered with the same pair, a later *)
(* one ends the session.  Access and refresh token of a pair are rotated    *)
(* together: one number stands for both.                                    *)
(***************************************************************************)
EXTENDS Naturals, FiniteSets

CONSTANTS
    Tabs, NoPair,
    ReplayWindow,                   \* age at which a rotation is no longer replayed
    MaxPairs, MaxLostReplies        \* bounds

ASSUME SessionsAssumption ==
    /\ {ReplayWindow, MaxPairs, MaxLostReplies} \subseteq Nat /\ ReplayWindow > 1
    /\ NoPair \notin Nat

VARIABLES
    session,        \* the row: still there, its pair, the one before, the age of the rotation
    cookie,         \* the pair the browser holds
    tabPc, presented, answer,       \* each request: step, token sent, pair of the reply
    (* history and bounds *)
    prompt,         \* whether requests and retries take less than the window
    answered,       \* token and pair of every reply
    signedOut,      \* a logout or a reset password ended the session
    pairs, lostReplies

tabVars == <<tabPc, presented, answer>>
sessionVars == <<session, cookie, tabVars, prompt, answered, signedOut, pairs, lostReplies>>

Pairs == 0 .. MaxPairs

SessionsTypeOK ==
    /\ session \in [live : BOOLEAN, current : Pairs, previous : Pairs \union {NoPair},
                    age : 0 .. ReplayWindow]
    /\ cookie \in Pairs \union {NoPair}
    /\ tabPc \in [Tabs -> {"idle", "rotate", "reread", "lookup", "revoke", "replying",
                           "refused", "find", "delete", "bye"}]
    /\ presented \in [Tabs -> Pairs] /\ answer \in [Tabs -> Pairs]
    /\ prompt \in BOOLEAN /\ answered \subseteq Pairs \X Pairs /\ signedOut \in BOOLEAN
    /\ pairs \in Pairs /\ lostReplies \in 0 .. MaxLostReplies

\* After a login; its pair was not made by a rotation.
SessionsInit ==
    /\ session = [live |-> TRUE, current |-> 0, previous |-> NoPair, age |-> ReplayWindow]
    /\ cookie = 0 /\ tabPc = [t \in Tabs |-> "idle"]
    /\ presented = [t \in Tabs |-> 0] /\ answer = [t \in Tabs |-> 0]
    /\ prompt \in BOOLEAN /\ answered = {} /\ signedOut = FALSE
    /\ pairs = 0 /\ lostReplies = 0

-----------------------------------------------------------------------------
Step(t, from, to) == tabPc[t] = from /\ tabPc' = [tabPc EXCEPT ![t] = to]

\* Forget what a request held.
Free(t) ==
    /\ tabPc' = [tabPc EXCEPT ![t] = "idle"]
    /\ presented' = [presented EXCEPT ![t] = 0] /\ answer' = [answer EXCEPT ![t] = 0]

Holds(pair) == session.live /\ session.current = pair

\* A tab sends the cookie.  A prompt one does so when its access token has
\* expired, or was rejected because another tab has rotated it.
Send(t) ==
    /\ Step(t, "idle", "rotate") /\ cookie # NoPair
    /\ prompt => (session.age = ReplayWindow \/ ~Holds(cookie))
    /\ presented' = [presented EXCEPT ![t] = cookie]
    /\ UNCHANGED <<session, cookie, answer, prompt, answered, signedOut, pairs, lostReplies>>

\* Mutant: the row is found by its owner, not by the token sent.
RotateAnyToken(t) ==
    /\ tabPc[t] = "rotate" /\ session.live /\ pairs < MaxPairs
    /\ pairs' = pairs + 1
    /\ session' = [session EXCEPT !.current = pairs', !.previous = presented[t], !.age = 0]
    /\ answer' = [answer EXCEPT ![t] = pairs']
    /\ tabPc' = [tabPc EXCEPT ![t] = "reread"]
    /\ UNCHANGED <<cookie, presented, prompt, answered, signedOut, lostReplies>>

\* The update of the row that holds the hash of the token.
Rotate(t) ==
    /\ Step(t, "rotate", IF Holds(presented[t]) THEN "reread" ELSE "lookup")
    /\ Holds(presented[t]) => pairs < MaxPairs
    /\ IF Holds(presented[t])
       THEN /\ pairs' = pairs + 1
            /\ session' = [session EXCEPT !.current = pairs', !.previous = presented[t], !.age = 0]
            /\ answer' = [answer EXCEPT ![t] = pairs']
       ELSE UNCHANGED <<pairs, session, answer>>
    /\ UNCHANGED <<cookie, presented, prompt, answered, signedOut, lostReplies>>

Answer(t, pair) ==
    /\ answer' = [answer EXCEPT ![t] = pair]
    /\ answered' = answered \union {<<presented[t], pair>>}

\* The winner reads its row again, and fails when it is gone or rotated anew.
Reread(t) ==
    /\ Step(t, "reread", IF Holds(answer[t]) THEN "replying" ELSE "refused")
    /\ IF Holds(answer[t]) THEN Answer(t, answer[t]) ELSE UNCHANGED <<answer, answered>>
    /\ UNCHANGED <<session, cookie, presented, prompt, signedOut, pairs, lostReplies>>

Superseded(pair) == session.live /\ session.previous = pair

\* The token was rotated out: by a rotation that is recent, or not, or long ago.
LookUp(t) ==
    /\ Step(t, "lookup", IF ~Superseded(presented[t]) THEN "refused"
                         ELSE IF session.age < ReplayWindow THEN "replying" ELSE "revoke")
    /\ IF tabPc'[t] = "replying"
       THEN Answer(t, session.current) ELSE UNCHANGED <<answer, answered>>
    /\ UNCHANGED <<session, cookie, presented, prompt, signedOut, pairs, lostReplies>>

\* The session that was looked up is deleted by its id.
Revoke(t) ==
    /\ Step(t, "revoke", "refused")
    /\ session' = [session EXCEPT !.live = FALSE]
    /\ UNCHANGED <<cookie, presented, answer, prompt, answered, signedOut, pairs, lostReplies>>

\* The reply sets the cookie, also when a later one has set it before.
DeliverReply(t) ==
    /\ tabPc[t] = "replying" /\ cookie' = answer[t] /\ Free(t)
    /\ UNCHANGED <<session, prompt, answered, signedOut, pairs, lostReplies>>

LoseReply(t) ==
    /\ tabPc[t] = "replying" /\ Free(t)
    /\ lostReplies < MaxLostReplies /\ lostReplies' = lostReplies + 1
    /\ UNCHANGED <<session, cookie, prompt, answered, signedOut, pairs>>

\* The tab learns that its session is over.
Refusal(t) ==
    /\ tabPc[t] = "refused" /\ Free(t)
    /\ UNCHANGED <<session, cookie, prompt, answered, signedOut, pairs, lostReplies>>

\* Logging out: the access token was resolved to its session on the way in.
StartLogout(t) ==
    /\ cookie # NoPair /\ Holds(cookie) /\ Step(t, "idle", "find")
    /\ presented' = [presented EXCEPT ![t] = cookie]
    /\ UNCHANGED <<session, cookie, answer, prompt, answered, signedOut, pairs, lostReplies>>

FindToDestroy(t) ==
    /\ Step(t, "find", IF Holds(presented[t]) THEN "delete" ELSE "bye")
    /\ UNCHANGED <<session, cookie, presented, answer, prompt, answered, signedOut, pairs,
                   lostReplies>>

Destroy(t) ==
    /\ Step(t, "delete", "bye")
    /\ session' = [session EXCEPT !.live = FALSE] /\ signedOut' = TRUE
    /\ UNCHANGED <<cookie, presented, answer, prompt, answered, pairs, lostReplies>>

ClearCookie(t) ==
    /\ tabPc[t] = "bye" /\ cookie' = NoPair /\ Free(t)
    /\ UNCHANGED <<session, prompt, answered, signedOut, pairs, lostReplies>>

\* A reset password deletes every session of the user.
ResetPassword ==
    /\ session.live /\ session' = [session EXCEPT !.live = FALSE] /\ signedOut' = TRUE
    /\ UNCHANGED <<cookie, tabVars, prompt, answered, pairs, lostReplies>>

\* Promptness: whatever follows a rotation is over before its window is.
NothingPending == cookie \in {session.current, NoPair} /\ \A t \in Tabs : tabPc[t] = "idle"

TimePasses ==
    /\ session.age < ReplayWindow
    /\ prompt => (session.age + 1 < ReplayWindow \/ NothingPending)
    /\ session' = [session EXCEPT !.age = @ + 1]
    /\ UNCHANGED <<cookie, tabVars, prompt, answered, signedOut, pairs, lostReplies>>

SessionsNext ==
    \/ ResetPassword \/ TimePasses
    \/ \E t \in Tabs :
          \/ Send(t) \/ Rotate(t) \/ Reread(t) \/ LookUp(t) \/ Revoke(t) \/ DeliverReply(t)
          \/ LoseReply(t) \/ Refusal(t)
          \/ StartLogout(t) \/ FindToDestroy(t) \/ Destroy(t) \/ ClearCookie(t)

SessionsSpec == SessionsInit /\ [][SessionsNext]_sessionVars

-----------------------------------------------------------------------------
(* Properties *)

\* A dropped response or a double fetch from two tabs is not taken for a reused
\* token: while requests and retries are prompt, nothing but a logout or a
\* reset password ends the session, and no refresh is refused before that.
PromptTabsStaySignedIn ==
    (prompt /\ ~signedOut) => (session.live /\ \A t \in Tabs : tabPc[t] # "refused")

\* All replies to one token hold the same pair, however its refreshes interleave
\* and whenever they are repeated.
RepliesAgree ==
    \A a, b \in answered : a[1] = b[1] => a[2] = b[2]

\* A session has one line of tokens, and tabs that share it do not lose it.
SessionsHoldTogether == PromptTabsStaySignedIn /\ RepliesAgree
=============================================================================
