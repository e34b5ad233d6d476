----------------------------- MODULE AccountProofs -----------------------------
(***************************************************************************)
(* The safety of the login sessions (AccountSessions) and of the one-time  *)
(* codes (VerificationCodes), for any number of tabs, requests, pairs and  *)
(* codes, every window and every budget.                                   *)
(***************************************************************************)
EXTENDS AccountSessions, VerificationCodes, FiniteSetTheorems, SequenceTheorems, TLAPS

-----------------------------------------------------------------------------
(* AccountSessions *)

\* The line of tokens: rotations number the pairs, the row holds the last one
\* and the one before it, and whoever rotated a token away holds its successor.
TokenLine ==
    /\ session.current = pairs
    /\ session.previous = IF pairs = 0 THEN NoPair ELSE pairs - 1
    /\ \A t \in Tabs : tabPc[t] = "reread" => answer[t] = presented[t] + 1

\* Every reply holds the successor of the token it answers.
AnsweredInLine == \A a \in answered : a[2] = a[1] + 1

\* No rotation is recent: nothing but new refreshes and logouts is under way.
DevicesSettled ==
    /\ cookie \in {session.current, NoPair}
    /\ \A t \in Tabs :
          /\ tabPc[t] \in {"idle", "rotate", "find", "delete", "bye"}
          /\ tabPc[t] = "rotate" => presented[t] = session.current

\* A rotation is recent: whoever refreshes holds the token that was rotated.
Rotating ==
    /\ session.previous # NoPair
    /\ cookie \in {session.previous, session.current, NoPair}
    /\ \A t \in Tabs :
          /\ tabPc[t] \notin {"revoke", "refused"}
          /\ tabPc[t] \in {"rotate", "lookup", "reread"} => presented[t] = session.previous
          /\ tabPc[t] \in {"reread", "replying"} => answer[t] = session.current

PromptLine ==
    (prompt /\ ~signedOut) =>
        /\ session.live
        /\ IF session.age = ReplayWindow THEN DevicesSettled ELSE Rotating

\* The inductive invariant of a session.
SessionInv == SessionsTypeOK /\ TokenLine /\ AnsweredInLine /\ PromptLine

LEMMA SessionBounds ==
    /\ ReplayWindow \in Nat /\ MaxPairs \in Nat /\ MaxLostReplies \in Nat
    /\ ReplayWindow > 1 /\ NoPair \notin Nat
BY SessionsAssumption DEF SessionsAssumption

LEMMA InitEstablishesSession == SessionsInit => SessionInv
<1> SUFFICES ASSUME SessionsInit PROVE SessionInv
  OBVIOUS
<1> USE SessionBounds DEF SessionsInit
<1>1. SessionsTypeOK
  <2>1. session \in [live : BOOLEAN, current : Pairs, previous : Pairs \union {NoPair},
                      age : 0 .. ReplayWindow]
    BY DEF Pairs
  <2>2. cookie \in Pairs \union {NoPair} /\ pairs \in Pairs /\ lostReplies \in 0 .. MaxLostReplies
    BY DEF Pairs
  <2>3. tabPc \in [Tabs -> {"idle", "rotate", "reread", "lookup", "revoke", "replying",
                            "refused", "find", "delete", "bye"}]
    OBVIOUS
  <2>4. presented \in [Tabs -> Pairs] /\ answer \in [Tabs -> Pairs]
    BY DEF Pairs
  <2>5. prompt \in BOOLEAN /\ signedOut \in BOOLEAN
    OBVIOUS
  <2>6. answered \subseteq Pairs \X Pairs
    OBVIOUS
  <2> QED
    BY <2>1, <2>2, <2>3, <2>4, <2>5, <2>6 DEF SessionsTypeOK
<1>2. TokenLine /\ AnsweredInLine
  BY DEF TokenLine, AnsweredInLine
<1>3. PromptLine
  BY <1>1 DEF PromptLine, DevicesSettled
<1> QED
  BY <1>1, <1>2, <1>3 DEF SessionInv

\* Types survive every step.
LEMMA NextPreservesSessionTypes ==
    ASSUME SessionsTypeOK, SessionsNext
    PROVE  SessionsTypeOK'
<1> USE SessionBounds DEF SessionsTypeOK, Pairs
<1>1. CASE ResetPassword
  BY <1>1 DEF ResetPassword, tabVars
<1>2. CASE TimePasses
  BY <1>2 DEF TimePasses, tabVars
<1>3. ASSUME NEW t \in Tabs, Send(t) PROVE SessionsTypeOK'
  BY <1>3 DEF Send, Step
<1>4. ASSUME NEW t \in Tabs, Rotate(t) PROVE SessionsTypeOK'
  <2>1. CASE Holds(presented[t])
    <3>1. pairs' \in 0 .. MaxPairs
      BY <1>4, <2>1 DEF Rotate
    <3>2. session' \in [live : BOOLEAN, current : 0 .. MaxPairs,
                        previous : (0 .. MaxPairs) \union {NoPair}, age : 0 .. ReplayWindow]
      <4>1. presented[t] \in 0 .. MaxPairs
        OBVIOUS
      <4>2. session' = [session EXCEPT !.current = pairs', !.previous = presented[t], !.age = 0]
        BY <1>4, <2>1 DEF Rotate
      <4>3. session' = [live |-> session.live, current |-> pairs', previous |-> presented[t],
                        age |-> 0]
        BY <4>2
      <4> QED
        BY <4>1, <4>3, <3>1
    <3> QED
      BY <1>4, <2>1, <3>1, <3>2 DEF Rotate, Step
  <2>2. CASE ~Holds(presented[t])
    BY <1>4, <2>2 DEF Rotate, Step
  <2> QED
    BY <2>1, <2>2
<1>5. ASSUME NEW t \in Tabs, Reread(t) PROVE SessionsTypeOK'
  <2>1. CASE Holds(answer[t])
    BY <1>5, <2>1 DEF Reread, Step, Answer
  <2>2. CASE ~Holds(answer[t])
    BY <1>5, <2>2 DEF Reread, Step
  <2> QED
    BY <2>1, <2>2
<1>6. ASSUME NEW t \in Tabs, LookUp(t) PROVE SessionsTypeOK'
  <2>1. CASE tabPc'[t] = "replying"
    BY <1>6, <2>1 DEF LookUp, Step, Answer
  <2>2. CASE tabPc'[t] # "replying"
    BY <1>6, <2>2 DEF LookUp, Step
  <2> QED
    BY <2>1, <2>2
<1>7. ASSUME NEW t \in Tabs, Revoke(t) PROVE SessionsTypeOK'
  BY <1>7 DEF Revoke, Step
<1>8. ASSUME NEW t \in Tabs, DeliverReply(t) PROVE SessionsTypeOK'
  BY <1>8 DEF DeliverReply, Free
<1>9. ASSUME NEW t \in Tabs, LoseReply(t) PROVE SessionsTypeOK'
  BY <1>9 DEF LoseReply, Free
<1>10. ASSUME NEW t \in Tabs, Refusal(t) PROVE SessionsTypeOK'
  BY <1>10 DEF Refusal, Free
<1>11. ASSUME NEW t \in Tabs, StartLogout(t) PROVE SessionsTypeOK'
  BY <1>11 DEF StartLogout, Step, Holds
<1>12. ASSUME NEW t \in Tabs, FindToDestroy(t) PROVE SessionsTypeOK'
  BY <1>12 DEF FindToDestroy, Step
<1>13. ASSUME NEW t \in Tabs, Destroy(t) PROVE SessionsTypeOK'
  BY <1>13 DEF Destroy, Step
<1>14. ASSUME NEW t \in Tabs, ClearCookie(t) PROVE SessionsTypeOK'
  BY <1>14 DEF ClearCookie, Free
<1> QED
  BY <1>1, <1>2, <1>3, <1>4, <1>5, <1>6, <1>7, <1>8, <1>9, <1>10, <1>11, <1>12, <1>13,
     <1>14 DEF SessionsNext

\* Rotations extend the line, and whoever finds its token rotated away is told
\* the successor that the row holds.
LEMMA NextPreservesTokenLine ==
    ASSUME SessionInv, SessionsNext
    PROVE  TokenLine' /\ AnsweredInLine'
<1> USE SessionBounds DEF SessionInv, SessionsTypeOK, Pairs, TokenLine, AnsweredInLine
<1>1. CASE ResetPassword
  BY <1>1 DEF ResetPassword, tabVars
<1>2. CASE TimePasses
  BY <1>2 DEF TimePasses, tabVars
<1>3. ASSUME NEW t \in Tabs, Send(t) PROVE TokenLine' /\ AnsweredInLine'
  BY <1>3 DEF Send, Step
<1>4. ASSUME NEW t \in Tabs, Rotate(t) PROVE TokenLine' /\ AnsweredInLine'
  <2>1. CASE Holds(presented[t])
    <3>1. /\ pairs' = pairs + 1 /\ session'.current = pairs + 1 /\ session'.previous = pairs
          /\ answer' = [answer EXCEPT ![t] = pairs + 1] /\ presented[t] = pairs
          /\ tabPc' = [tabPc EXCEPT ![t] = "reread"]
          /\ UNCHANGED <<presented, answered>>
      BY <1>4, <2>1 DEF Rotate, Step, Holds
    <3> QED
      BY <3>1
  <2>2. CASE ~Holds(presented[t])
    BY <1>4, <2>2 DEF Rotate, Step
  <2> QED
    BY <2>1, <2>2
<1>5. ASSUME NEW t \in Tabs, Reread(t) PROVE TokenLine' /\ AnsweredInLine'
  <2>1. CASE Holds(answer[t])
    <3>1. /\ tabPc' = [tabPc EXCEPT ![t] = "replying"] /\ tabPc[t] = "reread"
          /\ answer' = [answer EXCEPT ![t] = answer[t]]
          /\ answered' = answered \union {<<presented[t], answer[t]>>}
          /\ UNCHANGED <<session, presented, pairs>>
      BY <1>5, <2>1 DEF Reread, Step, Answer
    <3> QED
      BY <3>1
  <2>2. CASE ~Holds(answer[t])
    BY <1>5, <2>2 DEF Reread, Step
  <2> QED
    BY <2>1, <2>2
<1>6. ASSUME NEW t \in Tabs, LookUp(t) PROVE TokenLine' /\ AnsweredInLine'
  <2>1. CASE tabPc'[t] = "replying"
    <3>1. /\ tabPc' = [tabPc EXCEPT ![t] = "replying"]
          /\ answer' = [answer EXCEPT ![t] = session.current]
          /\ answered' = answered \union {<<presented[t], session.current>>}
          /\ session.previous = presented[t]
          /\ UNCHANGED <<session, presented, pairs>>
      BY <1>6, <2>1 DEF LookUp, Step, Answer, Superseded
    <3>2. pairs > 0 /\ session.current = presented[t] + 1
      BY <3>1
    <3> QED
      BY <3>1, <3>2
  <2>2. CASE tabPc'[t] # "replying"
    BY <1>6, <2>2 DEF LookUp, Step
  <2> QED
    BY <2>1, <2>2
<1>7. ASSUME NEW t \in Tabs, Revoke(t) PROVE TokenLine' /\ AnsweredInLine'
  BY <1>7 DEF Revoke, Step
<1>8. ASSUME NEW t \in Tabs, DeliverReply(t) \/ LoseReply(t) \/ Refusal(t) \/ ClearCookie(t)
      PROVE TokenLine' /\ AnsweredInLine'
  <2>1. Free(t) /\ UNCHANGED <<session, answered, pairs>>
    BY <1>8 DEF DeliverReply, LoseReply, Refusal, ClearCookie
  <2> QED
    BY <2>1 DEF Free
<1>9. ASSUME NEW t \in Tabs, StartLogout(t) PROVE TokenLine' /\ AnsweredInLine'
  BY <1>9 DEF StartLogout, Step
<1>10. ASSUME NEW t \in Tabs, FindToDestroy(t) PROVE TokenLine' /\ AnsweredInLine'
  BY <1>10 DEF FindToDestroy, Step
<1>11. ASSUME NEW t \in Tabs, Destroy(t) PROVE TokenLine' /\ AnsweredInLine'
  BY <1>11 DEF Destroy, Step
<1> QED
  BY <1>1, <1>2, <1>3, <1>4, <1>5, <1>6, <1>7, <1>8, <1>9, <1>10, <1>11 DEF SessionsNext

\* While requests and retries are prompt, a recent rotation ends before its
\* window does, so no request still holds the token it replaced by then.
LEMMA NextPreservesPromptLine ==
    ASSUME SessionInv, SessionsNext
    PROVE  PromptLine'
<1> SUFFICES ASSUME prompt', ~signedOut'
             PROVE  /\ session'.live
                    /\ (session'.age = ReplayWindow) => DevicesSettled'
                    /\ (session'.age # ReplayWindow) => Rotating'
  BY DEF PromptLine
<1> DEFINE Line == /\ session'.live
                   /\ (session'.age = ReplayWindow) => DevicesSettled'
                   /\ (session'.age # ReplayWindow) => Rotating'
<1> HIDE DEF Line
<1>a. prompt /\ ~signedOut
  <2>1. UNCHANGED prompt
    BY DEF SessionsNext, ResetPassword, TimePasses, Send, Rotate, Reread, LookUp, Revoke,
           DeliverReply, LoseReply, Refusal, StartLogout, FindToDestroy, Destroy, ClearCookie
  <2>2. UNCHANGED signedOut \/ signedOut'
    BY DEF SessionsNext, ResetPassword, TimePasses, Send, Rotate, Reread, LookUp, Revoke,
           DeliverReply, LoseReply, Refusal, StartLogout, FindToDestroy, Destroy, ClearCookie
  <2> QED
    BY <2>1, <2>2
<1>b. /\ session.live /\ session.age \in 0 .. ReplayWindow
      /\ (session.age = ReplayWindow) => DevicesSettled
      /\ (session.age # ReplayWindow) => Rotating
  BY <1>a DEF PromptLine, SessionInv, SessionsTypeOK
<1> USE SessionBounds DEF SessionInv, SessionsTypeOK, Pairs, TokenLine
<1>1. CASE ResetPassword
  BY <1>1 DEF ResetPassword
<1>2. CASE TimePasses
  <2>1. /\ session'.age = session.age + 1 /\ session'.live
        /\ session'.current = session.current /\ session'.previous = session.previous
        /\ session.age < ReplayWindow
        /\ UNCHANGED <<cookie, tabPc, presented, answer>>
    BY <1>2, <1>b DEF TimePasses, tabVars
  <2>2. CASE session.age + 1 < ReplayWindow
    BY <2>1, <2>2, <1>b DEF Rotating
  <2>3. CASE NothingPending
    BY <2>1, <2>3, <1>b DEF Rotating, DevicesSettled, NothingPending
  <2> QED
    BY <1>2, <1>a, <2>2, <2>3 DEF TimePasses
<1>3. ASSUME NEW t \in Tabs, Send(t) PROVE Line
  <2>1. /\ session.age = ReplayWindow \/ cookie # session.current
        /\ cookie # NoPair /\ tabPc[t] = "idle"
        /\ tabPc' = [tabPc EXCEPT ![t] = "rotate"]
        /\ presented' = [presented EXCEPT ![t] = cookie]
        /\ UNCHANGED <<session, cookie, answer>>
    BY <1>3, <1>a, <1>b DEF Send, Step, Holds
  <2>2. CASE session.age = ReplayWindow
    BY <2>1, <2>2, <1>b DEF DevicesSettled, Line
  <2>3. CASE session.age # ReplayWindow
    BY <2>1, <2>3, <1>b DEF Rotating, Line
  <2> QED
    BY <2>2, <2>3
<1>4. ASSUME NEW t \in Tabs, Rotate(t) PROVE Line
  <2>1. CASE Holds(presented[t])
    <3>1. /\ pairs' = pairs + 1 /\ session'.current = pairs + 1 /\ session'.previous = pairs
          /\ session'.age = 0 /\ session'.live
          /\ answer' = [answer EXCEPT ![t] = pairs + 1] /\ presented[t] = pairs
          /\ tabPc[t] = "rotate" /\ tabPc' = [tabPc EXCEPT ![t] = "reread"]
          /\ UNCHANGED <<cookie, presented, answered>>
      BY <1>4, <2>1 DEF Rotate, Step, Holds
    <3>2. session.age = ReplayWindow
      BY <3>1, <1>b DEF Rotating
    <3> QED
      BY <3>1, <3>2, <1>b DEF DevicesSettled, Rotating, Line
  <2>2. CASE ~Holds(presented[t])
    <3>1. /\ presented[t] # session.current
          /\ tabPc[t] = "rotate" /\ tabPc' = [tabPc EXCEPT ![t] = "lookup"]
          /\ UNCHANGED <<session, cookie, presented, answer>>
      BY <1>4, <1>b, <2>2 DEF Rotate, Step, Holds
    <3> QED
      BY <3>1, <1>b DEF DevicesSettled, Rotating, Line
  <2> QED
    BY <2>1, <2>2
<1>5. ASSUME NEW t \in Tabs, Reread(t) PROVE Line
  <2>1. tabPc[t] = "reread" /\ session.age # ReplayWindow /\ Rotating
    BY <1>5, <1>b DEF Reread, Step, DevicesSettled
  <2>2. Holds(answer[t])
    BY <2>1, <1>b DEF Rotating, Holds
  <2>3. /\ tabPc' = [tabPc EXCEPT ![t] = "replying"]
        /\ answer' = [answer EXCEPT ![t] = answer[t]]
        /\ UNCHANGED <<session, cookie, presented>>
    BY <1>5, <2>2 DEF Reread, Step, Answer
  <2> QED
    BY <2>1, <2>3, <1>b DEF Rotating, Line
<1>6. ASSUME NEW t \in Tabs, LookUp(t) PROVE Line
  <2>1. tabPc[t] = "lookup" /\ session.age # ReplayWindow /\ Rotating
    BY <1>6, <1>b DEF LookUp, Step, DevicesSettled
  <2>2. Superseded(presented[t]) /\ session.age < ReplayWindow
    BY <2>1, <1>b DEF Rotating, Superseded
  <2>3. /\ tabPc' = [tabPc EXCEPT ![t] = "replying"]
        /\ answer' = [answer EXCEPT ![t] = session.current]
        /\ UNCHANGED <<session, cookie, presented>>
    BY <1>6, <2>2 DEF LookUp, Step, Answer
  <2> QED
    BY <2>1, <2>3, <1>b DEF Rotating, Line
<1>7. ASSUME NEW t \in Tabs, Revoke(t) \/ Refusal(t) PROVE FALSE
  BY <1>7, <1>b DEF Revoke, Refusal, Step, DevicesSettled, Rotating
<1>8. ASSUME NEW t \in Tabs, DeliverReply(t) PROVE Line
  <2>1. tabPc[t] = "replying" /\ session.age # ReplayWindow /\ Rotating
    BY <1>8, <1>b DEF DeliverReply, DevicesSettled
  <2>2. cookie' = session.current /\ Free(t) /\ UNCHANGED session
    BY <1>8, <2>1 DEF DeliverReply, Rotating
  <2> QED
    BY <2>1, <2>2, <1>b DEF Rotating, Line, Free
<1>9. ASSUME NEW t \in Tabs, LoseReply(t) \/ ClearCookie(t) PROVE Line
  <2>1. Free(t) /\ cookie' \in {cookie, NoPair} /\ UNCHANGED session
    BY <1>9 DEF LoseReply, ClearCookie
  <2>2. CASE session.age = ReplayWindow
    BY <2>1, <2>2, <1>b DEF DevicesSettled, Line, Free
  <2>3. CASE session.age # ReplayWindow
    BY <2>1, <2>3, <1>b DEF Rotating, Line, Free
  <2> QED
    BY <2>2, <2>3
<1>10. ASSUME NEW t \in Tabs, StartLogout(t) PROVE Line
  <2>1. /\ tabPc' = [tabPc EXCEPT ![t] = "find"]
        /\ presented' = [presented EXCEPT ![t] = cookie]
        /\ UNCHANGED <<session, cookie, answer>>
    BY <1>10 DEF StartLogout, Step
  <2> QED
    BY <2>1, <1>b DEF DevicesSettled, Rotating, Line
<1>11. ASSUME NEW t \in Tabs, FindToDestroy(t) PROVE Line
  <2>1. \E s \in {"delete", "bye"} : tabPc' = [tabPc EXCEPT ![t] = s]
    BY <1>11 DEF FindToDestroy, Step
  <2>2. UNCHANGED <<session, cookie, presented, answer>>
    BY <1>11 DEF FindToDestroy
  <2> QED
    BY <2>1, <2>2, <1>b DEF DevicesSettled, Rotating, Line
<1>12. ASSUME NEW t \in Tabs, Destroy(t) PROVE FALSE
  BY <1>12 DEF Destroy
<1> QED
  BY <1>1, <1>2, <1>3, <1>4, <1>5, <1>6, <1>7, <1>8, <1>9, <1>10, <1>11, <1>12
     DEF SessionsNext, Line

LEMMA SessionInvariant == SessionsSpec => []SessionInv
<1>1. SessionInv /\ SessionsNext => SessionInv'
  BY NextPreservesSessionTypes, NextPreservesTokenLine, NextPreservesPromptLine DEF SessionInv
<1>2. SessionInv /\ UNCHANGED sessionVars => SessionInv'
  BY DEF SessionInv, SessionsTypeOK, TokenLine, AnsweredInLine, PromptLine, DevicesSettled, Rotating,
         sessionVars, tabVars
<1> QED
  BY InitEstablishesSession, <1>1, <1>2, PTL DEF SessionsSpec

\* Every reachable state of the session, its cookie and its requests is well
\* typed (session.service.ts).
THEOREM SessionsAreTyped == SessionsSpec => []SessionsTypeOK
<1>1. SessionInv => SessionsTypeOK
  BY DEF SessionInv
<1> QED
  BY SessionInvariant, <1>1, PTL

\* However many tabs refresh one session at the same time and however replies
\* are lost or delayed: all replies to a token hold the same pair, and while
\* requests and retries are prompt only a logout or a reset password ends the
\* session (rotateTokens, refresh).
THEOREM TabsShareOneSession == SessionsSpec => []SessionsHoldTogether
<1>1. SessionInv => RepliesAgree
  BY DEF SessionInv, AnsweredInLine, RepliesAgree
<1>2. SessionInv => PromptTabsStaySignedIn
  BY DEF SessionInv, PromptLine, DevicesSettled, Rotating, PromptTabsStaySignedIn
<1>3. SessionInv => SessionsHoldTogether
  BY <1>1, <1>2 DEF SessionsHoldTogether
<1> QED
  BY SessionInvariant, <1>3, PTL

-----------------------------------------------------------------------------
(* VerificationCodes *)

\* A function on an initial segment of the numbers is a sequence.
LEMMA RowsAreASeq ==
    ASSUME NEW S, NEW n \in Nat, NEW f \in [1 .. n -> S]
    PROVE  f \in Seq(S) /\ Len(f) = n
<1>1. f \in Seq(S)
  BY SeqDef
<1>2. Len(f) \in Nat /\ 1 .. Len(f) = 1 .. n
  BY <1>1, LenProperties
<1> QED
  BY <1>1, <1>2

LEMMA CodeBounds ==
    /\ MaxMisses \in Nat /\ MaxMisses > 0 /\ MaxCodes \in Nat
    /\ IsFiniteSet(Clients) /\ SomeDigits \in Digits
    /\ Cardinality(Clients) \in Nat
BY CodesAssumption, FS_CardinalityType DEF CodesAssumption, SomeDigits

\* Requests that may still count a wrong entry.
Cleared == {c \in Clients : codePc[c] \in {"burn", "penalty"}}

\* A wrong entry beyond the budget comes from a request that read the budget
\* before it was spent, and of those there is one less each time.
BudgetBound ==
    misses >= MaxMisses =>
        misses + Cardinality(Cleared) < MaxMisses + Cardinality(Clients)

\* What a row may still become, after so many wrong entries and while requests
\* enter or spend: an active one was not accepted, and one whose
\* code nobody could enter before it was returned has seen every wrong entry
\* since the budget was restored.
RowSound(row, missed, entering, spending) ==
    /\ row.uses <= 1
    /\ row.active => row.uses = 0 /\ row.ending # "spent"
    /\ row.quiet /\ ~row.returned => row.ending # "spent" /\ ~entering
    /\ row.quiet /\ row.returned =>
          /\ row.ending = "spent" \/ spending => row.missed = MaxMisses
          /\ row.missed >= missed \/ row.missed = MaxMisses

\* Requests about to invalidate the active codes as spent.
Spending == {c \in Clients : codePc[c] \in {"exhaust", "spend"}}

RowsSound ==
    \A i \in 1 .. Len(codes) : RowSound(codes[i], misses, Entering # {}, Spending # {})

CodesTyped ==
    /\ codes \in Seq(Codes) /\ Len(codes) <= MaxCodes
    /\ misses \in Nat
    /\ codePc \in [Clients -> {"idle", "find", "clear", "create", "restore",
                               "budget", "exhaust", "burn", "credit", "penalty", "spend"}]
    /\ entered \in [Clients -> Digits] /\ created \in [Clients -> 0 .. MaxCodes]
    /\ \A c \in Clients : codePc[c] = "restore" => created[c] \in 1 .. Len(codes)

\* The inductive invariant of the codes of an address.
CodesInv == CodesTyped /\ BudgetBound /\ RowsSound

LEMMA RewrittenRows ==
    ASSUME NEW f, f \in [1 .. Len(codes) -> Codes], codes \in Seq(Codes), codes' = f
    PROVE  /\ codes' \in Seq(Codes) /\ Len(codes') = Len(codes)
           /\ \A i \in 1 .. Len(codes) : codes'[i] = f[i]
<1>1. Len(codes) \in Nat
  BY LenProperties
<1> QED
  BY <1>1, RowsAreASeq

\* Rewriting the columns of a row leaves a row.
LEMMA EndedRow ==
    ASSUME NEW row \in Codes, NEW e \in Endings
    PROVE  [row EXCEPT !.active = FALSE, !.ending = e] \in Codes
BY DEF Codes

LEMMA UsedRow ==
    ASSUME NEW row \in Codes, NEW e \in Endings, NEW n \in 0 .. 2
    PROVE  [row EXCEPT !.active = FALSE, !.ending = e, !.uses = n] \in Codes
BY DEF Codes

LEMMA OlderRow ==
    ASSUME NEW row \in Codes, NEW n \in 0 .. 2
    PROVE  [row EXCEPT !.age = n] \in Codes
BY DEF Codes

LEMMA FlaggedRow ==
    ASSUME NEW row \in Codes, NEW b \in BOOLEAN
    PROVE  /\ [row EXCEPT !.quiet = b] \in Codes
           /\ [row EXCEPT !.returned = b] \in Codes
BY DEF Codes

LEMMA MissedRow ==
    ASSUME NEW row \in Codes, NEW m \in 0 .. MaxMisses
    PROVE  [row EXCEPT !.missed = m] \in Codes
BY DEF Codes

LEMMA InactivatedRows ==
    ASSUME CodesTyped, NEW e \in Endings, codes' = Inactivated(e)
    PROVE  /\ codes' \in Seq(Codes) /\ Len(codes') = Len(codes)
           /\ \A i \in 1 .. Len(codes) :
                 codes'[i] = IF codes[i].active
                             THEN [codes[i] EXCEPT !.active = FALSE, !.ending = e] ELSE codes[i]
<1>1. \A i \in 1 .. Len(codes) : codes[i] \in Codes
  BY ElementOfSeq DEF CodesTyped
<1>2. \A i \in 1 .. Len(codes) :
         (IF codes[i].active THEN [codes[i] EXCEPT !.active = FALSE, !.ending = e]
          ELSE codes[i]) \in Codes
  BY <1>1, EndedRow DEF Codes
<1> DEFINE f == [i \in 1 .. Len(codes) |->
                   IF codes[i].active THEN [codes[i] EXCEPT !.active = FALSE, !.ending = e]
                   ELSE codes[i]]
<1>3. f \in [1 .. Len(codes) -> Codes] /\ codes' = f
  BY <1>2 DEF Inactivated
<1>4. /\ codes' \in Seq(Codes) /\ Len(codes') = Len(codes)
      /\ \A i \in 1 .. Len(codes) : codes'[i] = f[i]
  BY <1>3, RewrittenRows DEF CodesTyped
<1> QED
  BY <1>4

LEMMA InitEstablishesCodes == CodesInit => CodesInv
<1> SUFFICES ASSUME CodesInit PROVE CodesInv
  OBVIOUS
<1> USE CodeBounds DEF CodesInit
<1>1. CodesTyped
  BY EmptySeq DEF CodesTyped
<1>2. BudgetBound
  BY DEF BudgetBound
<1>3. RowsSound
  BY EmptySeq DEF RowsSound
<1> QED
  BY <1>1, <1>2, <1>3 DEF CodesInv

-----------------------------------------------------------------------------
\* Types, by the steps of a request.
LEMMA RequestEnds ==
    ASSUME CodesTyped, NEW c \in Clients, EndRequest(c)
    PROVE  /\ codePc' \in [Clients -> {"idle", "find", "clear", "create", "restore",
                               "budget", "exhaust", "burn", "credit", "penalty", "spend"}]
           /\ entered' \in [Clients -> Digits] /\ created' \in [Clients -> 0 .. MaxCodes]
           /\ codePc'[c] = "idle"
           /\ \A d \in Clients : d # c => codePc'[d] = codePc[d] /\ created'[d] = created[d]
BY CodeBounds DEF EndRequest, CodesTyped

LEMMA RequestProceeds ==
    ASSUME CodesTyped, NEW c \in Clients, NEW from,
           NEW to \in {"idle", "find", "clear", "create", "restore",
                       "budget", "exhaust", "burn", "credit", "penalty", "spend"},
           Proceed(c, from, to)
    PROVE  /\ codePc' \in [Clients -> {"idle", "find", "clear", "create", "restore",
                               "budget", "exhaust", "burn", "credit", "penalty", "spend"}]
           /\ codePc[c] = from /\ codePc'[c] = to
           /\ \A d \in Clients : d # c => codePc'[d] = codePc[d]
BY DEF Proceed, CodesTyped

\* The rows a wrong entry is counted on.
LEMMA CountedRows ==
    ASSUME CodesTyped, NEW c \in Clients, Penalty(c)
    PROVE  /\ codes' \in Seq(Codes) /\ Len(codes') = Len(codes)
           /\ \A i \in 1 .. Len(codes) :
                 codes'[i] = IF codes[i].returned /\ codes[i].missed < MaxMisses
                             THEN [codes[i] EXCEPT !.missed = @ + 1] ELSE codes[i]
<1> DEFINE f == [i \in 1 .. Len(codes) |->
                    IF codes[i].returned /\ codes[i].missed < MaxMisses
                    THEN [codes[i] EXCEPT !.missed = @ + 1] ELSE codes[i]]
<1>1. \A i \in 1 .. Len(codes) : codes[i] \in Codes
  BY ElementOfSeq DEF CodesTyped
<1>2. \A i \in 1 .. Len(codes) :
         (IF codes[i].returned /\ codes[i].missed < MaxMisses
          THEN [codes[i] EXCEPT !.missed = @ + 1] ELSE codes[i]) \in Codes
  <2>1. ASSUME NEW row \in Codes, row.missed < MaxMisses PROVE row.missed + 1 \in 0 .. MaxMisses
    BY <2>1, CodeBounds DEF Codes
  <2>2. ASSUME NEW row \in Codes, row.missed < MaxMisses
        PROVE  [row EXCEPT !.missed = @ + 1] \in Codes
    <3>1. row.missed + 1 \in 0 .. MaxMisses
      BY <2>1, <2>2
    <3> QED
      BY <3>1, MissedRow
  <2> QED
    BY <1>1, <2>2
<1>3. f \in [1 .. Len(codes) -> Codes] /\ codes' = f
  BY <1>2 DEF Penalty
<1>4. /\ codes' \in Seq(Codes) /\ Len(codes') = Len(codes)
      /\ \A i \in 1 .. Len(codes) : codes'[i] = f[i]
  BY <1>3, RewrittenRows DEF CodesTyped
<1> QED
  BY <1>4

\* The rows that a matching entry uses up: only active ones.
LEMMA BurntRows ==
    ASSUME CodesTyped, RowsSound, NEW c \in Clients, Burn(c)
    PROVE  /\ codes' \in Seq(Codes) /\ Len(codes') = Len(codes)
           /\ \A i \in 1 .. Len(codes) :
                 \/ codes'[i] = codes[i]
                 \/ /\ codes[i].active
                    /\ codes'[i] = [codes[i] EXCEPT !.active = FALSE, !.ending = "used",
                                                    !.uses = @ + 1]
<1> DEFINE f == [i \in 1 .. Len(codes) |->
                    IF i \in Matching(entered[c])
                    THEN [codes[i] EXCEPT !.active = FALSE, !.ending = "used", !.uses = @ + 1]
                    ELSE codes[i]]
<1>1. \A i \in 1 .. Len(codes) : codes[i] \in Codes
  BY ElementOfSeq DEF CodesTyped
<1>2. \A i \in Matching(entered[c]) : codes[i].active /\ codes[i].uses = 0
  BY DEF Matching, RowsSound, RowSound
<1>3. ASSUME NEW i \in 1 .. Len(codes), i \in Matching(entered[c])
      PROVE  [codes[i] EXCEPT !.active = FALSE, !.ending = "used", !.uses = @ + 1] \in Codes
  <2>1. codes[i] \in Codes /\ codes[i].uses + 1 \in 0 .. 2 /\ "used" \in Endings
    BY <1>1, <1>2, <1>3 DEF Endings
  <2> QED
    BY <2>1, UsedRow
<1>4. f \in [1 .. Len(codes) -> Codes] /\ codes' = f
  BY <1>1, <1>3 DEF Burn
<1>5. /\ codes' \in Seq(Codes) /\ Len(codes') = Len(codes)
      /\ \A i \in 1 .. Len(codes) : codes'[i] = f[i]
  BY <1>4, RewrittenRows DEF CodesTyped
<1> QED
  BY <1>2, <1>5

\* What an entry that begins does to the rows.
LEMMA EnteredRows ==
    ASSUME CodesTyped, NEW c \in Clients, NEW d \in Digits, Enter(c, d)
    PROVE  /\ codes' \in Seq(Codes) /\ Len(codes') = Len(codes)
           /\ \A i \in 1 .. Len(codes) :
                 codes'[i] = [codes[i] EXCEPT !.quiet = codes[i].quiet /\ codes[i].returned]
<1> DEFINE f == [i \in 1 .. Len(codes) |->
                    [codes[i] EXCEPT !.quiet = codes[i].quiet /\ codes[i].returned]]
<1>1. \A i \in 1 .. Len(codes) : codes[i] \in Codes
  BY ElementOfSeq DEF CodesTyped
<1>2. \A i \in 1 .. Len(codes) :
         [codes[i] EXCEPT !.quiet = codes[i].quiet /\ codes[i].returned] \in Codes
  <2>1. \A i \in 1 .. Len(codes) : (codes[i].quiet /\ codes[i].returned) \in BOOLEAN
    BY <1>1 DEF Codes
  <2> QED
    BY <1>1, <2>1, FlaggedRow
<1>3. f \in [1 .. Len(codes) -> Codes] /\ codes' = f
  BY <1>2 DEF Enter
<1>4. /\ codes' \in Seq(Codes) /\ Len(codes') = Len(codes)
      /\ \A i \in 1 .. Len(codes) : codes'[i] = f[i]
  BY <1>3, RewrittenRows DEF CodesTyped
<1> QED
  BY <1>4

\* The row a request returns, with the budget restored.
LEMMA ReturnedRow ==
    ASSUME CodesTyped, NEW c \in Clients, RestoreBudget(c)
    PROVE  /\ codes' \in Seq(Codes) /\ Len(codes') = Len(codes)
           /\ \A i \in 1 .. Len(codes) :
                 codes'[i] = IF i = created[c] THEN [codes[i] EXCEPT !.returned = TRUE]
                             ELSE codes[i]
<1>1. created[c] \in 1 .. Len(codes)
  BY DEF CodesTyped, RestoreBudget
<1>2. codes[created[c]] \in Codes
  BY <1>1, ElementOfSeq DEF CodesTyped
<1>3. [codes[created[c]] EXCEPT !.returned = TRUE] \in Codes
  BY <1>2, FlaggedRow
<1> DEFINE row == [codes[created[c]] EXCEPT !.returned = TRUE]
<1>4. codes' = [codes EXCEPT ![created[c]] = row] /\ codes \in Seq(Codes)
  BY DEF RestoreBudget, CodesTyped
<1> HIDE DEF row
<1>5. row \in Codes
  BY <1>3 DEF row
<1>6. /\ codes' \in Seq(Codes) /\ Len(codes') = Len(codes)
      /\ \A i \in 1 .. Len(codes) : codes'[i] = IF i = created[c] THEN row ELSE codes[i]
  BY <1>1, <1>4, <1>5, ExceptSeq
<1> QED
  BY <1>6 DEF row

LEMMA AgedRow ==
    ASSUME CodesTyped, NEW i \in 1 .. Len(codes), CodeAges(i)
    PROVE  /\ codes' \in Seq(Codes) /\ Len(codes') = Len(codes)
           /\ \A j \in 1 .. Len(codes) :
                 codes'[j] = IF j = i THEN [codes[j] EXCEPT !.age = @ + 1] ELSE codes[j]
<1>1. codes[i] \in Codes
  BY ElementOfSeq DEF CodesTyped
<1>2. [codes[i] EXCEPT !.age = @ + 1] \in Codes
  <2>1. codes[i].age + 1 \in 0 .. 2
    BY <1>1 DEF Codes, CodeAges
  <2> QED
    BY <1>1, <2>1, OlderRow
<1> DEFINE row == [codes[i] EXCEPT !.age = @ + 1]
<1>3. codes' = [codes EXCEPT ![i] = row] /\ codes \in Seq(Codes)
  BY DEF CodeAges, CodesTyped
<1> HIDE DEF row
<1>4. row \in Codes
  BY <1>2 DEF row
<1>5. /\ codes' \in Seq(Codes) /\ Len(codes') = Len(codes)
      /\ \A j \in 1 .. Len(codes) : codes'[j] = IF j = i THEN row ELSE codes[j]
  BY <1>3, <1>4, ExceptSeq
<1> QED
  BY <1>5 DEF row
\* Where a request may go, and whom that concerns.
LEMMA EnteringMoves ==
    ASSUME CodesTyped, NEW c \in Clients,
           \A d \in Clients : d # c => codePc'[d] = codePc[d],
           \/ codePc'[c] \in {"idle", "find", "clear", "create", "restore"}
           \/ c \in Entering /\ codePc'[c] \in {"burn", "credit", "penalty"}
    PROVE  /\ Entering' # {} => Entering # {}
           /\ Spending' # {} => Spending # {}
           /\ codePc'[c] \notin {"burn", "penalty"} \/ c \in Cleared => Cleared' \subseteq Cleared
BY DEF Entering, Generating, Spending, Cleared, CodesTyped

\* A row is as sound as before when the limiter is reset or left alone and no
\* request begins to enter or to spend.
LEMMA RowStays ==
    ASSUME NEW row \in Codes, NEW m \in Nat, NEW n \in {0, m},
           NEW e \in BOOLEAN, NEW f \in BOOLEAN, NEW s \in BOOLEAN, NEW t \in BOOLEAN,
           f => e, t => s, RowSound(row, m, e, s)
    PROVE  RowSound(row, n, f, t)
BY DEF RowSound, Codes

\* The steps that leave the rows alone, but for ReadBudget.
LEMMA UntouchedRows ==
    ASSUME CodesTyped, RowsSound, UNCHANGED codes, misses' \in {0, misses},
           Entering' # {} => Entering # {}, Spending' # {} => Spending # {}
    PROVE  RowsSound'
<1> DEFINE e == Entering # {}
           f == Entering' # {}
           s == Spending # {}
           t == Spending' # {}
<1>1. (f => e) /\ (t => s) /\ {e, f, s, t} \subseteq BOOLEAN
  OBVIOUS
<1>2. ASSUME NEW i \in 1 .. Len(codes) PROVE RowSound(codes[i], misses', f, t)
  <2>1. codes[i] \in Codes /\ misses \in Nat /\ RowSound(codes[i], misses, e, s)
    BY ElementOfSeq DEF CodesTyped, RowsSound
  <2> HIDE DEF e, f, s, t
  <2> QED
    BY <1>1, <2>1, RowStays
<1> QED
  BY <1>2 DEF RowsSound

\* The budget bound outlives every step that clears nobody.
LEMMA BoundStays ==
    ASSUME BudgetBound, CodesTyped, misses' \in {0, misses}, Cleared' \subseteq Cleared
    PROVE  BudgetBound'
<1>1. /\ IsFiniteSet(Cleared) /\ Cardinality(Cleared') <= Cardinality(Cleared)
      /\ Cardinality(Cleared') \in Nat /\ Cardinality(Cleared) \in Nat
  BY CodeBounds, FS_Subset, FS_CardinalityType DEF Cleared
<1> QED
  BY <1>1, CodeBounds DEF BudgetBound, CodesTyped
\* Generating a code.
LEMMA GeneratingKeepsCodes ==
    ASSUME CodesInv, NEW c \in Clients, Ask(c) \/ FindCode(c)
    PROVE  CodesInv'
<1> USE DEF CodesInv
<1>1. \E to \in {"idle", "find", "clear"} : Proceed(c, codePc[c], to)
  BY DEF Ask, FindCode, Proceed
<1>2. UNCHANGED <<codes, misses, entered, created>>
  BY DEF Ask, FindCode
<1>3. PICK to \in {"idle", "find", "clear"} : Proceed(c, codePc[c], to)
  BY <1>1
<1>4. /\ codePc' \in [Clients -> {"idle", "find", "clear", "create", "restore",
                               "budget", "exhaust", "burn", "credit", "penalty", "spend"}]
      /\ codePc'[c] = to /\ \A d \in Clients : d # c => codePc'[d] = codePc[d]
  BY <1>3, RequestProceeds
<1>5. CodesTyped'
  BY <1>2, <1>4 DEF CodesTyped
<1>6. /\ Entering' # {} => Entering # {}
      /\ Spending' # {} => Spending # {}
      /\ Cleared' \subseteq Cleared
  BY <1>4, EnteringMoves
<1>7. RowsSound' /\ BudgetBound'
  BY <1>2, <1>6, UntouchedRows, BoundStays
<1> QED
  BY <1>5, <1>7

LEMMA ClearingKeepsCodes ==
    ASSUME CodesInv, NEW c \in Clients, ClearCodes(c)
    PROVE  CodesInv'
<1> USE DEF CodesInv
<1>1. Proceed(c, "clear", "create") /\ codes' = Inactivated("replaced")
      /\ UNCHANGED <<misses, entered, created>>
  BY DEF ClearCodes
<1>2. /\ codes' \in Seq(Codes) /\ Len(codes') = Len(codes)
      /\ \A i \in 1 .. Len(codes) :
            codes'[i] = IF codes[i].active
                        THEN [codes[i] EXCEPT !.active = FALSE, !.ending = "replaced"] ELSE codes[i]
  BY <1>1, InactivatedRows DEF Endings
<1>3. /\ codePc' \in [Clients -> {"idle", "find", "clear", "create", "restore",
                               "budget", "exhaust", "burn", "credit", "penalty", "spend"}]
      /\ codePc'[c] = "create" /\ \A d \in Clients : d # c => codePc'[d] = codePc[d]
  BY <1>1, RequestProceeds
<1>4. CodesTyped'
  BY <1>1, <1>2, <1>3 DEF CodesTyped
<1>5. /\ Entering' # {} => Entering # {}
      /\ Spending' # {} => Spending # {}
      /\ Cleared' \subseteq Cleared
  BY <1>3, EnteringMoves
<1>6. RowsSound'
  <2> DEFINE e == Entering # {}
             f == Entering' # {}
             s == Spending # {}
             t == Spending' # {}
  <2>1. (f => e) /\ (t => s) /\ {e, f, s, t} \subseteq BOOLEAN
    BY <1>5
  <2>2. ASSUME NEW i \in 1 .. Len(codes) PROVE RowSound(codes'[i], misses', f, t)
    <3>1. codes[i] \in Codes /\ misses \in Nat /\ RowSound(codes[i], misses, e, s)
      BY ElementOfSeq DEF CodesTyped, RowsSound
    <3>2. RowSound(codes[i], misses', f, t)
      <4> HIDE DEF e, f, s, t
      <4> QED
        BY <1>1, <2>1, <3>1, RowStays
    <3>3. CASE codes[i].active
      <4>1. codes'[i] = [codes[i] EXCEPT !.active = FALSE, !.ending = "replaced"]
        BY <1>2, <3>3
      <4> HIDE DEF e, f, s, t
      <4> QED
        BY <3>1, <3>2, <4>1 DEF RowSound, Codes
    <3>4. CASE ~codes[i].active
      BY <1>2, <3>2, <3>4
    <3> QED
      BY <3>3, <3>4
  <2> QED
    BY <1>2, <2>2 DEF RowsSound
<1> QED
  BY <1>1, <1>4, <1>5, <1>6, BoundStays

LEMMA CreatingKeepsCodes ==
    ASSUME CodesInv, NEW c \in Clients, NEW d \in Digits, CreateCode(c, d)
    PROVE  CodesInv'
<1> USE DEF CodesInv
<1> DEFINE row == [digits |-> d, active |-> TRUE, age |-> 0, ending |-> "none", uses |-> 0,
                   returned |-> FALSE, quiet |-> Entering = {}, missed |-> 0]
<1>1. /\ Len(codes) < MaxCodes /\ Proceed(c, "create", "restore") /\ codes' = Append(codes, row)
      /\ created' = [created EXCEPT ![c] = Len(codes')]
      /\ UNCHANGED <<misses, entered>>
  BY DEF CreateCode
<1>2. row \in Codes
  BY CodeBounds DEF Codes, Endings
<1>3. row.uses = 0 /\ row.ending = "none" /\ ~row.returned /\ (row.quiet => Entering = {})
  OBVIOUS
<1> HIDE DEF row
<1>4. /\ codes' \in Seq(Codes) /\ Len(codes') = Len(codes) + 1 /\ Len(codes) \in Nat
      /\ \A i \in 1 .. Len(codes) : codes'[i] = codes[i]
      /\ codes'[Len(codes) + 1] = row
  BY <1>1, <1>2, AppendProperties, LenProperties DEF CodesTyped
<1>5. /\ codePc' \in [Clients -> {"idle", "find", "clear", "create", "restore",
                               "budget", "exhaust", "burn", "credit", "penalty", "spend"}]
      /\ codePc'[c] = "restore" /\ \A e \in Clients : e # c => codePc'[e] = codePc[e]
  BY <1>1, RequestProceeds
<1>6. CodesTyped'
  <2>1. Len(codes') \in 1 .. MaxCodes
    BY <1>1, <1>4, CodeBounds
  <2>2. created' \in [Clients -> 0 .. MaxCodes] /\ created'[c] = Len(codes')
        /\ \A e \in Clients : e # c => created'[e] = created[e]
    BY <1>1, <2>1, CodeBounds DEF CodesTyped
  <2>3. \A e \in Clients : codePc'[e] = "restore" => created'[e] \in 1 .. Len(codes')
    BY <1>4, <1>5, <2>1, <2>2 DEF CodesTyped
  <2> QED
    BY <1>1, <1>4, <1>5, <2>1, <2>2, <2>3 DEF CodesTyped
<1>7. /\ Entering' # {} => Entering # {}
      /\ Spending' # {} => Spending # {}
      /\ Cleared' \subseteq Cleared
  BY <1>5, EnteringMoves
<1>8. RowsSound'
  <2> DEFINE e == Entering # {}
             f == Entering' # {}
             s == Spending # {}
             t == Spending' # {}
  <2>1. (f => e) /\ (t => s) /\ {e, f, s, t} \subseteq BOOLEAN
    BY <1>7
  <2>2. ASSUME NEW i \in 1 .. Len(codes) PROVE RowSound(codes'[i], misses', f, t)
    <3>1. codes[i] \in Codes /\ misses \in Nat /\ RowSound(codes[i], misses, e, s)
      BY ElementOfSeq DEF CodesTyped, RowsSound
    <3>2. codes'[i] = codes[i]
      BY <1>4
    <3> HIDE DEF e, f, s, t
    <3> QED
      BY <1>1, <2>1, <3>1, <3>2, RowStays
  <2>3. RowSound(row, misses', f, t)
    BY <1>3, <1>7 DEF RowSound
  <2>4. \A i \in 1 .. Len(codes') : i \in 1 .. Len(codes) \/ i = Len(codes) + 1
    BY <1>4
  <2> QED
    BY <1>4, <2>2, <2>3, <2>4 DEF RowsSound
<1> QED
  BY <1>1, <1>6, <1>7, <1>8, BoundStays

LEMMA ReturningKeepsCodes ==
    ASSUME CodesInv, NEW c \in Clients, RestoreBudget(c)
    PROVE  CodesInv'
<1> USE DEF CodesInv
<1>1. EndRequest(c) /\ misses' = 0 /\ created[c] \in 1 .. Len(codes)
  BY DEF RestoreBudget, CodesTyped
<1>2. /\ codes' \in Seq(Codes) /\ Len(codes') = Len(codes)
      /\ \A i \in 1 .. Len(codes) :
            codes'[i] = IF i = created[c] THEN [codes[i] EXCEPT !.returned = TRUE] ELSE codes[i]
  BY ReturnedRow
<1>3. /\ codePc' \in [Clients -> {"idle", "find", "clear", "create", "restore",
                               "budget", "exhaust", "burn", "credit", "penalty", "spend"}]
      /\ entered' \in [Clients -> Digits] /\ created' \in [Clients -> 0 .. MaxCodes]
      /\ codePc'[c] = "idle"
      /\ \A d \in Clients : d # c => codePc'[d] = codePc[d] /\ created'[d] = created[d]
  BY <1>1, RequestEnds
<1>4. CodesTyped'
  BY <1>1, <1>2, <1>3 DEF CodesTyped
<1>5. /\ Entering' # {} => Entering # {}
      /\ Spending' # {} => Spending # {}
      /\ Cleared' \subseteq Cleared
  BY <1>3, EnteringMoves
<1>6. RowsSound'
  <2> DEFINE e == Entering # {}
             f == Entering' # {}
             s == Spending # {}
             t == Spending' # {}
  <2>1. (f => e) /\ (t => s) /\ {e, f, s, t} \subseteq BOOLEAN /\ (t => e)
    BY <1>5 DEF Entering, Generating, Spending
  <2>2. ASSUME NEW i \in 1 .. Len(codes) PROVE RowSound(codes'[i], misses', f, t)
    <3>1. codes[i] \in Codes /\ misses \in Nat /\ RowSound(codes[i], misses, e, s)
      BY ElementOfSeq DEF CodesTyped, RowsSound
    <3> HIDE DEF e, f, s, t
    <3>2. RowSound(codes[i], misses', f, t)
      BY <1>1, <2>1, <3>1, RowStays
    <3>3. CASE i = created[c]
      <4>1. codes'[i] = [codes[i] EXCEPT !.returned = TRUE]
        BY <1>2, <3>3
      <4> QED
        BY <1>1, <2>1, <3>1, <3>2, <4>1 DEF RowSound, Codes
    <3>4. CASE i # created[c]
      BY <1>2, <3>2, <3>4
    <3> QED
      BY <3>3, <3>4
  <2> QED
    BY <1>2, <2>2 DEF RowsSound
<1> QED
  BY <1>1, <1>4, <1>5, <1>6, BoundStays
-----------------------------------------------------------------------------
\* Entering a code.
LEMMA EnteringKeepsCodes ==
    ASSUME CodesInv, NEW c \in Clients, NEW d \in Digits, Enter(c, d)
    PROVE  CodesInv'
<1> USE DEF CodesInv
<1>1. /\ Proceed(c, "idle", "budget") /\ entered' = [entered EXCEPT ![c] = d]
      /\ UNCHANGED <<misses, created>>
  BY DEF Enter
<1>2. /\ codes' \in Seq(Codes) /\ Len(codes') = Len(codes)
      /\ \A i \in 1 .. Len(codes) :
            codes'[i] = [codes[i] EXCEPT !.quiet = codes[i].quiet /\ codes[i].returned]
  BY EnteredRows
<1>3. /\ codePc' \in [Clients -> {"idle", "find", "clear", "create", "restore",
                               "budget", "exhaust", "burn", "credit", "penalty", "spend"}]
      /\ codePc'[c] = "budget" /\ \A e \in Clients : e # c => codePc'[e] = codePc[e]
  BY <1>1, RequestProceeds
<1>4. CodesTyped'
  BY <1>1, <1>2, <1>3 DEF CodesTyped
<1>5. Spending' = Spending /\ Cleared' \subseteq Cleared
  BY <1>1, <1>3 DEF Spending, Cleared, Proceed
<1>6. RowsSound'
  <2> DEFINE e == Entering # {}
             f == Entering' # {}
             s == Spending # {}
  <2>1. ASSUME NEW i \in 1 .. Len(codes) PROVE RowSound(codes'[i], misses', f, Spending' # {})
    <3>1. codes[i] \in Codes /\ RowSound(codes[i], misses, e, s)
      BY ElementOfSeq DEF CodesTyped, RowsSound
    <3>2. codes'[i] = [codes[i] EXCEPT !.quiet = codes[i].quiet /\ codes[i].returned]
      BY <1>2
    <3> HIDE DEF e, f, s
    <3>3. RowSound(codes'[i], misses, f, s)
      BY <3>1, <3>2 DEF RowSound, Codes
    <3> QED
      BY <1>1, <1>5, <3>3 DEF s
  <2> QED
    BY <1>2, <2>1 DEF RowsSound
<1> QED
  BY <1>1, <1>4, <1>5, <1>6, BoundStays

LEMMA ReadingKeepsCodes ==
    ASSUME CodesInv, NEW c \in Clients, ReadBudget(c)
    PROVE  CodesInv'
<1> USE DEF CodesInv
<1>1. UNCHANGED <<codes, misses, entered, created>> /\ codePc[c] = "budget" /\ c \in Entering
  BY DEF ReadBudget, Proceed, Entering, Generating
<1>2. CASE misses >= MaxMisses
  <2>1. /\ codePc' \in [Clients -> {"idle", "find", "clear", "create", "restore",
                               "budget", "exhaust", "burn", "credit", "penalty", "spend"}]
        /\ codePc'[c] = "exhaust" /\ \A e \in Clients : e # c => codePc'[e] = codePc[e]
    BY <1>2, RequestProceeds DEF ReadBudget
  <2>2. CodesTyped'
    BY <1>1, <2>1 DEF CodesTyped
  <2>3. Cleared' \subseteq Cleared
    BY <2>1 DEF Cleared
  <2>4. ASSUME NEW i \in 1 .. Len(codes), NEW f \in BOOLEAN, NEW t \in BOOLEAN
        PROVE  RowSound(codes[i], misses, f, t)
    <3>1. codes[i] \in Codes /\ RowSound(codes[i], misses, TRUE, Spending # {})
      BY <1>1, ElementOfSeq DEF CodesTyped, RowsSound
    <3>2. misses \in Nat
      BY DEF CodesTyped
    <3> QED
      BY <1>2, <3>1, <3>2, CodeBounds DEF RowSound, Codes
  <2>5. RowsSound'
    BY <1>1, <2>4 DEF RowsSound
  <2> QED
    BY <1>1, <2>2, <2>3, <2>5, BoundStays
<1>3. CASE ~(misses >= MaxMisses)
  <2>1. /\ codePc' \in [Clients -> {"idle", "find", "clear", "create", "restore",
                               "budget", "exhaust", "burn", "credit", "penalty", "spend"}]
        /\ codePc'[c] = "burn" /\ \A e \in Clients : e # c => codePc'[e] = codePc[e]
    BY <1>3, RequestProceeds DEF ReadBudget
  <2>2. CodesTyped'
    BY <1>1, <2>1 DEF CodesTyped
  <2>3. BudgetBound'
    BY <1>1, <1>3 DEF BudgetBound
  <2>4. (Entering' # {} => Entering # {}) /\ (Spending' # {} => Spending # {})
    BY <1>1, <2>1, EnteringMoves
  <2> QED
    BY <1>1, <2>2, <2>3, <2>4, UntouchedRows
<1> QED
  BY <1>2, <1>3

LEMMA SpendingKeepsCodes ==
    ASSUME CodesInv, NEW c \in Clients, Spend(c)
    PROVE  CodesInv'
<1> USE DEF CodesInv
<1>1. /\ codes' = Inactivated("spent") /\ EndRequest(c) /\ UNCHANGED misses
      /\ c \in Entering /\ c \in Spending
  BY DEF Spend, Entering, Generating, Spending
<1>2. /\ codes' \in Seq(Codes) /\ Len(codes') = Len(codes)
      /\ \A i \in 1 .. Len(codes) :
            codes'[i] = IF codes[i].active
                        THEN [codes[i] EXCEPT !.active = FALSE, !.ending = "spent"] ELSE codes[i]
  BY <1>1, InactivatedRows DEF Endings
<1>3. /\ codePc' \in [Clients -> {"idle", "find", "clear", "create", "restore",
                               "budget", "exhaust", "burn", "credit", "penalty", "spend"}]
      /\ entered' \in [Clients -> Digits] /\ created' \in [Clients -> 0 .. MaxCodes]
      /\ codePc'[c] = "idle"
      /\ \A d \in Clients : d # c => codePc'[d] = codePc[d] /\ created'[d] = created[d]
  BY <1>1, RequestEnds
<1>4. CodesTyped'
  BY <1>1, <1>2, <1>3 DEF CodesTyped
<1>5. Cleared' \subseteq Cleared
  BY <1>3 DEF Cleared
<1>6. ASSUME NEW i \in 1 .. Len(codes), NEW f \in BOOLEAN, NEW t \in BOOLEAN
      PROVE  RowSound(codes'[i], misses, f, t)
  <2>1. codes[i] \in Codes /\ RowSound(codes[i], misses, TRUE, TRUE)
    BY <1>1, ElementOfSeq DEF CodesTyped, RowsSound
  <2>2. CASE codes[i].active
    <3>1. codes'[i] = [codes[i] EXCEPT !.active = FALSE, !.ending = "spent"]
      BY <1>2, <2>2
    <3> QED
      BY <2>1, <3>1 DEF RowSound, Codes
  <2>3. CASE ~codes[i].active
    BY <1>2, <2>1, <2>3 DEF RowSound, Codes
  <2> QED
    BY <2>2, <2>3
<1>7. RowsSound'
  BY <1>1, <1>2, <1>6 DEF RowsSound
<1> QED
  BY <1>1, <1>4, <1>5, <1>7, BoundStays

LEMMA BurningKeepsCodes ==
    ASSUME CodesInv, NEW c \in Clients, Burn(c)
    PROVE  CodesInv'
<1> USE DEF CodesInv
<1>1. /\ \E to \in {"credit", "penalty"} : Proceed(c, "burn", to)
      /\ entered' = [entered EXCEPT ![c] = SomeDigits]
      /\ UNCHANGED <<misses, created>>
      /\ c \in Entering /\ c \in Cleared
  BY DEF Burn, Proceed, Entering, Generating, Cleared
<1>2. /\ codes' \in Seq(Codes) /\ Len(codes') = Len(codes)
      /\ \A i \in 1 .. Len(codes) :
            \/ codes'[i] = codes[i]
            \/ /\ codes[i].active
               /\ codes'[i] = [codes[i] EXCEPT !.active = FALSE, !.ending = "used",
                                               !.uses = @ + 1]
  BY BurntRows
<1>3. PICK to \in {"credit", "penalty"} : Proceed(c, "burn", to)
  BY <1>1
<1>4. /\ codePc' \in [Clients -> {"idle", "find", "clear", "create", "restore",
                               "budget", "exhaust", "burn", "credit", "penalty", "spend"}]
      /\ codePc'[c] = to /\ \A e \in Clients : e # c => codePc'[e] = codePc[e]
  BY <1>3, RequestProceeds
<1>5. CodesTyped'
  BY <1>1, <1>2, <1>4, CodeBounds DEF CodesTyped
<1>6. /\ Entering' # {} => Entering # {}
      /\ Spending' # {} => Spending # {}
      /\ Cleared' \subseteq Cleared
  BY <1>1, <1>4, EnteringMoves
<1>7. RowsSound'
  <2> DEFINE e == Entering # {}
             f == Entering' # {}
             s == Spending # {}
             t == Spending' # {}
  <2>1. (f => e) /\ (t => s) /\ {e, f, s, t} \subseteq BOOLEAN
    BY <1>6
  <2>2. ASSUME NEW i \in 1 .. Len(codes) PROVE RowSound(codes'[i], misses', f, t)
    <3>1. codes[i] \in Codes /\ misses \in Nat /\ RowSound(codes[i], misses, e, s)
      BY ElementOfSeq DEF CodesTyped, RowsSound
    <3> HIDE DEF e, f, s, t
    <3>2. RowSound(codes[i], misses', f, t)
      BY <1>1, <2>1, <3>1, RowStays
    <3>3. CASE codes'[i] = codes[i]
      BY <3>2, <3>3
    <3>4. CASE /\ codes[i].active
               /\ codes'[i] = [codes[i] EXCEPT !.active = FALSE, !.ending = "used",
                                               !.uses = @ + 1]
      BY <3>1, <3>2, <3>4 DEF RowSound, Codes
    <3> QED
      BY <1>2, <3>3, <3>4
  <2> QED
    BY <1>2, <2>2 DEF RowsSound
<1> QED
  BY <1>1, <1>5, <1>6, <1>7, BoundStays

\* A wrong entry is counted by the limiter and on every returned row alike; it
\* exceeds the budget only when the request had read it before.
LEMMA PenaltyKeepsCodes ==
    ASSUME CodesInv, NEW c \in Clients, Penalty(c)
    PROVE  CodesInv'
<1> USE DEF CodesInv
<1>1. codePc[c] = "penalty" /\ misses' = misses + 1 /\ c \in Cleared /\ c \in Entering
  BY DEF Penalty, Cleared, Entering, Generating
<1>2. /\ codes' \in Seq(Codes) /\ Len(codes') = Len(codes)
      /\ \A i \in 1 .. Len(codes) :
            codes'[i] = IF codes[i].returned /\ codes[i].missed < MaxMisses
                        THEN [codes[i] EXCEPT !.missed = @ + 1] ELSE codes[i]
  BY CountedRows
<1>3. /\ codePc' \in [Clients -> {"idle", "find", "clear", "create", "restore",
                               "budget", "exhaust", "burn", "credit", "penalty", "spend"}]
      /\ entered' \in [Clients -> Digits] /\ created' \in [Clients -> 0 .. MaxCodes]
      /\ \A e \in Clients : e # c => codePc'[e] = codePc[e] /\ created'[e] = created[e]
      /\ codePc'[c] = IF misses' >= MaxMisses THEN "spend" ELSE "idle"
  <2>1. CASE misses' >= MaxMisses
    <3>1. codePc' = [codePc EXCEPT ![c] = "spend"] /\ UNCHANGED <<entered, created>>
      BY <2>1 DEF Penalty
    <3> QED
      BY <2>1, <3>1 DEF CodesTyped
  <2>2. CASE ~(misses' >= MaxMisses)
    <3>1. EndRequest(c)
      BY <2>2 DEF Penalty
    <3> QED
      BY <2>2, <3>1, RequestEnds
  <2> QED
    BY <2>1, <2>2
<1>4. CodesTyped'
  <2>1. misses' \in Nat
    BY <1>1 DEF CodesTyped
  <2>2. codePc'[c] # "restore"
    BY <1>3
  <2>3. \A e \in Clients : codePc'[e] = "restore" => created'[e] \in 1 .. Len(codes')
    BY <1>2, <1>3, <2>2 DEF CodesTyped
  <2> QED
    BY <1>2, <1>3, <2>1, <2>3 DEF CodesTyped
<1>5. BudgetBound'
  <2>1. Cleared' = Cleared \ {c}
    BY <1>3 DEF Cleared
  <2>2. IsFiniteSet(Cleared) /\ Cardinality(Cleared') = Cardinality(Cleared) - 1
        /\ Cardinality(Cleared) \in Nat /\ Cardinality(Cleared) <= Cardinality(Clients)
    <3>1. IsFiniteSet(Cleared) /\ Cardinality(Cleared) <= Cardinality(Clients)
      BY CodeBounds, FS_Subset DEF Cleared
    <3> QED
      BY <1>1, <2>1, <3>1, FS_RemoveElement, FS_CardinalityType
  <2>3. misses \in Nat
    BY DEF CodesTyped
  <2> QED
    BY <1>1, <2>2, <2>3, CodeBounds DEF BudgetBound
<1>6. ASSUME NEW i \in 1 .. Len(codes), NEW f \in BOOLEAN
      PROVE  RowSound(codes'[i], misses', f, Spending' # {})
  <2>1. codes[i] \in Codes /\ misses \in Nat /\ RowSound(codes[i], misses, TRUE, Spending # {})
    BY <1>1, ElementOfSeq DEF CodesTyped, RowsSound
  <2>2. misses' >= MaxMisses \/ (Spending' # {} => Spending # {})
    BY <1>3 DEF Spending
  <2> DEFINE s == Spending # {}
             t == Spending' # {}
  <2>3. {s, t} \subseteq BOOLEAN /\ (misses' >= MaxMisses \/ (t => s))
    BY <2>2
  <2>4. RowSound(codes[i], misses, TRUE, s)
    BY <2>1
  <2> HIDE DEF s, t
  <2>5. CASE codes[i].returned /\ codes[i].missed < MaxMisses
    <3>1. codes'[i] = [codes[i] EXCEPT !.missed = @ + 1]
      BY <1>2, <2>5
    <3>2. RowSound(codes'[i], misses', f, t)
      BY <1>1, <2>1, <2>3, <2>4, <2>5, <3>1, CodeBounds DEF RowSound, Codes
    <3> QED
      BY <3>2 DEF t
  <2>6. CASE ~(codes[i].returned /\ codes[i].missed < MaxMisses)
    <3>1. codes'[i] = codes[i]
      BY <1>2, <2>6
    <3>2. RowSound(codes'[i], misses', f, t)
      BY <1>1, <2>1, <2>3, <2>4, <2>6, <3>1, CodeBounds DEF RowSound, Codes
    <3> QED
      BY <3>2 DEF t
  <2> QED
    BY <2>5, <2>6
<1>7. RowsSound'
  BY <1>2, <1>6 DEF RowsSound
<1> QED
  BY <1>4, <1>5, <1>7

LEMMA EndingKeepsCodes ==
    ASSUME CodesInv, NEW c \in Clients, Credit(c) \/ RequestFails(c)
    PROVE  CodesInv'
<1> USE DEF CodesInv
<1>1. EndRequest(c) /\ misses' \in {0, misses} /\ UNCHANGED codes
  BY DEF Credit, RequestFails
<1>2. /\ codePc' \in [Clients -> {"idle", "find", "clear", "create", "restore",
                               "budget", "exhaust", "burn", "credit", "penalty", "spend"}]
      /\ entered' \in [Clients -> Digits] /\ created' \in [Clients -> 0 .. MaxCodes]
      /\ codePc'[c] = "idle"
      /\ \A d \in Clients : d # c => codePc'[d] = codePc[d] /\ created'[d] = created[d]
  BY <1>1, RequestEnds
<1>3. CodesTyped'
  BY <1>1, <1>2 DEF CodesTyped
<1>4. /\ Entering' # {} => Entering # {}
      /\ Spending' # {} => Spending # {}
      /\ Cleared' \subseteq Cleared
  BY <1>2, EnteringMoves
<1> QED
  BY <1>1, <1>3, <1>4, UntouchedRows, BoundStays

LEMMA TimeKeepsCodes ==
    ASSUME CodesInv, MissesExpire \/ \E i \in 1 .. Len(codes) : CodeAges(i)
    PROVE  CodesInv'
<1> USE DEF CodesInv
<1>1. UNCHANGED <<codePc, entered, created>> /\ misses' \in {0, misses}
  BY DEF MissesExpire, CodeAges
<1>2. Entering' = Entering /\ Spending' = Spending /\ Cleared' = Cleared
  BY <1>1 DEF Entering, Generating, Spending, Cleared
<1>3. CASE MissesExpire
  <2>1. UNCHANGED codes
    BY <1>3 DEF MissesExpire
  <2>2. CodesTyped'
    BY <1>1, <2>1 DEF CodesTyped
  <2> QED
    BY <1>1, <1>2, <2>1, <2>2, UntouchedRows, BoundStays
<1>4. ASSUME NEW j \in 1 .. Len(codes), CodeAges(j) PROVE CodesInv'
  <2>1. /\ codes' \in Seq(Codes) /\ Len(codes') = Len(codes)
        /\ \A i \in 1 .. Len(codes) :
              codes'[i] = IF i = j THEN [codes[i] EXCEPT !.age = @ + 1] ELSE codes[i]
    BY <1>4, AgedRow
  <2>2. CodesTyped'
    BY <1>1, <2>1 DEF CodesTyped
  <2>3. UNCHANGED misses
    BY <1>4 DEF CodeAges
  <2>4. ASSUME NEW i \in 1 .. Len(codes)
        PROVE  RowSound(codes'[i], misses', Entering' # {}, Spending' # {})
    <3>1. codes[i] \in Codes /\ RowSound(codes[i], misses, Entering # {}, Spending # {})
      BY ElementOfSeq DEF CodesTyped, RowsSound
    <3>2. codes'[i] = codes[i] \/ codes'[i] = [codes[i] EXCEPT !.age = @ + 1]
      BY <2>1
    <3> QED
      BY <1>2, <2>3, <3>1, <3>2 DEF RowSound, Codes
  <2>5. RowsSound'
    BY <2>1, <2>4 DEF RowsSound
  <2> QED
    BY <1>1, <1>2, <2>2, <2>5, BoundStays
<1> QED
  BY <1>3, <1>4

LEMMA CodesInvariant == CodesSpec => []CodesInv
<1>1. CodesInv /\ CodesNext => CodesInv'
  BY GeneratingKeepsCodes, ClearingKeepsCodes, CreatingKeepsCodes, ReturningKeepsCodes,
     EnteringKeepsCodes, ReadingKeepsCodes, SpendingKeepsCodes, BurningKeepsCodes,
     PenaltyKeepsCodes, EndingKeepsCodes, TimeKeepsCodes DEF CodesNext
<1>2. CodesInv /\ UNCHANGED codeVars => CodesInv'
  BY DEF CodesInv, CodesTyped, BudgetBound, Cleared, RowsSound, RowSound, Entering, Generating,
         Spending, codeVars
<1> QED
  BY InitEstablishesCodes, <1>1, <1>2, PTL DEF CodesSpec

LEMMA CodesInvBoundsMisses == CodesInv => MissesAreBounded
<1> SUFFICES ASSUME CodesInv PROVE MissesAreBounded
  OBVIOUS
<1>1. IsFiniteSet(Cleared) /\ Cardinality(Cleared) \in Nat
  BY CodeBounds, FS_Subset, FS_CardinalityType DEF Cleared
<1> QED
  BY <1>1, CodeBounds DEF CodesInv, CodesTyped, BudgetBound, MissesAreBounded

\* Every reachable state of the codes, the limiter and the requests is well
\* typed (verification-code.service.ts).
THEOREM CodesAreTyped == CodesSpec => []CodesTypeOK
<1>1. CodesInv => CodesTypeOK
  <2> SUFFICES ASSUME CodesInv PROVE CodesTypeOK
    OBVIOUS
  <2>1. misses \in 0 .. MaxMisses + Cardinality(Clients)
    BY CodesInvBoundsMisses, CodeBounds DEF CodesInv, CodesTyped, MissesAreBounded
  <2> QED
    BY <2>1 DEF CodesInv, CodesTyped, CodesTypeOK
<1> QED
  BY CodesInvariant, <1>1, PTL

\* However many requests ask for codes and enter them at the same time, and
\* wherever they fail: a code is accepted once, the wrong entries beyond the
\* budget are those of requests that had read it before, and a code that is
\* invalidated as spent had its whole budget (generate, consume).
THEOREM CodesStaySound == CodesSpec => []CodesAreSound
<1>1. CodesInv => CodesWorkOnce
  BY DEF CodesInv, RowsSound, RowSound, CodesWorkOnce
<1>2. CodesInv => FreshCodesHaveTheirBudget
  BY DEF CodesInv, RowsSound, RowSound, FreshCodesHaveTheirBudget
<1>3. CodesInv => CodesAreSound
  BY <1>1, <1>2, CodesInvBoundsMisses DEF CodesAreSound
<1> QED
  BY CodesInvariant, <1>3, PTL
=============================================================================
