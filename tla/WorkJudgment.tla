----------------------------- MODULE WorkJudgment -----------------------------
(***************************************************************************)
(* The three-phase judgment agent of packages/modules/work-evaluation      *)
(* (work-evaluation-judgment.service.ts).  Each phase calls the model in a *)
(* loop that a token budget, a deadline and a ceiling on tool rounds bound;*)
(* the provider may omit the token usage, answer with tool calls for ever, *)
(* or fail.                                                                *)
(***************************************************************************)
EXTENDS Naturals, Sequences, SequencesExt

CONSTANTS
    Phases,         \* the phases in order; the last writes the verdicts
    TokenBudget,    \* of a phase
    Usages,         \* totalTokens of one call; 0 when the provider omits it
    MaxToolRounds

ASSUME JudgmentAssumption ==
    /\ Phases \in Seq(STRING) /\ Len(Phases) > 0
    /\ TokenBudget \in Nat \ {0} /\ Usages \subseteq Nat /\ MaxToolRounds \in Nat

VARIABLES
    phase,          \* index of the phase that runs
    spent, rounds,  \* tokens and tool rounds of the phase
    overdue,        \* the deadline of the phase has passed
    reply,          \* what the last call of the phase returned
    stops,          \* the stop reason of each finished phase
    skippedWork,    \* items of the skipped bucket of the judgment
    judgePc

judgeVars == <<phase, spent, rounds, overdue, reply, stops, skippedWork, judgePc>>

NoReply == [text |-> "empty", tools |-> FALSE]
\* A text is empty, prose, or a judgment that parses.
Replies == [text : {"empty", "prose", "judgment"}, tools : BOOLEAN]
StopReasons == {"none", "token-budget", "time-limit", "tool-round-limit"}
LastPhase == Len(Phases)

JudgmentTypeOK ==
    /\ phase \in 1 .. LastPhase
    /\ spent \in Nat /\ rounds \in 0 .. MaxToolRounds
    /\ overdue \in BOOLEAN
    /\ reply \in Replies
    /\ stops \in Seq(StopReasons) /\ Len(stops) <= LastPhase
    /\ skippedWork \subseteq ToSet(Phases) \union {"listed"}
    /\ judgePc \in {"idle", "loop", "replied", "parse", "judged", "failed"}

JudgmentInit ==
    /\ phase = 1 /\ spent = 0 /\ rounds = 0 /\ overdue = FALSE
    /\ reply = NoReply /\ stops = << >> /\ skippedWork = {}
    /\ judgePc = "idle"

-----------------------------------------------------------------------------
\* The runner calls the judgment port.
Judge ==
    /\ judgePc = "idle"
    /\ judgePc' = "loop"
    /\ UNCHANGED <<phase, spent, rounds, overdue, reply, stops, skippedWork>>

\* A phase returns; the next one starts with its own budget and deadline.
EndPhase(reason, last) ==
    /\ stops' = Append(stops, reason)
    /\ reply' = last
    /\ IF phase = LastPhase
       THEN judgePc' = "parse" /\ UNCHANGED <<phase, spent, rounds, overdue>>
       ELSE /\ judgePc' = "loop"
            /\ phase' = phase + 1
            /\ spent' = 0 /\ rounds' = 0 /\ overdue' = FALSE
    /\ UNCHANGED skippedWork

\* Time passes: the deadline is a moment of the clock.
DeadlinePasses ==
    /\ judgePc \in {"loop", "replied"} /\ ~overdue
    /\ overdue' = TRUE
    /\ UNCHANGED <<phase, spent, rounds, reply, stops, skippedWork, judgePc>>

\* The clock is looked at before a call only; what was read is dropped.
TimeLimit ==
    /\ judgePc = "loop" /\ overdue
    /\ EndPhase("time-limit", NoReply)

Complete(r, usage) ==
    /\ judgePc = "loop" /\ ~overdue
    /\ reply' = r
    /\ spent' = spent + usage
    /\ judgePc' = "replied"
    /\ UNCHANGED <<phase, rounds, overdue, stops, skippedWork>>

\* complete() throws: the run fails.
CompleteFails ==
    /\ judgePc = "loop" /\ ~overdue
    /\ judgePc' = "failed"
    /\ UNCHANGED <<phase, spent, rounds, overdue, reply, stops, skippedWork>>

BudgetSpent == spent >= TokenBudget

RoundsExhausted == rounds >= MaxToolRounds

\* Mutant: a round is not counted.
SameRound == rounds

NextRound == rounds + 1

\* The reply ends the phase, or its tool calls are executed; a tool that throws
\* answers with its error.
HandleReply ==
    /\ judgePc = "replied"
    /\ IF BudgetSpent THEN EndPhase("token-budget", reply)
       ELSE IF ~reply.tools THEN EndPhase("none", reply)
       ELSE IF RoundsExhausted THEN EndPhase("tool-round-limit", reply)
       ELSE /\ rounds' = NextRound
            /\ judgePc' = "loop"
            /\ UNCHANGED <<phase, spent, overdue, reply, stops, skippedWork>>

\* Mutant: only the phases that feed the synthesis are looked at.
StoppedFeeders == {Phases[i] : i \in {j \in 1 .. LastPhase - 1 : stops[j] # "none"}}

StoppedPhases == {Phases[i] : i \in {j \in 1 .. LastPhase : stops[j] # "none"}}

\* The synthesis may itself list work it did not do.
Parse(listed) ==
    /\ judgePc = "parse"
    /\ IF reply.text = "judgment"
       THEN /\ skippedWork' = listed \union StoppedPhases
            /\ judgePc' = "judged"
       ELSE judgePc' = "failed" /\ UNCHANGED skippedWork
    /\ UNCHANGED <<phase, spent, rounds, overdue, reply, stops>>

JudgeStep ==
    \/ TimeLimit \/ CompleteFails \/ HandleReply
    \/ \E r \in Replies, usage \in Usages : Complete(r, usage)
    \/ \E listed \in {{}, {"listed"}} : Parse(listed)

JudgmentNext == Judge \/ JudgeStep \/ DeadlinePasses

JudgmentProgresses == WF_judgeVars(JudgeStep)

JudgmentSpec == JudgmentInit /\ [][JudgmentNext]_judgeVars /\ JudgmentProgresses

-----------------------------------------------------------------------------
(* Properties *)

\* A phase that was cut off never looks complete: a judgment names every such
\* phase in its skipped bucket, and one whose synthesis ran out of time fails.
EarlyStopsAreOnRecord ==
    judgePc = "judged" =>
        /\ \A i \in 1 .. LastPhase : stops[i] # "none" => Phases[i] \in skippedWork
        /\ stops[LastPhase] # "time-limit"

\* The agent ends although no reply reports its usage and none is final, also
\* when the deadline never passes; a call of the model returns or throws.
JudgmentEnds == judgePc = "loop" ~> judgePc \in {"judged", "failed"}
=============================================================================
