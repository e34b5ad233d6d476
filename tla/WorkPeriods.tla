----------------------------- MODULE WorkPeriods -----------------------------
(***************************************************************************)
(* The evaluation periods of packages/modules/work-evaluation              *)
(* (work-evaluation-period.service.ts): concurrent requests create periods *)
(* in serializable transactions and move them through their lifecycle with *)
(* conditional updates.                                                    *)
(***************************************************************************)
EXTENDS Naturals

CONSTANTS
    Periods,        \* identities of rows a behaviour may create
    Planners,       \* concurrent requests
    PeriodTypes,
    Horizon,        \* bound: dates are 0 .. Horizon
    RubricDate      \* publishedAt of the criteria version every period pins

ASSUME HorizonAssumption ==
    /\ Horizon \in Nat /\ RubricDate \in 0 .. Horizon
    /\ Periods # {} /\ PeriodTypes # {}

VARIABLES
    span,           \* type, periodStart and periodEnd of each row
    periodStatus,   \* "absent" before the row is created
    planPhase,      \* where each request is
    asked,          \* the period a request creates
    moving          \* the row, the status read and the target of a transition

periodVars == <<span, periodStatus, planPhase, asked, moving>>

Dates == 0 .. Horizon
Spans == [type : PeriodTypes, start : Dates, end : Dates]
PeriodStatuses == {"absent", "UPCOMING", "ACTIVE", "CLOSED"}
Moves == [id : Periods, from : PeriodStatuses, to : PeriodStatuses]

\* Types, and: no row is empty.
PeriodsTypeOK ==
    /\ span \in [Periods -> Spans]
    /\ periodStatus \in [Periods -> PeriodStatuses]
    /\ planPhase \in [Planners -> {"idle", "inserting", "moving"}]
    /\ asked \in [Planners -> Spans]
    /\ moving \in [Planners -> Moves]
    /\ \A p \in Periods : periodStatus[p] # "absent" => span[p].start < span[p].end

\* The columns of a row that is absent and of a request that is idle.
AnySpan == CHOOSE s \in Spans : TRUE
AnyMove == CHOOSE m \in Moves : TRUE

PeriodInit ==
    /\ span = [p \in Periods |-> AnySpan]
    /\ asked = [c \in Planners |-> AnySpan]
    /\ periodStatus = [p \in Periods |-> "absent"]
    /\ planPhase = [c \in Planners |-> "idle"]
    /\ moving = [c \in Planners |-> AnyMove]

-----------------------------------------------------------------------------
Overlaps(s, t) == s.type = t.type /\ s.start < t.end /\ t.start < s.end

Taken(s) == \E p \in Periods : periodStatus[p] # "absent" /\ Overlaps(span[p], s)

\* The request ends and forgets what it read.
Done(c) ==
    /\ planPhase' = [planPhase EXCEPT ![c] = "idle"]
    /\ asked' = [asked EXCEPT ![c] = AnySpan]
    /\ moving' = [moving EXCEPT ![c] = AnyMove]

ValidSpan(s) == s.start < s.end /\ RubricDate <= s.start

\* The request is valid, and the transaction's query finds no overlap.  The
\* version is published, so its columns no longer change.
CreateRead(c, s) ==
    /\ planPhase[c] = "idle"
    /\ ValidSpan(s)
    /\ ~Taken(s)
    /\ asked' = [asked EXCEPT ![c] = s]
    /\ planPhase' = [planPhase EXCEPT ![c] = "inserting"]
    /\ UNCHANGED <<span, periodStatus, moving>>

\* Mutant: read committed, the commit does not depend on what was read.
CreateUnserialized(c, p) ==
    /\ planPhase[c] = "inserting" /\ periodStatus[p] = "absent"
    /\ span' = [span EXCEPT ![p] = asked[c]]
    /\ periodStatus' = [periodStatus EXCEPT ![p] = "UPCOMING"]
    /\ Done(c)

\* A serializable transaction commits only if its query would still return
\* what it returned.
CreateCommit(c, p) ==
    /\ planPhase[c] = "inserting" /\ periodStatus[p] = "absent"
    /\ ~Taken(asked[c])
    /\ span' = [span EXCEPT ![p] = asked[c]]
    /\ periodStatus' = [periodStatus EXCEPT ![p] = "UPCOMING"]
    /\ Done(c)

\* Serialization failure, which the database may also report needlessly, or
\* any other error.
CreateAborted(c) ==
    /\ planPhase[c] = "inserting"
    /\ Done(c)
    /\ UNCHANGED <<span, periodStatus>>

AllowedTransitions ==
    [s \in PeriodStatuses |->
        CASE s = "UPCOMING" -> {"ACTIVE", "CLOSED"}
          [] s = "ACTIVE" -> {"CLOSED"}
          [] OTHER -> {}]

TransitionRead(c, p, to) ==
    /\ planPhase[c] = "idle"
    /\ to \in AllowedTransitions[periodStatus[p]]
    /\ moving' = [moving EXCEPT ![c] = [id |-> p, from |-> periodStatus[p], to |-> to]]
    /\ planPhase' = [planPhase EXCEPT ![c] = "moving"]
    /\ UNCHANGED <<span, periodStatus, asked>>

StatusStillHeld(m) == periodStatus[m.id] = m.from

\* updateMany on the id and the status that was validated; no match is reported.
TransitionWrite(c) ==
    /\ planPhase[c] = "moving"
    /\ periodStatus' = IF StatusStillHeld(moving[c])
                       THEN [periodStatus EXCEPT ![moving[c].id] = moving[c].to]
                       ELSE periodStatus
    /\ Done(c)
    /\ UNCHANGED span

PeriodNext ==
    \E c \in Planners :
        \/ \E s \in Spans : CreateRead(c, s)
        \/ \E p \in Periods : CreateCommit(c, p)
        \/ CreateAborted(c)
        \/ \E p \in Periods, to \in PeriodStatuses : TransitionRead(c, p, to)
        \/ TransitionWrite(c)

PeriodSpec == PeriodInit /\ [][PeriodNext]_periodVars

-----------------------------------------------------------------------------
(* Properties *)

\* Two periods of one type never overlap, however their creations interleave,
\* and none starts before the criteria it is judged by were published.
PeriodsDisjoint ==
    \A p \in Periods : periodStatus[p] # "absent" =>
        /\ RubricDate <= span[p].start
        /\ \A q \in Periods \ {p} :
               periodStatus[q] # "absent" => ~Overlaps(span[p], span[q])

MovesForward ==
    \A p \in Periods :
        periodStatus'[p] # periodStatus[p] =>
            \/ periodStatus[p] = "absent"
            \/ periodStatus'[p] \in AllowedTransitions[periodStatus[p]]

\* A period only moves forward, and a closed one stays closed, whatever the
\* requests that read it earlier still write.
PeriodsMoveForward == [][MovesForward]_periodVars

\* No step of racing requests makes two periods overlap (there are none at
\* first), or moves one back.
PeriodsAreSound == [][PeriodsDisjoint' /\ MovesForward]_periodVars
=============================================================================
