------------------------ MODULE MCEvaluationCoverage ------------------------
(* Model-checking instances of EvaluationCoverage: see the .cfg files.      *)
EXTENDS EvaluationCoverage

CONSTANTS e1, e2, session, document, advocate

TwoSources == [i \in {e1, e2} |-> IF i = e1 THEN session ELSE document]

\* Every combination of count, breakdown, note and ids up to the bounds,
\* consistent or not.
AnyBucket ==
    {Bucket(t, b, n, l) :
        t \in 0 .. 2, n \in BOOLEAN,
        b \in {NoBreakdown, [s \in {session} |-> 0], [s \in {session, document} |-> 1]},
        l \in {<< >>, <<e1>>, <<e1, e2>>}}

AnyJudgmentBucket ==
    {Bucket(t, b, n, l) :
        t \in 0 .. 2, n \in BOOLEAN,
        b \in {NoBreakdown, [s \in {document} |-> 1]},
        l \in {<< >>, <<e1>>, <<advocate>>}}

AnyUnlinked == {EmptyBucket, Bucket(1, NoBreakdown, TRUE, << >>),
                Bucket(1, NoBreakdown, FALSE, << >>)}

\* What probeTranscripts of work-evaluation reports: sessions without a
\* transcript, with a breakdown; and what its judgment reports: phases and
\* items it did not get to, without one.
WorkCollectorBucket ==
    {EmptyBucket, Bucket(1, [s \in {session} |-> 1], TRUE, <<e1>>)}

WorkJudgmentBucket ==
    {Bucket(1, NoBreakdown, TRUE, <<i>>) : i \in {e2, advocate}}
        \union {Bucket(2, NoBreakdown, TRUE, <<e2, advocate>>)}
=============================================================================
