---------------------------- MODULE MCFairServices ----------------------------
(* Services that share no state, in one instance: a behaviour exercises the  *)
(* service named by `subject` while the others stay idle, so that their      *)
(* fairness asks for nothing.                                                *)
EXTENDS EvaluationCriteria, WorkJudgment, ReportQueue, Migrations

VARIABLE subject

criteriaVars == vars
servedVars == <<criteriaVars, judgeVars, queueVars, migrationVars, subject>>

ThreePhases == <<"advocate", "skeptic", "synthesis">>
TwoKinds == <<"ajax", "page">>
EachItsApp == CHOOSE f \in [Reports -> Apps] : \A r, s \in Reports : r # s => f[r] # f[s]

Subjects == {"criteria", "judgment", "reports", "migrations"}

\* Only the subject moves.
Others(s) ==
    /\ s # "criteria" => UNCHANGED criteriaVars
    /\ s # "judgment" => UNCHANGED judgeVars
    /\ s # "reports" => UNCHANGED queueVars
    /\ s # "migrations" => UNCHANGED migrationVars

Turn(s, A) == subject = s /\ A /\ Others(s) /\ UNCHANGED subject

ServedNext ==
    \/ Turn("criteria", Next)
    \/ Turn("judgment", JudgmentNext)
    \/ Turn("reports", QueueNext)
    \/ Turn("migrations", MigrationsNext)

\* Deploying for the subject only: a runner is never idle for good.
ServedFairness ==
    /\ RequestsAreServed /\ JudgmentProgresses /\ QueueIsDrained
    /\ \A r \in Runners : WF_servedVars(Turn("migrations", Migrating(r)))

\* The criterion an idle client last worked on plays no part: one of them.
ServedInit ==
    /\ subject \in Subjects
    /\ target = [c \in Clients |-> CHOOSE k \in Criteria : TRUE]
    /\ Init /\ JudgmentInit /\ QueueInit /\ MigrationsInit

ServedSpec == ServedInit /\ [][ServedNext]_servedVars /\ ServedFairness

-----------------------------------------------------------------------------
\* The services are in states of their types.
FairTypeOK == CriteriaTypeOK /\ JudgmentTypeOK /\ QueueTypeOK /\ MigrationsTypeOK
=============================================================================
