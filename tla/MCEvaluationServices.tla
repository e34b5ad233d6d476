------------------------ MODULE MCEvaluationServices ------------------------
(* One model-checking instance for services that share no state: each       *)
(* behaviour exercises the service named by `service` while the others stay *)
(* in their initial states.                                                 *)
EXTENDS MCEvaluationFindings, EvaluationRemediation, MCEvaluationCoverage,
        WorkPeriods

VARIABLE service

findingVars == vars
servicesVars == <<findingVars, remediationVars, coverageVars, periodVars, service>>

\* The rows and reports vary only in the behaviours they matter to.
ServicesInit ==
    /\ service \in {"findings", "remediation", "coverage", "periods"}
    /\ Init /\ PlanInit /\ PeriodInit
    /\ service # "findings" => fstatus = [f \in Findings |-> "absent"]
    /\ IF service = "coverage" THEN CoverageInit
       ELSE /\ manifest = {} /\ evaluated = {} /\ unlinked = EmptyBucket
            /\ skips = << >> /\ stats = << >> /\ coveragePc = "judged"

Others(s) ==
    /\ s # "findings" => UNCHANGED findingVars
    /\ s # "remediation" => UNCHANGED remediationVars
    /\ s # "coverage" => UNCHANGED coverageVars
    /\ s # "periods" => UNCHANGED periodVars

ServicesNext ==
    /\ UNCHANGED service
    /\ \/ service = "findings" /\ Next /\ Others(service)
       \/ service = "remediation" /\ PlanNext /\ Others(service)
       \/ service = "coverage" /\ CoverageNext /\ Others(service)
       \/ service = "periods" /\ PeriodNext /\ Others(service)

ServicesSpec == ServicesInit /\ [][ServicesNext]_servicesVars

-----------------------------------------------------------------------------
\* The rows of the services are in states of their types, and the companion
\* columns of a finding move with its status.
ServicesAreWellFormed == FindingsTypeOK /\ ColumnsAgreeWithStatus /\ PlanTypeOK /\ PeriodsTypeOK
=============================================================================
