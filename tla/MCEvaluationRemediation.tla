----------------------- MODULE MCEvaluationRemediation -----------------------
(* Model-checking instances of EvaluationRemediation: see the .cfg files.   *)
EXTENDS EvaluationRemediation, TLC

Symmetry == Permutations(Requests)
=============================================================================
