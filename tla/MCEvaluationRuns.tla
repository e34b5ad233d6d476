-------------------------- MODULE MCEvaluationRuns --------------------------
(* Model-checking instances of EvaluationRuns: see the .cfg files.          *)
EXTENDS EvaluationRuns, TLC

\* Requests and processes are interchangeable in safety runs.
Symmetry == Permutations(Runs) \union Permutations(Replicas)
=============================================================================
