------------------------ MODULE MCEvaluationFindings ------------------------
(* Model-checking instances of EvaluationFindings: see the .cfg files.      *)
EXTENDS EvaluationFindings, TLC

CONSTANTS r1, r2, r3, f1, f2, k1, k2

\* Two runs race on k1; a run of another key works on its own finding.
SplitKeys == [x \in Runs \union Findings |-> IF x \in {r3, f2} THEN k2 ELSE k1]
=============================================================================
