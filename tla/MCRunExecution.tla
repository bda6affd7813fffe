--------------------------- MODULE MCRunExecution ---------------------------
(* Instances of RunExecution with one run.                                 *)
EXTENDS RunExecution, TLC

Symmetry == Permutations(ToolCalls) \cup Permutations(Deciders)
=============================================================================
