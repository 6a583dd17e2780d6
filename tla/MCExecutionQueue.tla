--------------------------- MODULE MCExecutionQueue ---------------------------
(* ExecutionQueue on small instances.                                      *)
EXTENDS ExecutionQueue, TLC

(* Jobs, missions, workers and callers are only compared for equality.     *)
Symmetry == Permutations(Jobs) \cup Permutations(Works) \cup Permutations(Workers)
            \cup Permutations(Callers)
=============================================================================
