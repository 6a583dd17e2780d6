-------------------------- MODULE MCExecutionStream --------------------------
(* ExecutionStream for TLC: clocks one tick ahead and behind.              *)
EXTENDS ExecutionStream

AheadAndBehind == {-1, 0}
=============================================================================
