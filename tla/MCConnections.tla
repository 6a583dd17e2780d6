---------------------------- MODULE MCConnections ----------------------------
(* Connections for TLC: rows, grants, calls and processes are              *)
(* interchangeable.                                                        *)
EXTENDS Connections, TLC

Interchangeable ==
    Permutations(Rows) \cup Permutations(Grants) \cup Permutations(Calls) \cup Permutations(Processes)
=============================================================================
