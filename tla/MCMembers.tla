------------------------------ MODULE MCMembers ------------------------------
(* Members for TLC: rows, people and calls are interchangeable.            *)
EXTENDS Members, TLC

Interchangeable == Permutations(Members) \cup Permutations(People) \cup Permutations(Requests)
=============================================================================
