-------------------------- MODULE MCMissionLifecycle --------------------------
(* Plans of two steps for TLC to execute.                                  *)
EXTENDS MissionLifecycle

CONSTANTS first, second

NoDeps == [t \in Tasks |-> {}]
Chain  == [t \in Tasks |-> IF t = second THEN {first} ELSE {}]
=============================================================================
