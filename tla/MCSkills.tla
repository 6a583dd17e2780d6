------------------------------- MODULE MCSkills -------------------------------
(* Skills on small instances: one slug that the product ships.             *)
EXTENDS Skills, TLC

Symmetry == Permutations(Ids) \cup Permutations(Editors) \cup Permutations(Steps)
===============================================================================
