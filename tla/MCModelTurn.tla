------------------------------ MODULE MCModelTurn ------------------------------
(* ModelTurn on small instances. *)
EXTENDS ModelTurn, TLC

CONSTANTS k1, k2, i1, i2

Symmetry == Permutations(Key) \cup Permutations(Id)
===============================================================================
