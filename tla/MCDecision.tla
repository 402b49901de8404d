------------------------------ MODULE MCDecision ------------------------------
(* Decision on small instances. *)
EXTENDS Decision, TLC

CONSTANTS r1, r2
RequestSymmetry == Permutations({r1, r2})
===============================================================================
