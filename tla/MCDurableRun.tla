----------------------------- MODULE MCDurableRun -----------------------------
(* DurableRun on small instances. *)
EXTENDS DurableRun

CONSTANTS c1, c2
===============================================================================
