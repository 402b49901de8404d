---------------------------- MODULE MCFulfilment ----------------------------
(* Fulfilment on small instances, with symmetric keys, numbers and commands. *)
EXTENDS Fulfilment, TLC

Symmetric == Permutations(Keys) \cup Permutations(InvoiceNos) \cup Permutations(Commands)

=============================================================================
