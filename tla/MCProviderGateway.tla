--------------------------- MODULE MCProviderGateway ---------------------------
(* ProviderGateway on small instances. *)
EXTENDS ProviderGateway, TLC

CONSTANTS t1, t2, t3
===============================================================================
