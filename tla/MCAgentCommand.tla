---------------------------- MODULE MCAgentCommand ----------------------------
(* AgentCommand on small instances. *)
EXTENDS AgentCommand
===============================================================================
