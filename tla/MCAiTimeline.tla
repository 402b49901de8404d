---------------------------- MODULE MCAiTimeline ------------------------------
(* AiTimeline on small instances. *)
EXTENDS AiTimeline
===============================================================================
