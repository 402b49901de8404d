---------------------------- MODULE MCConversation ----------------------------
(* Conversation on small instances. *)
EXTENDS Conversation
===============================================================================
