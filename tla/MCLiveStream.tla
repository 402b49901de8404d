----------------------------- MODULE MCLiveStream -----------------------------
(* LiveStream on small instances. *)
EXTENDS LiveStream
===============================================================================
