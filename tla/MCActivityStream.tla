---------------------------- MODULE MCActivityStream ----------------------------
(* Instances of ActivityStream for TLC. *)
EXTENDS ActivityStream, TLC
===============================================================================
