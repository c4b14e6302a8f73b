------------------------------- MODULE MCRecheck -------------------------------
(* Instances of Recheck for TLC. *)
EXTENDS Recheck, TLC
===============================================================================
