------------------------------- MODULE MCPanel ------------------------------
(* Two folders besides the default one, for two dumps to race for the       *)
(* registry, or for a restore or a deletion to come upon what a dump left.  *)
EXTENDS Panel
=============================================================================
