----------------------------- MODULE MCRestore ------------------------------
(* The instances of Restore are given by the cfg files alone. *)
EXTENDS Restore
=============================================================================
