----------------------------- MODULE MCSession ------------------------------
(* Two request threads of the panel. *)
EXTENDS Session, TLC

CONSTANTS r1, r2

TwoRequests == {r1, r2}

Symmetry == Permutations(TwoRequests)
=============================================================================
