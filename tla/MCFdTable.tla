----------------------------- MODULE MCFdTable ------------------------------
(* Four descriptors above stdio, up to three open files under two paths. *)
EXTENDS FdTable, TLC

CONSTANTS f1, f2, f3, p1, p2

ThreeFiles == {f1, f2, f3}
TwoPaths   == {p1, p2}

Symmetry == Permutations(ThreeFiles) \cup Permutations(TwoPaths)
=============================================================================
