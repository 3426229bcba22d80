----------------------------- MODULE MCConsole ------------------------------
(* One browser with two polls in flight, a book shorter than the output. *)
EXTENDS Console

CONSTANTS p1, p2

TwoPolls == {p1, p2}
=============================================================================
