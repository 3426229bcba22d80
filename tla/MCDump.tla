------------------------------- MODULE MCDump -------------------------------
(* Instances of Dump for TLC: two dumps racing. *)
EXTENDS Dump

CONSTANTS e1, e2, t1, t2, p1

TwoEngines == {e1, e2}
TwoTargets == {t1, t2}
OneTarget  == {t1}
OnePath    == {p1}
None       == {}
=============================================================================
