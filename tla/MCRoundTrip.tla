---------------------------- MODULE MCRoundTrip ----------------------------
(* One dump, cell by cell, of a single-threaded or a threaded target, beside *)
(* one restore of the same file.                                            *)
EXTENDS RoundTrip

CONSTANTS e1, t1, t2, p1, r1

OneEngine    == {e1}
TwoTargets   == {t1, t2}
SecondTarget == {t2}
OnePath      == {p1}
OneReader    == {r1}

(* Bound: a target nobody dumps stays as it is; it meets nothing else. *)
OnlyDumpedMove ==
    \A t \in Targets : (\A e \in Engines : Target(e) # t) =>
        alive[t] /\ mem[t] = [i \in Cells |-> 0]
=============================================================================
