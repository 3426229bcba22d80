----------------------------- MODULE KernelMaps -----------------------------
(***************************************************************************)
(* restore_kernel_maps of restorer.c: the vdso and its data pages of the   *)
(* fresh child are moved, by injected mremap calls, to the addresses they  *)
(* had in the dumped process.  An address is a page number.                *)
(***************************************************************************)
EXTENDS Integers, FiniteSets

CONSTANTS
    Names,     \* [vvar], [vdso], ...
    Order,     \* the order of kernel_maps[] in the snapshot's header
    MaxPage,   \* pages are 0 .. MaxPage
    MaxSize    \* bound on the size of a mapping, in pages

Pages == 0 .. MaxPage
Slots == 1 .. Cardinality(Names)

ASSUME OrderAssumption == IsFiniteSet(Names) /\ Order \in [Slots -> Names]
                          /\ \A a, b \in Slots : Order[a] = Order[b] => a = b
ASSUME SizeAssumption  == MaxPage \in Nat /\ MaxSize \in Nat \ {0}

VARIABLES
    wanted,   \* kernel_maps[] of the snapshot: start and size of each
    child,    \* the mappings of the child: start and size of each
    pc,       \* examining, checking, moving, ok or error
    i,        \* the loop index
    low,      \* child_lowest and wanted_lowest
    high      \* child_highest and wanted_highest

vars == <<wanted, child, pc, i, low, high>>

Mapping  == [start : Pages, size : 1 .. MaxSize]
Gone     == [start |-> 0, size |-> 0]
PagesOf(m) == m.start .. m.start + m.size - 1

Disjoint(maps) ==
    \A a, b \in Names : a # b => PagesOf(maps[a]) \cap PagesOf(maps[b]) = {}

Layouts == {maps \in [Names -> Mapping] :
              Disjoint(maps) /\ \A n \in Names : PagesOf(maps[n]) \subseteq Pages}

Init ==
    /\ wanted \in Layouts
    /\ child \in Layouts
    /\ pc = "examining" /\ i = 1
    /\ low = [child |-> MaxPage + 1, wanted |-> MaxPage + 1]
    /\ high = [child |-> 0, wanted |-> 0]

Lower(a, b)  == IF b < a THEN b ELSE a
Higher(a, b) == IF b > a THEN b ELSE a

(* First loop: find each mapping, compare sizes, take the bounding ranges. *)
Mut_Examine ==
    LET c == child[Order[i]] w == wanted[Order[i]] IN
    /\ pc = "examining" /\ i \in Slots
    /\ c.size = w.size
    /\ low'  = [child |-> Lower(low.child, c.start), wanted |-> Lower(low.wanted, w.start)]
    /\ high' = [child  |-> Higher(high.child, c.start + c.size + 1),
                wanted |-> Higher(high.wanted, w.start + w.size + 1)]
    /\ i' = i + 1
    /\ UNCHANGED <<wanted, child, pc>>

Examine ==
    LET c == child[Order[i]] w == wanted[Order[i]] IN
    /\ pc = "examining" /\ i \in Slots
    /\ c.size = w.size
    /\ low'  = [child |-> Lower(low.child, c.start), wanted |-> Lower(low.wanted, w.start)]
    /\ high' = [child  |-> Higher(high.child, c.start + c.size),
                wanted |-> Higher(high.wanted, w.start + w.size)]
    /\ i' = i + 1
    /\ UNCHANGED <<wanted, child, pc>>

SizeDiffers ==
    /\ pc = "examining" /\ i \in Slots
    /\ child[Order[i]].size # wanted[Order[i]].size
    /\ pc' = "error"
    /\ UNCHANGED <<wanted, child, i, low, high>>

(* find_named_map fails: the child has no such mapping, or its maps cannot *)
(* be read.                                                                *)
NotFound ==
    /\ pc \in {"examining", "moving"} /\ i \in Slots
    /\ pc' = "error"
    /\ UNCHANGED <<wanted, child, i, low, high>>

Mut_Overlap == FALSE

Overlap == low.child < high.wanted /\ low.wanted < high.child

CheckOverlap ==
    /\ pc = "examining" /\ i \notin Slots
    /\ pc' = IF Overlap THEN "error" ELSE "moving"
    /\ i' = 1
    /\ UNCHANGED <<wanted, child, low, high>>

(* MREMAP_FIXED unmaps whatever sits at the destination. *)
Moved(n) ==
    [m \in Names |->
        IF m = n THEN wanted[n]
        ELSE IF PagesOf(child[m]) \cap PagesOf(wanted[n]) # {} THEN Gone
        ELSE child[m]]

(* Second loop: one injected mremap for each mapping not yet in place. *)
MoveNext ==
    /\ pc = "moving" /\ i \in Slots
    /\ child[Order[i]] # Gone
    /\ IF child[Order[i]].start = wanted[Order[i]].start
       THEN UNCHANGED child
       ELSE child' = Moved(Order[i])
    /\ i' = i + 1
    /\ UNCHANGED <<wanted, pc, low, high>>

MremapFails ==
    /\ pc = "moving" /\ i \in Slots
    /\ child[Order[i]].start # wanted[Order[i]].start
    /\ pc' = "error"
    /\ UNCHANGED <<wanted, child, i, low, high>>

AllMoved ==
    /\ pc = "moving" /\ i \notin Slots
    /\ pc' = "ok"
    /\ UNCHANGED <<wanted, child, i, low, high>>

Next ==
    \/ Examine \/ SizeDiffers \/ NotFound \/ CheckOverlap
    \/ MoveNext \/ MremapFails \/ AllMoved

Spec == Init /\ [][Next]_vars

-----------------------------------------------------------------------------

TypeOK ==
    /\ wanted \in [Names -> Mapping] /\ child \in [Names -> Mapping \cup {Gone}]
    /\ pc \in {"examining", "moving", "ok", "error"}
    /\ i \in 1 .. Cardinality(Names) + 1
    /\ low \in [{"child", "wanted"} -> 0 .. MaxPage + 1]
    /\ high \in [{"child", "wanted"} -> 0 .. MaxPage + 1]

(***************************************************************************)
(* A restore that goes on past restore_kernel_maps (restorer.c:724-804)    *)
(* has every kernel mapping, whole, where the dumped process had it; and   *)
(* no move unmaps one that still waits for its own (restorer.c:767-775),   *)
(* not even in a restore that fails later.                                 *)
(***************************************************************************)
KernelMapsInPlace ==
    /\ \A n \in Names : child[n] # Gone
    /\ pc = "ok" => child = wanted
=============================================================================
