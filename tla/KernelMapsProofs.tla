--------------------------- MODULE KernelMapsProofs ---------------------------
(***************************************************************************)
(* restore_kernel_maps for any number of kernel mappings, of any sizes and *)
(* at any addresses, in whatever order the header lists them.              *)
(*                                                                         *)
(* The inductive invariant MapsInv says, beside TypeOK, what the first     *)
(* loop has learnt of the mappings it has passed (ExaminedOK), and that    *)
(* the second one has put the mappings before the index in place while the *)
(* others still lie, whole, within the child's old range (MovingOK): as    *)
(* that range and the wanted one are apart, no move can hit another.       *)
(***************************************************************************)
EXTENDS KernelMaps, FiniteSetTheorems, TLAPS

(* n lies within the range of the child's mappings, as the first loop found *)
(* it, or of the wanted ones.                                               *)
InOldRange(n) == low.child <= child[n].start /\ child[n].start + child[n].size <= high.child
InNewRange(n) == low.wanted <= wanted[n].start /\ wanted[n].start + wanted[n].size <= high.wanted

SameSize(n) == child[n].size = wanted[n].size

LayoutOK ==
    /\ \A n \in Names : /\ wanted[n].start + wanted[n].size <= MaxPage + 1
                        /\ child[n] \in Mapping
                        /\ child[n].start + child[n].size <= MaxPage + 1
    /\ \A m, n \in Names : m # n => \/ wanted[m].start + wanted[m].size <= wanted[n].start
                                    \/ wanted[n].start + wanted[n].size <= wanted[m].start

ExaminedOK ==
    pc = "examining" =>
        \A a \in Slots : a < i =>
            SameSize(Order[a]) /\ InOldRange(Order[a]) /\ InNewRange(Order[a])

MovingOK ==
    /\ pc = "moving" =>
         /\ ~Overlap
         /\ \A a \in Slots : /\ InNewRange(Order[a])
                             /\ a < i => child[Order[a]] = wanted[Order[a]]
                             /\ a >= i => SameSize(Order[a]) /\ InOldRange(Order[a])
    /\ pc = "ok" => child = wanted

MapsInv == TypeOK /\ LayoutOK /\ ExaminedOK /\ MovingOK

-------------------------------------------------------------------------------

(* The header names finitely many mappings (restorer.c:257), each of them  *)
(* once.                                                                   *)
LEMMA CountIsNat == Cardinality(Names) \in Nat
BY OrderAssumption, FS_CardinalityType

(* Hence the two loops (restorer.c:737, 777) leave none out.               *)
LEMMA OrderCovers == \A n \in Names : \E a \in Slots : Order[a] = n
<1>1. IsFiniteSet(Slots) /\ Cardinality(Slots) = Cardinality(Names)
  BY CountIsNat, FS_Interval DEF Slots
<1>2. Order \in Injection(Slots, Names)
  BY OrderAssumption DEF Injection, IsInjective
<1>3. Order \in Surjection(Slots, Names)
  BY <1>1, <1>2, OrderAssumption, FS_Injection
<1>4. QED
  BY <1>3 DEF Surjection

(* A layout is what it was meant to be: within the address space, and no   *)
(* mapping on top of another.                                              *)
LEMMA LayoutIsSound ==
    ASSUME NEW maps \in Layouts
    PROVE  /\ maps \in [Names -> Mapping]
           /\ \A n \in Names : maps[n].start + maps[n].size <= MaxPage + 1
           /\ \A m, n \in Names : m # n => \/ maps[m].start + maps[m].size <= maps[n].start
                                           \/ maps[n].start + maps[n].size <= maps[m].start
<1>1. maps \in [Names -> Mapping] /\ Disjoint(maps)
      /\ \A n \in Names : PagesOf(maps[n]) \subseteq Pages
  BY DEF Layouts
<1>2. ASSUME NEW n \in Names
      PROVE  maps[n].start \in Nat /\ maps[n].size \in Nat \ {0}
  BY <1>1, SizeAssumption DEF Mapping, Pages
<1>3. ASSUME NEW n \in Names
      PROVE  maps[n].start + maps[n].size <= MaxPage + 1
  <2>1. maps[n].start + maps[n].size - 1 \in PagesOf(maps[n])
    BY <1>2 DEF PagesOf
  <2>2. maps[n].start + maps[n].size - 1 \in Pages
    BY <1>1, <2>1
  <2>3. QED
    BY <1>2, <2>2, SizeAssumption DEF Pages
<1>4. ASSUME NEW m \in Names, NEW n \in Names, m # n,
             ~(maps[m].start + maps[m].size <= maps[n].start),
             ~(maps[n].start + maps[n].size <= maps[m].start)
      PROVE  FALSE
  <2>1. PagesOf(maps[m]) \cap PagesOf(maps[n]) = {}
    BY <1>1, <1>4 DEF Disjoint
  <2>2. CASE maps[m].start <= maps[n].start
    <3>1. maps[n].start \in PagesOf(maps[m]) \cap PagesOf(maps[n])
      BY <1>2, <1>4, <2>2 DEF PagesOf
    <3>2. QED
      BY <2>1, <3>1
  <2>3. CASE maps[n].start <= maps[m].start
    <3>1. maps[m].start \in PagesOf(maps[m]) \cap PagesOf(maps[n])
      BY <1>2, <1>4, <2>3 DEF PagesOf
    <3>2. QED
      BY <2>1, <3>1
  <2>4. QED
    BY <1>2, <2>2, <2>3
<1>5. QED
  BY <1>1, <1>3, <1>4

(* The loops begin with nothing learnt and nothing moved.                  *)
LEMMA MapsInit == Init => MapsInv
<1> SUFFICES ASSUME Init PROVE MapsInv
  OBVIOUS
<1>1. TypeOK
  <2>1. wanted \in [Names -> Mapping] /\ child \in [Names -> Mapping]
    BY LayoutIsSound DEF Init
  <2>2. child \in [Names -> Mapping \cup {Gone}]
    BY <2>1
  <2>3. QED
    BY <2>1, <2>2, CountIsNat, SizeAssumption DEF Init, TypeOK
<1>2. LayoutOK
  BY LayoutIsSound DEF Init, LayoutOK
<1>3. ExaminedOK /\ MovingOK
  BY CountIsNat DEF Init, ExaminedOK, MovingOK, Slots
<1>4. QED
  BY <1>1, <1>2, <1>3 DEF MapsInv

-------------------------------------------------------------------------------

(* An injected mremap unmaps none of the child's mappings                  *)
(* (restorer.c:791-800): those in place are apart from its destination in  *)
(* the snapshot, the others have not left the old range.                   *)
LEMMA MoveHitsNone ==
    ASSUME TypeOK, LayoutOK, MovingOK, pc = "moving", i \in Slots
    PROVE  Moved(Order[i]) = [child EXCEPT ![Order[i]] = wanted[Order[i]]]
<1> DEFINE n == Order[i]
<1>1. n \in Names /\ i \in Nat
  BY OrderAssumption, CountIsNat DEF Slots
<1>2. ASSUME NEW m \in Names, m # n
      PROVE  PagesOf(child[m]) \cap PagesOf(wanted[n]) = {}
  <2>1. PICK a \in Slots : Order[a] = m
    BY OrderCovers
  <2>2. a # i /\ a \in Nat
    BY <1>2, <2>1, CountIsNat DEF Slots
  <2>3. /\ child[m].start \in Nat /\ child[m].size \in Nat
        /\ wanted[m].start \in Nat /\ wanted[m].size \in Nat
        /\ wanted[n].start \in Nat /\ wanted[n].size \in Nat
    BY <1>1, SizeAssumption DEF LayoutOK, TypeOK, Mapping, Pages
  <2>4. \/ child[m].start + child[m].size <= wanted[n].start
        \/ wanted[n].start + wanted[n].size <= child[m].start
    <3>1. CASE a < i
      BY <1>1, <1>2, <2>1, <3>1 DEF MovingOK, LayoutOK
    <3>2. CASE a > i
      <4>1. InOldRange(m) /\ InNewRange(n) /\ ~Overlap
        BY <2>1, <2>2, <3>2, <1>1 DEF MovingOK
      <4>2. /\ low.child \in Nat /\ low.wanted \in Nat
            /\ high.child \in Nat /\ high.wanted \in Nat
        BY SizeAssumption DEF TypeOK
      <4>3. QED
        BY <2>3, <4>1, <4>2 DEF InOldRange, InNewRange, Overlap
    <3>3. QED
      BY <1>1, <2>2, <3>1, <3>2
  <2>5. QED
    BY <2>3, <2>4 DEF PagesOf
<1>3. QED
  BY <1>1, <1>2 DEF Moved, TypeOK

(* Every step of restore_kernel_maps (restorer.c:724-804) keeps MapsInv.   *)
LEMMA MapsStep == MapsInv /\ [Next]_vars => MapsInv'
<1> SUFFICES ASSUME MapsInv, [Next]_vars PROVE MapsInv'
  OBVIOUS
<1> USE DEF MapsInv
<1>1. CASE UNCHANGED vars
  BY <1>1 DEF vars, TypeOK, LayoutOK, ExaminedOK, MovingOK, InOldRange, InNewRange, SameSize,
              Overlap
<1>2. CASE Examine
  <2> DEFINE n == Order[i]
  <2>1. n \in Names /\ i \in Nat /\ i' = i + 1 /\ pc' = "examining"
        /\ child[n].size = wanted[n].size /\ wanted' = wanted /\ child' = child
    BY <1>2, OrderAssumption, CountIsNat DEF Examine, Slots
  <2>2. /\ child[n].start \in 0 .. MaxPage + 1 /\ child[n].size \in Nat
        /\ wanted[n].start \in 0 .. MaxPage + 1 /\ wanted[n].size \in Nat
        /\ child[n].start + child[n].size \in 0 .. MaxPage + 1
        /\ wanted[n].start + wanted[n].size \in 0 .. MaxPage + 1
    BY <2>1, SizeAssumption DEF TypeOK, LayoutOK, Mapping, Pages
  <2>3. /\ low'  = [child |-> Lower(low.child, child[n].start),
                    wanted |-> Lower(low.wanted, wanted[n].start)]
        /\ high' = [child  |-> Higher(high.child, child[n].start + child[n].size),
                    wanted |-> Higher(high.wanted, wanted[n].start + wanted[n].size)]
    BY <1>2 DEF Examine
  <2>4. /\ low.child \in 0 .. MaxPage + 1 /\ low.wanted \in 0 .. MaxPage + 1
        /\ high.child \in 0 .. MaxPage + 1 /\ high.wanted \in 0 .. MaxPage + 1
    BY DEF TypeOK
  <2>5. /\ low'.child <= low.child /\ low'.child <= child[n].start
        /\ low'.wanted <= low.wanted /\ low'.wanted <= wanted[n].start
        /\ high'.child >= high.child /\ high'.child >= child[n].start + child[n].size
        /\ high'.wanted >= high.wanted /\ high'.wanted >= wanted[n].start + wanted[n].size
        /\ low'.child \in 0 .. MaxPage + 1 /\ low'.wanted \in 0 .. MaxPage + 1
        /\ high'.child \in 0 .. MaxPage + 1 /\ high'.wanted \in 0 .. MaxPage + 1
    BY <2>2, <2>3, <2>4, SizeAssumption DEF Lower, Higher
  <2>6. TypeOK'
    <3>1. low' \in [{"child", "wanted"} -> 0 .. MaxPage + 1]
      BY <2>3, <2>5
    <3>2. high' \in [{"child", "wanted"} -> 0 .. MaxPage + 1]
      BY <2>3, <2>5
    <3>3. i' \in 1 .. Cardinality(Names) + 1
      BY <1>2, <2>1, CountIsNat DEF Examine, Slots
    <3>4. QED
      BY <2>1, <3>1, <3>2, <3>3 DEF TypeOK
  <2>7. LayoutOK'
    BY <2>1 DEF LayoutOK
  <2>8. ExaminedOK'
    <3>1. SUFFICES ASSUME NEW a \in Slots, a < i'
                   PROVE  (SameSize(Order[a]) /\ InOldRange(Order[a]) /\ InNewRange(Order[a]))'
      BY DEF ExaminedOK
    <3>2. a \in Nat /\ Order[a] \in Names
      BY OrderAssumption, CountIsNat DEF Slots
    <3>3. CASE a = i
      BY <2>1, <2>5, <3>3 DEF SameSize, InOldRange, InNewRange
    <3>4. CASE a < i
      <4>1. SameSize(Order[a]) /\ InOldRange(Order[a]) /\ InNewRange(Order[a])
        BY <1>2, <3>4 DEF Examine, ExaminedOK
      <4>2. /\ child[Order[a]].start \in Nat /\ child[Order[a]].size \in Nat
            /\ wanted[Order[a]].start \in Nat /\ wanted[Order[a]].size \in Nat
        BY <3>2, SizeAssumption DEF LayoutOK, TypeOK, Mapping, Pages
      <4>3. QED
        BY <2>1, <2>4, <2>5, <4>1, <4>2, SizeAssumption DEF SameSize, InOldRange, InNewRange
    <3>5. QED
      BY <2>1, <3>1, <3>2, <3>3, <3>4
  <2>9. MovingOK'
    BY <2>1 DEF MovingOK
  <2>10. QED
    BY <2>6, <2>7, <2>8, <2>9
<1>3. CASE SizeDiffers \/ NotFound \/ MremapFails
  BY <1>3 DEF SizeDiffers, NotFound, MremapFails, TypeOK, LayoutOK, ExaminedOK, MovingOK
<1>4. CASE CheckOverlap
  <2>1. i' = 1 /\ UNCHANGED <<wanted, child, low, high>> /\ pc = "examining" /\ i \notin Slots
        /\ pc' = IF Overlap THEN "error" ELSE "moving"
    BY <1>4 DEF CheckOverlap
  <2>2. TypeOK' /\ LayoutOK' /\ ExaminedOK'
    BY <2>1, CountIsNat DEF TypeOK, LayoutOK, ExaminedOK
  <2>3. \A a \in Slots : a < i /\ a \in Nat /\ a >= 1
    BY <2>1, CountIsNat DEF TypeOK, Slots
  <2>4. \A a \in Slots : SameSize(Order[a]) /\ InOldRange(Order[a]) /\ InNewRange(Order[a])
    BY <2>1, <2>3 DEF ExaminedOK
  <2>5. MovingOK'
    BY <2>1, <2>3, <2>4 DEF MovingOK, SameSize, InOldRange, InNewRange, Overlap
  <2>6. QED
    BY <2>2, <2>5
<1>5. CASE MoveNext
  <2> DEFINE n == Order[i]
  <2>1. n \in Names /\ i \in Nat /\ i \in Slots /\ i' = i + 1 /\ pc = "moving" /\ pc' = "moving"
        /\ UNCHANGED <<wanted, low, high>>
    BY <1>5, OrderAssumption, CountIsNat DEF MoveNext, Slots
  <2>2. child' = [child EXCEPT ![n] = wanted[n]]
    <3>1. CASE child[n].start = wanted[n].start
      <4>1. child[n] \in Mapping /\ wanted[n] \in Mapping /\ SameSize(n)
        BY <2>1 DEF MovingOK, LayoutOK, TypeOK
      <4>2. child[n] = wanted[n]
        BY <3>1, <4>1 DEF SameSize, Mapping
      <4>3. QED
        BY <1>5, <2>1, <3>1, <4>2 DEF MoveNext, TypeOK
    <3>2. CASE child[n].start # wanted[n].start
      BY <1>5, <2>1, <3>2, MoveHitsNone DEF MoveNext
    <3>3. QED
      BY <3>1, <3>2
  <2>3. /\ child'[n] = wanted[n]
        /\ \A m \in Names : m # n => child'[m] = child[m]
    BY <2>1, <2>2 DEF TypeOK
  <2>4. TypeOK'
    <3>1. child' \in [Names -> Mapping \cup {Gone}]
      BY <2>1, <2>2 DEF TypeOK
    <3>2. i' \in 1 .. Cardinality(Names) + 1
      BY <2>1, CountIsNat DEF Slots
    <3>3. QED
      BY <2>1, <3>1, <3>2 DEF TypeOK
  <2>5. LayoutOK'
    BY <2>1, <2>3 DEF LayoutOK, TypeOK
  <2>6. ExaminedOK'
    BY <2>1 DEF ExaminedOK
  <2>7. MovingOK'
    <3>1. ASSUME NEW a \in Slots
          PROVE  /\ InNewRange(Order[a])'
                 /\ a < i' => child'[Order[a]] = wanted'[Order[a]]
                 /\ a >= i' => SameSize(Order[a])' /\ InOldRange(Order[a])'
      <4>1. a \in Nat /\ Order[a] \in Names /\ (a # i => Order[a] # n)
        BY <2>1, OrderAssumption, CountIsNat DEF Slots
      <4>2. InNewRange(Order[a])'
        BY <2>1 DEF MovingOK, InNewRange
      <4>3. CASE a < i \/ a = i
        BY <2>1, <2>3, <4>1, <4>2, <4>3 DEF MovingOK
      <4>4. CASE a > i
        BY <2>1, <2>3, <4>1, <4>2, <4>4 DEF MovingOK, SameSize, InOldRange
      <4>5. QED
        BY <2>1, <4>1, <4>3, <4>4
    <3>2. Overlap' = Overlap
      BY <2>1 DEF Overlap
    <3>3. QED
      BY <2>1, <3>1, <3>2 DEF MovingOK
  <2>8. QED
    BY <2>4, <2>5, <2>6, <2>7
<1>6. CASE AllMoved
  <2>1. pc = "moving" /\ i \notin Slots /\ pc' = "ok" /\ UNCHANGED <<wanted, child, i, low, high>>
    BY <1>6 DEF AllMoved
  <2>2. \A a \in Slots : a < i
    BY <2>1, CountIsNat DEF TypeOK, Slots
  <2>3. \A n \in Names : child[n] = wanted[n]
    BY <2>1, <2>2, OrderCovers DEF MovingOK
  <2>4. child = wanted
    BY <2>3 DEF TypeOK
  <2>5. QED
    BY <2>1, <2>4 DEF TypeOK, LayoutOK, ExaminedOK, MovingOK
<1>7. QED
  BY <1>1, <1>2, <1>3, <1>4, <1>5, <1>6 DEF Next

(* restore_kernel_maps keeps MapsInv.                                      *)
THEOREM MapsInvariant == Spec => []MapsInv
BY MapsInit, MapsStep, PTL DEF Spec

(* The loop index, the ranges and the mappings have their types.           *)
THEOREM KernelMapsTypes == Spec => []TypeOK
<1>1. MapsInv => TypeOK
  BY DEF MapsInv
<1>2. QED
  BY <1>1, MapsInvariant, PTL

(* restore_kernel_maps (restorer.c:724-804) puts every kernel mapping,     *)
(* whole, where the dumped process had it, and its overlap test            *)
(* (restorer.c:767-775) is enough for no move to unmap one that waits for  *)
(* its own: for every number, size, place and order of mappings.           *)
THEOREM KernelMapsGetInPlace == Spec => []KernelMapsInPlace
<1>1. MapsInv => KernelMapsInPlace
  BY SizeAssumption DEF MapsInv, LayoutOK, MovingOK, Mapping, Gone, KernelMapsInPlace
<1>2. QED
  BY <1>1, MapsInvariant, PTL

=============================================================================
