---------------------------- MODULE FdTableProofs ----------------------------
(***************************************************************************)
(* The descriptor table for any descriptor limit, any open files and any   *)
(* paths.                                                                  *)
(*                                                                         *)
(* The inductive invariant FdTableInv has, beside TypeOK: what the table   *)
(* of the snapshot lists (ListedOK) and which copies it claims (CopiesOK), *)
(* that no two entries claim one open file for themselves, as long as kcmp *)
(* worked (ComparedOK), and how far the child has come with reopening      *)
(* (ReopenedOK).                                                           *)
(***************************************************************************)
EXTENDS FdTable, FiniteSetTheorems, SequenceTheorems, WellFoundedInduction, TLAPS

EntryType == [fd : Numbers, of : Files, dup : Numbers \cup {-1}]

(* The dumpable descriptors, all of them, in ascending order.              *)
ListedOK ==
    /\ i >= 1
    /\ pc \in {"collect", "failed"} => entries = <<>>
    /\ \A k \in 1 .. Len(entries) :
         Dumpable(entries[k].fd) /\ entries[k].of = orig[entries[k].fd]
    /\ \A j, k \in 1 .. Len(entries) : j < k => entries[j].fd < entries[k].fd
    /\ pc \notin {"collect", "failed"} =>
         \A n \in Numbers : Dumpable(n) => \E k \in 1 .. Len(entries) : entries[k].fd = n

(* A copy refers to an earlier entry that is none, on the same open file.  *)
CopiesOK ==
    /\ \A k \in 1 .. Len(entries) : entries[k].dup # -1 =>
         \E j \in 1 .. k - 1 :
             entries[j].dup = -1 /\ entries[j].fd = entries[k].dup /\ entries[j].of = entries[k].of
    /\ pc = "sharing" => \A k \in 1 .. Len(entries) : k >= i => entries[k].dup = -1

(* How many entries have been compared with those before them.             *)
Compared == IF pc = "sharing" THEN i - 1 ELSE Len(entries)

ComparedOK ==
    kcmpOK => \A k \in 1 .. Len(entries) : k <= Compared =>
        \A j \in 1 .. k - 1 :
            entries[j].dup = -1 /\ entries[k].dup = -1 => entries[j].of # entries[k].of

(* What an entry is to become in the child.                                *)
Reopened(e) == [by |-> IF e.dup = -1 THEN e.fd ELSE e.dup, wound |-> TRUE]

AtWork == {"opening", "winding", "moving"}

ReopenedOK ==
    /\ \A n \in Stdio : table[n] = InheritedFile
    /\ pc \in AtWork \cup {"exec"} =>
         /\ \A k \in 1 .. Len(entries) : k < i => table[entries[k].fd] = Reopened(entries[k])
         /\ \A n \in Numbers :
              \/ table[n] = Free
              \/ \E k \in 1 .. Len(entries) : k < i /\ entries[k].fd = n
              \/ pc \in {"winding", "moving"} /\ n = tmp
    /\ pc \in {"winding", "moving"} =>
         /\ i <= Len(entries) /\ Cur.dup = -1
         /\ tmp \in Numbers
         /\ \A k \in 1 .. Len(entries) : k < i => entries[k].fd # tmp
         /\ table[tmp] = [by |-> Cur.fd, wound |-> pc = "moving"]
    /\ pc = "exec" => i > Len(entries)

FdTableInv == TypeOK /\ ListedOK /\ CopiesOK /\ ComparedOK /\ ReopenedOK

-----------------------------------------------------------------------------

(* The lowest free number (Min(FreeNumbers)) and the first entry that      *)
(* matches are there when there are any.                                   *)
LEMMA LeastNumber ==
    ASSUME NEW T \in SUBSET Nat, T # {}
    PROVE  Min(T) \in T /\ \A y \in T : Min(T) <= y
<1> DEFINE less == OpToRel(<, Nat)
<1>1. \E x \in T : \A y \in T : <<y, x>> \notin less
  <2>1. IsWellFoundedOn(less, Nat)
    BY NatLessThanWellFounded
  <2> HIDE DEF less
  <2>2. QED
    BY <2>1, WFMin
<1>2. PICK x \in T : \A y \in T : <<y, x>> \notin less
  BY <1>1
<1>3. ASSUME NEW y \in T
      PROVE  x <= y
  <2>1. y \in Nat /\ x \in Nat
    OBVIOUS
  <2>2. <<y, x>> \notin less
    BY <1>2
  <2>3. ~(y < x)
    BY <2>1, <2>2 DEF OpToRel
  <2> HIDE DEF less
  <2>4. QED
    BY <2>1, <2>3
<1>4. QED
  BY <1>3 DEF Min

(* The comparison of one entry with those before it (dumper.c:483-520)     *)
(* marks it as a copy of one that is none, or finds no such entry.         *)
LEMMA FindSharedDoes ==
    ASSUME TypeOK, ListedOK, FindShared
    PROVE  /\ pc = "sharing" /\ i \in 1 .. Len(entries) /\ i' = i + 1
           /\ UNCHANGED <<orig, name, pc, kcmpOK, table, tmp>>
           /\ entries' \in Seq(EntryType) /\ Len(entries') = Len(entries)
           /\ \A k \in 1 .. Len(entries) : k # i => entries'[k] = entries[k]
           /\ entries'[i].fd = entries[i].fd /\ entries'[i].of = entries[i].of
           /\ \/ /\ entries'[i].dup = entries[i].dup
                 /\ \A j \in 1 .. i - 1 : entries[j].dup = -1 => entries[j].of # entries[i].of
              \/ \E j \in 1 .. i - 1 :
                   /\ entries[j].dup = -1 /\ entries[j].of = entries[i].of
                   /\ entries'[i].dup = entries[j].fd
<1> DEFINE shared == {j \in Candidates : SameFile(entries[j], entries[i])}
<1>1. /\ pc = "sharing" /\ i \in 1 .. Len(entries) /\ i' = i + 1 /\ Len(entries) \in Nat
      /\ UNCHANGED <<orig, name, pc, kcmpOK, table, tmp>>
      /\ entries \in Seq(EntryType)
  BY DEF FindShared, TypeOK, ListedOK, EntryType
<1>2. entries' = IF shared = {} THEN entries
                 ELSE [entries EXCEPT ![i].dup = entries[Min(shared)].fd]
  BY DEF FindShared
<1>3. \A j \in 1 .. i - 1 : j \in Nat /\ j \in 1 .. Len(entries) /\ entries[j] \in EntryType
  BY <1>1
<1>4. \A j : j \in shared <=> /\ j \in 1 .. i - 1 /\ entries[j].dup = -1
                              /\ entries[j].of = entries[i].of
  BY DEF Candidates, SameFile, SamePath
<1>5. CASE shared = {}
  <2>1. \A j \in 1 .. i - 1 : entries[j].dup = -1 => entries[j].of # entries[i].of
    BY <1>4, <1>5
  <2>2. entries' = entries
    BY <1>2, <1>5
  <2>3. QED
    BY <1>1, <2>1, <2>2
<1>6. CASE shared # {}
  <2>1. shared \in SUBSET Nat
    BY <1>3, <1>4
  <2> HIDE DEF shared
  <2>2. PICK j \in shared : j = Min(shared)
    BY <1>6, <2>1, LeastNumber
  <2>3. j \in 1 .. i - 1 /\ entries[j].dup = -1 /\ entries[j].of = entries[i].of
    BY <1>4, <2>2
  <2>4. entries[j].fd \in Numbers
    BY <1>3, <2>3 DEF EntryType
  <2>5. entries' = [entries EXCEPT ![i] = [entries[i] EXCEPT !.dup = entries[j].fd]]
    BY <1>2, <1>6, <2>2
  <2>6. entries[i] \in EntryType
    BY <1>1
  <2>7. [entries[i] EXCEPT !.dup = entries[j].fd] \in EntryType
    BY <2>4, <2>6 DEF EntryType
  <2>8. entries'[i] = [entries[i] EXCEPT !.dup = entries[j].fd]
    BY <1>1, <2>5
  <2>9. entries'[i].fd = entries[i].fd /\ entries'[i].of = entries[i].of
        /\ entries'[i].dup = entries[j].fd
    BY <2>6, <2>8 DEF EntryType
  <2>10. /\ entries' \in Seq(EntryType) /\ Len(entries') = Len(entries)
         /\ \A k \in 1 .. Len(entries) : k # i => entries'[k] = entries[k]
    BY <1>1, <2>5, <2>7
  <2>11. QED
    BY <1>1, <2>3, <2>9, <2>10
<1>7. QED
  BY <1>5, <1>6

(* collect_fds (dumper.c:420-456) lists the dumpable descriptors, sorted.  *)
LEMMA CollectFdsDoes ==
    ASSUME TypeOK, CollectFds, pc' = "sharing"
    PROVE  /\ entries' \in Seq(EntryType)
           /\ \A k \in 1 .. Len(entries') :
                /\ Dumpable(entries'[k].fd) /\ entries'[k].of = orig[entries'[k].fd]
                /\ entries'[k].dup = -1
           /\ \A j, k \in 1 .. Len(entries') : j < k => entries'[j].fd < entries'[k].fd
           /\ \A n \in Numbers : Dumpable(n) => \E k \in 1 .. Len(entries') : entries'[k].fd = n
<1> DEFINE S == {n \in Numbers : Dumpable(n)}
<1>1. Cardinality(S) \in Nat
  <2>1. IsFiniteSet(Numbers)
    BY NumbersAssumption, FS_Interval DEF Numbers
  <2>2. IsFiniteSet(S)
    BY <2>1, FS_Subset
  <2>3. QED
    BY <2>2, FS_CardinalityType
<1>2. PICK fds \in Sorted(S) : entries' = [k \in DOMAIN fds |-> Entry(fds[k])]
  BY DEF CollectFds
<1>3. /\ fds \in [1 .. Cardinality(S) -> S] /\ DOMAIN fds = 1 .. Cardinality(S)
      /\ \A n \in S : \E k \in DOMAIN fds : fds[k] = n
      /\ \A j, k \in DOMAIN fds : j < k => fds[j] < fds[k]
  BY DEF Sorted
<1>4. ASSUME NEW k \in 1 .. Cardinality(S)
      PROVE  /\ fds[k] \in Numbers /\ Dumpable(fds[k])
             /\ Entry(fds[k]) \in EntryType
             /\ Entry(fds[k]).fd = fds[k] /\ Entry(fds[k]).of = orig[fds[k]]
             /\ Entry(fds[k]).dup = -1
  <2>1. fds[k] \in S
    BY <1>3
  <2>2. fds[k] \in Numbers /\ Dumpable(fds[k])
    BY <2>1
  <2>3. orig[fds[k]] \in Files
    BY <2>2 DEF TypeOK, Dumpable
  <2>4. QED
    BY <2>2, <2>3 DEF Entry, EntryType
<1>5. entries' \in Seq(EntryType) /\ Len(entries') = Cardinality(S)
      /\ \A k \in 1 .. Cardinality(S) : entries'[k] = Entry(fds[k])
  <2>1. entries' = [k \in 1 .. Cardinality(S) |-> Entry(fds[k])]
    BY <1>2, <1>3
  <2>2. \A k \in 1 .. Cardinality(S) : Entry(fds[k]) \in EntryType
    BY <1>4
  <2> HIDE DEF S
  <2>3. QED
    BY <1>1, <2>1, <2>2
<1>6. \A n \in Numbers : Dumpable(n) => \E k \in 1 .. Cardinality(S) : fds[k] = n
  BY <1>3
<1>7. \A j, k \in 1 .. Cardinality(S) : j < k => fds[j] < fds[k]
  BY <1>3
<1> HIDE DEF S
<1>8. \A k \in 1 .. Len(entries') :
        /\ entries'[k].fd = fds[k] /\ entries'[k].of = orig[fds[k]] /\ entries'[k].dup = -1
        /\ Dumpable(fds[k])
  BY <1>4, <1>5
<1>9. QED
  BY <1>5, <1>6, <1>7, <1>8

(* Entries of the table (dump_format.h) have numbers above stdio.          *)
LEMMA EntriesAre ==
    ASSUME TypeOK
    PROVE  \A k \in 1 .. Len(entries) :
             /\ entries[k] \in EntryType
             /\ entries[k].fd \in Numbers /\ entries[k].fd # -1
<1>1. entries \in Seq(EntryType)
  BY DEF TypeOK, EntryType
<1>2. \A k \in 1 .. Len(entries) : entries[k] \in EntryType
  BY <1>1
<1>3. \A e \in EntryType : e.fd \in Numbers
  BY DEF EntryType
<1>4. -1 \notin Numbers
  BY DEF Numbers
<1>5. QED
  BY <1>2, <1>3, <1>4

(* The entry the child is at (restorer.c:814-818) is one of the table.     *)
LEMMA CurIs ==
    ASSUME TypeOK, ListedOK, i <= Len(entries)
    PROVE  /\ i \in 1 .. Len(entries) /\ Len(entries) \in Nat /\ i \in Nat
           /\ Cur.fd \in Numbers /\ Cur.of \in Files /\ Cur.dup \in Numbers \cup {-1}
           /\ \A k \in 1 .. Len(entries) : entries[k].fd \in Numbers
           /\ \A k \in 1 .. Len(entries) : k < i => entries[k].fd # Cur.fd
<1>1. entries \in Seq(EntryType) /\ Len(entries) \in Nat /\ i \in Nat /\ i \in 1 .. Len(entries)
  BY DEF TypeOK, ListedOK, EntryType
<1>2. \A k \in 1 .. Len(entries) : entries[k] \in EntryType
  BY <1>1
<1>3. \A k \in 1 .. Len(entries) : entries[k].fd \in Numbers
  BY <1>2 DEF EntryType
<1>4. \A k \in 1 .. Len(entries) : k < i => entries[k].fd < Cur.fd
  BY <1>1 DEF ListedOK, Cur
<1>5. \A n \in Numbers : n \in Int /\ ~(n < n)
  BY NumbersAssumption DEF Numbers
<1>6. Cur.fd \in Numbers /\ Cur.of \in Files /\ Cur.dup \in Numbers \cup {-1}
  BY <1>1, <1>2 DEF EntryType, Cur
<1>7. QED
  BY <1>1, <1>3, <1>4, <1>5, <1>6

(* The records of an open number, none of which is Free.                   *)
FileType == [by : Numbers \cup {-1}, wound : BOOLEAN]

LEMMA OpenIsNotFree ==
    /\ \A f \in FileType : f # Free
    /\ InheritedFile \in FileType
    /\ \A n \in Numbers, w \in BOOLEAN : [by |-> n, wound |-> w] \in FileType
BY FreeAssumption DEF FileType, InheritedFile

(* What an entry becomes (restorer.c:820-865) is an open file.             *)
LEMMA ReopenedIs ==
    ASSUME NEW e \in EntryType
    PROVE  /\ Reopened(e) # Free /\ Reopened(e).wound
           /\ e.dup = -1 => Reopened(e).by = e.fd
           /\ e.dup # -1 => Reopened(e).by = e.dup
<1>1. (IF e.dup = -1 THEN e.fd ELSE e.dup) \in Numbers
  BY DEF EntryType
<1>2. Reopened(e) \in FileType
  BY <1>1, OpenIsNotFree DEF Reopened
<1>3. Reopened(e) # Free
  BY <1>2, OpenIsNotFree
<1>4. QED
  BY <1>3 DEF Reopened

(* open() of the child returns the lowest free number (restorer.c:838).    *)
LEMMA OpenFileDoes ==
    ASSUME TypeOK, ListedOK, ReopenedOK, OpenFile
    PROVE  /\ tmp' \in Numbers /\ table[tmp'] = Free
           /\ table' = [table EXCEPT ![tmp'] = [by |-> Cur.fd, wound |-> FALSE]]
<1>1. tmp' = Min(FreeNumbers) /\ FreeNumbers # {}
  BY DEF OpenFile
<1>2. FreeNumbers \in SUBSET Nat
  BY NumbersAssumption DEF FreeNumbers, TypeOK, Stdio, Numbers
<1>3. tmp' \in FreeNumbers
  BY <1>1, <1>2, LeastNumber
<1>4. tmp' \in Stdio \cup Numbers /\ table[tmp'] = Free
  BY <1>3 DEF FreeNumbers, TypeOK
<1>5. tmp' \notin Stdio
  BY <1>4, OpenIsNotFree DEF ReopenedOK
<1>6. QED
  BY <1>4, <1>5 DEF OpenFile, Opened

(* lseek (restorer.c:849) and the move to the wanted number (855-862).     *)
LEMMA WindDoes ==
    ASSUME TypeOK, ListedOK, ReopenedOK, Wind
    PROVE  table' = [table EXCEPT ![tmp] = [by |-> Cur.fd, wound |-> TRUE]]
<1>1. table[tmp] = [by |-> Cur.fd, wound |-> FALSE]
  BY DEF Wind, ReopenedOK
<1>2. table' = [table EXCEPT ![tmp] = [table[tmp] EXCEPT !.wound = TRUE]]
  BY DEF Wind
<1>3. table[tmp] \in FileType
  <2>1. Cur.fd \in Numbers
    BY CurIs DEF Wind, ReopenedOK
  <2>2. QED
    BY <1>1, <2>1, OpenIsNotFree
<1> DEFINE f == [table[tmp] EXCEPT !.wound = TRUE]
<1>4. f \in FileType /\ f.by = table[tmp].by /\ f.wound = TRUE
  BY <1>3 DEF FileType
<1>5. table[tmp].by = Cur.fd
  BY <1>1
<1> HIDE DEF f
<1>6. f = [by |-> f.by, wound |-> f.wound]
  BY <1>4 DEF FileType
<1>7. f = [by |-> Cur.fd, wound |-> TRUE]
  BY <1>4, <1>5, <1>6
<1>8. QED
  BY <1>2, <1>7 DEF f

LEMMA MoveDoes ==
    ASSUME TypeOK, ListedOK, ReopenedOK, Move
    PROVE  /\ table' \in [Stdio \cup Numbers -> FileType \cup {Free}]
           /\ table'[Cur.fd] = [by |-> Cur.fd, wound |-> TRUE]
           /\ tmp # Cur.fd => table'[tmp] = Free
           /\ \A n \in Stdio \cup Numbers : n # Cur.fd /\ n # tmp => table'[n] = table[n]
<1>1. /\ i <= Len(entries) /\ tmp \in Numbers /\ table[tmp] = [by |-> Cur.fd, wound |-> TRUE]
      /\ table' = IF tmp = Cur.fd THEN table
                  ELSE [table EXCEPT ![Cur.fd] = table[tmp], ![tmp] = Free]
  BY DEF Move, ReopenedOK
<1>2. Cur.fd \in Numbers
  BY <1>1, CurIs
<1>3. table \in [Stdio \cup Numbers -> FileType \cup {Free}]
  BY DEF TypeOK, FileType
<1>4. [by |-> Cur.fd, wound |-> TRUE] \in FileType
  BY <1>2, OpenIsNotFree
<1>5. CASE tmp = Cur.fd
  BY <1>1, <1>3, <1>5
<1>6. CASE tmp # Cur.fd
  <2>1. table' = [table EXCEPT ![Cur.fd] = [by |-> Cur.fd, wound |-> TRUE], ![tmp] = Free]
    BY <1>1, <1>6
  <2>2. QED
    BY <1>1, <1>2, <1>3, <1>4, <1>6, <2>1
<1>7. QED
  BY <1>5, <1>6

(* dup2 from the earlier number (restorer.c:822-832).                      *)
LEMMA PlaceCopyDoes ==
    ASSUME TypeOK, ListedOK, CopiesOK, ReopenedOK, PlaceCopy
    PROVE  table' = [table EXCEPT ![Cur.fd] = Reopened(Cur)] /\ Cur.dup \in Numbers
<1>1. /\ pc = "opening" /\ i <= Len(entries) /\ Cur.dup # -1
      /\ table' = [table EXCEPT ![Cur.fd] = table[Cur.dup]]
  BY DEF PlaceCopy
<1>2. i \in 1 .. Len(entries) /\ i \in Nat /\ Cur.dup \in Numbers
  BY <1>1, CurIs
<1>3. PICK j \in 1 .. i - 1 : entries[j].dup = -1 /\ entries[j].fd = Cur.dup
  BY <1>1, <1>2 DEF CopiesOK, Cur
<1>4. j \in 1 .. Len(entries) /\ j < i
  BY <1>2
<1>5. table[entries[j].fd] = Reopened(entries[j])
  BY <1>1, <1>4 DEF ReopenedOK, AtWork
<1>6. table[Cur.dup] = Reopened(Cur)
  BY <1>1, <1>3, <1>5 DEF Reopened
<1>7. QED
  BY <1>1, <1>2, <1>6

-----------------------------------------------------------------------------

(* Dump and restore keep the types of the table and of the descriptors.    *)
LEMMA TypeStep ==
    ASSUME TypeOK, ListedOK, CopiesOK, ReopenedOK, [Next]_vars
    PROVE  TypeOK'
<1>1. table \in [Stdio \cup Numbers -> FileType \cup {Free}] /\ i \in Nat /\ i + 1 \in Nat
      /\ entries \in Seq(EntryType)
  BY DEF TypeOK, FileType, EntryType
<1>2. CASE UNCHANGED vars
  BY <1>2 DEF vars, TypeOK
<1>3. CASE CollectFds
  <2>1. pc' = "sharing" => entries' \in Seq(EntryType)
    BY <1>3, CollectFdsDoes
  <2>2. entries' \in Seq(EntryType)
    BY <1>1, <1>3, <2>1 DEF CollectFds
  <2>3. QED
    BY <1>3, <2>2 DEF CollectFds, TypeOK, EntryType
<1>4. CASE FindShared
  BY <1>1, <1>4, FindSharedDoes DEF TypeOK, EntryType
<1>5. CASE KcmpFails \/ FdsDumped \/ ReadFdTable \/ ChildExits \/ AllOpen
  BY <1>5 DEF KcmpFails, FdsDumped, ReadFdTable, ChildExits, AllOpen, TypeOK
<1>6. CASE CloseRange
  <2>1. table' \in [Stdio \cup Numbers -> FileType \cup {Free}]
    BY <1>1, <1>6 DEF CloseRange
  <2>2. QED
    BY <1>6, <2>1 DEF CloseRange, TypeOK, FileType
<1>7. CASE PlaceCopy
  <2>1. table' = [table EXCEPT ![Cur.fd] = Reopened(Cur)] /\ Reopened(Cur) \in FileType
    <3>1. Cur.fd \in Numbers
      BY <1>7, CurIs DEF PlaceCopy
    <3>2. QED
      BY <1>7, <3>1, PlaceCopyDoes, OpenIsNotFree DEF Reopened
  <2>2. table' \in [Stdio \cup Numbers -> FileType \cup {Free}]
    BY <1>1, <2>1
  <2>3. QED
    BY <1>1, <1>7, <2>2 DEF PlaceCopy, TypeOK, FileType
<1>8. CASE OpenFile
  <2>1. [by |-> Cur.fd, wound |-> FALSE] \in FileType
    BY <1>8, CurIs, OpenIsNotFree DEF OpenFile
  <2>2. table' \in [Stdio \cup Numbers -> FileType \cup {Free}] /\ tmp' \in Stdio \cup Numbers
    BY <1>1, <1>8, <2>1, OpenFileDoes
  <2>3. QED
    BY <1>8, <2>2 DEF OpenFile, TypeOK, FileType
<1>9. CASE Wind
  <2>1. [by |-> Cur.fd, wound |-> TRUE] \in FileType
    BY <1>9, CurIs, OpenIsNotFree DEF Wind, ReopenedOK
  <2>2. table' \in [Stdio \cup Numbers -> FileType \cup {Free}]
    BY <1>1, <1>9, <2>1, WindDoes
  <2>3. QED
    BY <1>9, <2>2 DEF Wind, TypeOK, FileType
<1>10. CASE Move
  <2>1. table' \in [Stdio \cup Numbers -> FileType \cup {Free}]
    BY <1>10, MoveDoes
  <2>2. QED
    BY <1>1, <1>10, <2>1 DEF Move, TypeOK, FileType
<1>11. QED
  BY <1>2, <1>3, <1>4, <1>5, <1>6, <1>7, <1>8, <1>9, <1>10 DEF Next

(* Only the dump writes the table, and find_shared_files leaves numbers    *)
(* and files of its entries alone.                                         *)
LEMMA EntriesChange ==
    ASSUME TypeOK, ListedOK, [Next]_vars
    PROVE  /\ UNCHANGED <<orig, name>>
           /\ \/ CollectFds /\ pc' = "sharing" /\ i' = 1 /\ kcmpOK' = kcmpOK
              \/ FindShared
              \/ /\ entries' = entries
                 /\ i' >= 1
                 /\ pc' \in {"collect", "failed"} => pc \in {"collect", "failed"}
                 /\ pc' \notin {"collect", "failed"} => pc \notin {"collect", "failed"}
                 /\ pc' = "sharing" => pc = "sharing" /\ i' = i
                 /\ kcmpOK' => /\ kcmpOK
                               /\ pc = "sharing" /\ pc' # "sharing" => i > Len(entries)
<1>1. i \in Nat /\ i >= 1 /\ i + 1 >= 1
  BY DEF TypeOK, ListedOK
<1>2. CASE UNCHANGED vars
  BY <1>1, <1>2 DEF vars
<1>3. CASE CollectFds
  BY <1>1, <1>3 DEF CollectFds
<1>4. CASE FindShared
  BY <1>4 DEF FindShared
<1>5. CASE KcmpFails \/ FdsDumped \/ ReadFdTable \/ ChildExits \/ AllOpen
  BY <1>1, <1>5 DEF KcmpFails, FdsDumped, ReadFdTable, ChildExits, AllOpen
<1>6. CASE CloseRange \/ PlaceCopy \/ OpenFile \/ Wind \/ Move
  BY <1>1, <1>6 DEF CloseRange, PlaceCopy, OpenFile, Wind, Move
<1>7. QED
  BY <1>2, <1>3, <1>4, <1>5, <1>6 DEF Next

(* So the table lists the dumpable descriptors in ascending order.         *)
LEMMA ListedStep ==
    ASSUME TypeOK, ListedOK, [Next]_vars
    PROVE  ListedOK'
<1>1. orig' = orig /\ name' = name
  BY EntriesChange
<1>2. \A n : Dumpable(n)' <=> Dumpable(n)
  BY <1>1 DEF Dumpable
<1>3. CASE CollectFds /\ pc' = "sharing" /\ i' = 1
  <2>1. /\ \A k \in 1 .. Len(entries') :
             Dumpable(entries'[k].fd) /\ entries'[k].of = orig[entries'[k].fd]
        /\ \A j, k \in 1 .. Len(entries') : j < k => entries'[j].fd < entries'[k].fd
        /\ \A n \in Numbers : Dumpable(n) => \E k \in 1 .. Len(entries') : entries'[k].fd = n
    BY <1>3, CollectFdsDoes
  <2>2. QED
    BY <1>1, <1>2, <1>3, <2>1 DEF ListedOK
<1>4. CASE FindShared
  <2>1. /\ Len(entries') = Len(entries) /\ pc = "sharing" /\ pc' = pc /\ i' >= 1
        /\ i \in 1 .. Len(entries)
        /\ \A k \in 1 .. Len(entries) : k # i => entries'[k] = entries[k]
        /\ entries'[i].fd = entries[i].fd /\ entries'[i].of = entries[i].of
    <3>1. i \in Nat /\ i >= 1
      BY DEF TypeOK, ListedOK
    <3>2. QED
      BY <1>4, <3>1, FindSharedDoes
  <2>2. \A k \in 1 .. Len(entries) :
          entries'[k].fd = entries[k].fd /\ entries'[k].of = entries[k].of
    BY <2>1
  <2>3. QED
    BY <1>1, <1>2, <2>1, <2>2 DEF ListedOK
<1>5. CASE /\ entries' = entries /\ i' >= 1
           /\ pc' \in {"collect", "failed"} => pc \in {"collect", "failed"}
           /\ pc' \notin {"collect", "failed"} => pc \notin {"collect", "failed"}
  BY <1>1, <1>2, <1>5 DEF ListedOK
<1>6. QED
  BY <1>3, <1>4, <1>5, EntriesChange

(* find_shared_files only refers to entries that are no copies, and only   *)
(* once a comparison has succeeded.                                        *)
LEMMA CopiesStep ==
    ASSUME TypeOK, ListedOK, CopiesOK, [Next]_vars
    PROVE  CopiesOK'
<1>1. CASE CollectFds /\ pc' = "sharing"
  <2>1. \A k \in 1 .. Len(entries') : entries'[k].dup = -1
    BY <1>1, CollectFdsDoes
  <2>2. QED
    BY <2>1 DEF CopiesOK
<1>2. CASE FindShared
  <2>1. /\ pc = "sharing" /\ i \in 1 .. Len(entries) /\ Len(entries) \in Nat /\ i' = i + 1
        /\ Len(entries') = Len(entries)
        /\ \A k \in 1 .. Len(entries) : k # i => entries'[k] = entries[k]
        /\ entries'[i].fd = entries[i].fd /\ entries'[i].of = entries[i].of
        /\ \/ entries'[i].dup = entries[i].dup
           \/ \E j \in 1 .. i - 1 :
                /\ entries[j].dup = -1 /\ entries[j].of = entries[i].of
                /\ entries'[i].dup = entries[j].fd
    <3>1. Len(entries) \in Nat
      BY DEF TypeOK
    <3>2. QED
      BY <1>2, <3>1, FindSharedDoes
  <2>2. entries[i].dup = -1 /\ \A k \in 1 .. Len(entries) : k >= i => entries[k].dup = -1
    BY <2>1 DEF CopiesOK
  <2>3. \A k \in 1 .. Len(entries) : k >= i + 1 => entries'[k].dup = -1
    BY <2>1, <2>2
  <2>4. ASSUME NEW k \in 1 .. Len(entries), entries'[k].dup # -1
        PROVE  \E j \in 1 .. k - 1 : /\ entries'[j].dup = -1 /\ entries'[j].fd = entries'[k].dup
                                     /\ entries'[j].of = entries'[k].of
    <3>1. CASE k = i
      <4>1. PICK j \in 1 .. i - 1 : /\ entries[j].dup = -1 /\ entries[j].of = entries[i].of
                                    /\ entries'[i].dup = entries[j].fd
        BY <2>1, <2>2, <2>4, <3>1
      <4>2. j \in 1 .. Len(entries) /\ j # i
        BY <2>1
      <4>3. QED
        BY <2>1, <3>1, <4>1, <4>2
    <3>2. CASE k # i
      <4>1. entries'[k] = entries[k]
        BY <2>1, <3>2
      <4>2. k < i
        BY <2>1, <2>2, <2>4, <3>2, <4>1
      <4>3. PICK j \in 1 .. k - 1 : /\ entries[j].dup = -1 /\ entries[j].fd = entries[k].dup
                                    /\ entries[j].of = entries[k].of
        BY <2>4, <4>1 DEF CopiesOK
      <4>4. j \in 1 .. Len(entries) /\ j # i
        BY <2>1, <4>2
      <4>5. QED
        BY <2>1, <4>1, <4>3, <4>4
    <3>3. QED
      BY <3>1, <3>2
  <2>5. QED
    BY <2>1, <2>3, <2>4 DEF CopiesOK
<1>3. CASE entries' = entries /\ (pc' = "sharing" => pc = "sharing" /\ i' = i)
  BY <1>3 DEF CopiesOK
<1>4. QED
  BY <1>1, <1>2, <1>3, EntriesChange

(* As long as kcmp works, every entry has been compared with those before  *)
(* it, so that no two that are no copies hold the same open file.          *)
LEMMA ComparedStep ==
    ASSUME TypeOK, ListedOK, ComparedOK, [Next]_vars
    PROVE  ComparedOK'
<1>1. i \in Nat /\ i >= 1 /\ Len(entries) \in Nat
  BY DEF TypeOK, ListedOK
<1>2. CASE CollectFds /\ pc' = "sharing" /\ i' = 1
  <2>1. Compared' = 0
    BY <1>2 DEF Compared
  <2>2. QED
    BY <2>1 DEF ComparedOK
<1>3. CASE FindShared
  <2>1. /\ pc = "sharing" /\ pc' = "sharing" /\ i \in 1 .. Len(entries) /\ i' = i + 1
        /\ kcmpOK' = kcmpOK
        /\ Len(entries') = Len(entries)
        /\ \A k \in 1 .. Len(entries) : k # i => entries'[k] = entries[k]
        /\ entries'[i].of = entries[i].of
        /\ \/ entries'[i].dup = entries[i].dup
              /\ \A j \in 1 .. i - 1 : entries[j].dup = -1 => entries[j].of # entries[i].of
           \/ \E j \in 1 .. i - 1 : entries'[i].dup = entries[j].fd
    BY <1>3, FindSharedDoes
  <2>2. \A k \in 1 .. Len(entries) : entries[k].fd # -1
    BY EntriesAre
  <2>3. SUFFICES ASSUME kcmpOK, NEW k \in 1 .. Len(entries), k <= i, NEW j \in 1 .. k - 1,
                        entries'[j].dup = -1, entries'[k].dup = -1
                 PROVE  entries'[j].of # entries'[k].of
    BY <1>1, <2>1 DEF ComparedOK, Compared
  <2>4. j \in 1 .. Len(entries) /\ j # i /\ entries'[j] = entries[j] /\ j < k
    BY <1>1, <2>1, <2>3
  <2>5. CASE k = i
    <3>1. \A l \in 1 .. i - 1 : l \in 1 .. Len(entries)
      BY <1>1, <2>1
    <3>2. QED
      BY <2>1, <2>2, <2>3, <2>4, <2>5, <3>1
  <2>6. CASE k # i
    <3>1. k <= i - 1 /\ entries'[k] = entries[k]
      BY <1>1, <2>1, <2>3, <2>6
    <3>2. QED
      BY <2>1, <2>3, <2>4, <3>1 DEF ComparedOK, Compared
  <2>7. QED
    BY <2>5, <2>6
<1>4. CASE /\ entries' = entries
           /\ pc' = "sharing" => pc = "sharing" /\ i' = i
           /\ kcmpOK' => /\ kcmpOK
                         /\ pc = "sharing" /\ pc' # "sharing" => i > Len(entries)
  BY <1>1, <1>4 DEF ComparedOK, Compared
<1>5. QED
  BY <1>2, <1>3, <1>4, EntriesChange

(* The child has reopened the entries it is through with, and nothing else *)
(* is open but stdio and the number open() has just returned.              *)
LEMMA ReopenedStep ==
    ASSUME TypeOK, ListedOK, CopiesOK, ReopenedOK, [Next]_vars
    PROVE  ReopenedOK'
<1> USE DEF AtWork
<1>1. /\ table \in [Stdio \cup Numbers -> FileType \cup {Free}]
      /\ i \in Nat /\ Len(entries) \in Nat
      /\ \A n \in Stdio : n \notin Numbers
  BY NumbersAssumption DEF TypeOK, FileType, Stdio, Numbers
<1>2. CASE UNCHANGED vars
  BY <1>2 DEF vars, ReopenedOK, Cur
<1>3. CASE CollectFds \/ FindShared \/ KcmpFails \/ FdsDumped \/ ReadFdTable
  BY <1>3 DEF CollectFds, FindShared, KcmpFails, FdsDumped, ReadFdTable, ReopenedOK
<1>4. CASE CloseRange
  BY <1>1, <1>4 DEF CloseRange, ReopenedOK
<1>5. CASE PlaceCopy
  <2>1. /\ pc = "opening" /\ pc' = pc /\ i <= Len(entries) /\ i' = i + 1
        /\ UNCHANGED <<entries, tmp>>
        /\ table' = [table EXCEPT ![Cur.fd] = Reopened(Cur)]
    BY <1>5, PlaceCopyDoes DEF PlaceCopy
  <2>2. /\ Cur.fd \in Numbers /\ i \in 1 .. Len(entries) /\ Cur = entries[i]
        /\ \A k \in 1 .. Len(entries) : k < i => entries[k].fd # Cur.fd
        /\ \A k \in 1 .. Len(entries) : entries[k].fd \in Numbers
    BY <2>1, CurIs DEF Cur
  <2>3. table'[Cur.fd] = Reopened(Cur)
        /\ \A n \in Stdio \cup Numbers : n # Cur.fd => table'[n] = table[n]
    BY <1>1, <2>1, <2>2
  <2>4. \A k \in 1 .. Len(entries) : k < i' => k < i \/ k = i
    BY <1>1, <2>1
  <2>5. \A k \in 1 .. Len(entries) : k < i' => table'[entries[k].fd] = Reopened(entries[k])
    BY <2>1, <2>2, <2>3, <2>4 DEF ReopenedOK
  <2>6. \A n \in Numbers : table'[n] = Free \/ \E k \in 1 .. Len(entries) : k < i' /\ entries[k].fd = n
    BY <1>1, <2>1, <2>2, <2>3 DEF ReopenedOK
  <2>7. QED
    BY <1>1, <2>1, <2>2, <2>3, <2>5, <2>6 DEF ReopenedOK
<1>6. CASE OpenFile
  <2>1. /\ pc = "opening" /\ pc' = "winding" /\ i <= Len(entries) /\ Cur.dup = -1
        /\ UNCHANGED <<entries, i>>
        /\ tmp' \in Numbers /\ table[tmp'] = Free
        /\ table' = [table EXCEPT ![tmp'] = [by |-> Cur.fd, wound |-> FALSE]]
    BY <1>6, OpenFileDoes DEF OpenFile
  <2>2. table'[tmp'] = [by |-> Cur.fd, wound |-> FALSE]
        /\ \A n \in Stdio \cup Numbers : n # tmp' => table'[n] = table[n]
    BY <1>1, <2>1
  <2>3. \A k \in 1 .. Len(entries) : entries[k].fd \in Numbers /\ Reopened(entries[k]) # Free
    <3>1. \A k \in 1 .. Len(entries) : entries[k] \in EntryType
      BY EntriesAre
    <3>2. QED
      BY <3>1, OpenIsNotFree DEF EntryType, Reopened
  <2>4. \A k \in 1 .. Len(entries) : k < i => entries[k].fd # tmp'
    BY <2>1, <2>3 DEF ReopenedOK
  <2>5. Cur' = Cur
    BY <2>1 DEF Cur
  <2>6. \A n \in Stdio : table'[n] = InheritedFile
    BY <1>1, <2>1, <2>2 DEF ReopenedOK
  <2>7. /\ \A k \in 1 .. Len(entries) : k < i => table'[entries[k].fd] = Reopened(entries[k])
        /\ \A n \in Numbers : \/ table'[n] = Free
                              \/ \E k \in 1 .. Len(entries) : k < i /\ entries[k].fd = n
                              \/ n = tmp'
    BY <1>1, <2>1, <2>2, <2>3, <2>4 DEF ReopenedOK
  <2>8. QED
    BY <2>1, <2>2, <2>4, <2>5, <2>6, <2>7 DEF ReopenedOK
<1>7. CASE Wind
  <2>1. /\ pc = "winding" /\ pc' = "moving" /\ UNCHANGED <<entries, i, tmp>>
        /\ tmp \in Numbers
        /\ table' = [table EXCEPT ![tmp] = [by |-> Cur.fd, wound |-> TRUE]]
    BY <1>7, WindDoes DEF Wind, ReopenedOK
  <2>2. table'[tmp] = [by |-> Cur.fd, wound |-> TRUE]
        /\ \A n \in Stdio \cup Numbers : n # tmp => table'[n] = table[n]
    BY <1>1, <2>1
  <2>3. \A k \in 1 .. Len(entries) : entries[k].fd \in Numbers
    BY EntriesAre
  <2>4. Cur' = Cur
    BY <2>1 DEF Cur
  <2>5. QED
    BY <1>1, <2>1, <2>2, <2>3, <2>4 DEF ReopenedOK
<1>8. CASE Move
  <2>1. /\ pc = "moving" /\ pc' = "opening" /\ i' = i + 1 /\ UNCHANGED <<entries, tmp>>
        /\ i <= Len(entries) /\ Cur.dup = -1 /\ tmp \in Numbers
        /\ \A k \in 1 .. Len(entries) : k < i => entries[k].fd # tmp
    BY <1>8 DEF Move, ReopenedOK
  <2>2. /\ table'[Cur.fd] = [by |-> Cur.fd, wound |-> TRUE]
        /\ tmp # Cur.fd => table'[tmp] = Free
        /\ \A n \in Stdio \cup Numbers : n # Cur.fd /\ n # tmp => table'[n] = table[n]
    BY <1>8, MoveDoes
  <2>3. /\ Cur.fd \in Numbers /\ i \in 1 .. Len(entries) /\ Cur = entries[i]
        /\ \A k \in 1 .. Len(entries) : k < i => entries[k].fd # Cur.fd
        /\ \A k \in 1 .. Len(entries) : entries[k].fd \in Numbers
    BY <2>1, CurIs DEF Cur
  <2>4. \A k \in 1 .. Len(entries) : k < i' => k < i \/ k = i
    BY <1>1, <2>1
  <2>5. table'[Cur.fd] = Reopened(Cur)
    BY <2>1, <2>2 DEF Reopened
  <2>6. \A k \in 1 .. Len(entries) : k < i' => table'[entries[k].fd] = Reopened(entries[k])
    BY <2>1, <2>2, <2>3, <2>4, <2>5 DEF ReopenedOK
  <2>7. \A n \in Numbers : table'[n] = Free \/ \E k \in 1 .. Len(entries) : k < i' /\ entries[k].fd = n
    BY <1>1, <2>1, <2>2, <2>3 DEF ReopenedOK
  <2>8. QED
    BY <1>1, <2>1, <2>2, <2>3, <2>6, <2>7 DEF ReopenedOK
<1>9. CASE ChildExits
  BY <1>9 DEF ChildExits, ReopenedOK
<1>10. CASE AllOpen
  BY <1>10 DEF AllOpen, ReopenedOK
<1>11. QED
  BY <1>2, <1>3, <1>4, <1>5, <1>6, <1>7, <1>8, <1>9, <1>10 DEF Next

-----------------------------------------------------------------------------

(* Whatever is open in the dumped process and in the engine at first.      *)
LEMMA FdTableInit == Init => FdTableInv
<1> SUFFICES ASSUME Init PROVE FdTableInv
  OBVIOUS
<1>1. TypeOK
  <2>1. table \in [Stdio \cup Numbers -> FileType \cup {Free}]
    BY OpenIsNotFree DEF Init
  <2>2. tmp \in Stdio \cup Numbers
    BY DEF Init, Stdio
  <2>3. QED
    BY <2>1, <2>2 DEF Init, TypeOK, FileType
<1>2. ListedOK /\ CopiesOK /\ ComparedOK
  BY DEF Init, ListedOK, CopiesOK, ComparedOK
<1>3. ReopenedOK
  BY DEF Init, ReopenedOK, AtWork
<1>4. QED
  BY <1>1, <1>2, <1>3 DEF FdTableInv

(* Dump and restore of the descriptors keep the inductive invariant.       *)
THEOREM FdTableInvariant == Spec => []FdTableInv
<1>1. FdTableInv /\ [Next]_vars => FdTableInv'
  BY TypeStep, ListedStep, CopiesStep, ComparedStep, ReopenedStep DEF FdTableInv
<1>2. QED
  BY <1>1, FdTableInit, PTL DEF Spec

(* TypeOK of the model of the descriptor table.                            *)
THEOREM FdTableTypes == Spec => []TypeOK
<1>1. FdTableInv => TypeOK
  BY DEF FdTableInv
<1>2. QED
  BY <1>1, FdTableInvariant, PTL

(* read_fd_table (restorer.c:433-459) refuses no table a dump has written. *)
LEMMA NoneRefused == FdTableInv => Accepted
<1> SUFFICES ASSUME FdTableInv, NEW k \in 1 .. Len(entries)
             PROVE  /\ entries[k].fd > 2
                    /\ k > 1 => entries[k].fd > entries[k - 1].fd
                    /\ entries[k].dup = -1 \/ \E j \in 1 .. k - 1 : entries[j].fd = entries[k].dup
  BY DEF Accepted
<1>1. \A l \in 1 .. Len(entries) : entries[l].fd \in Numbers
  BY EntriesAre DEF FdTableInv
<1>2. \A n \in Numbers : n \in Nat /\ n > 2
  BY NumbersAssumption DEF Numbers
<1>3. ASSUME k > 1
      PROVE  entries[k].fd > entries[k - 1].fd
  <2>1. k - 1 \in 1 .. Len(entries) /\ k - 1 < k
    BY <1>3 DEF FdTableInv, TypeOK
  <2>2. entries[k - 1].fd < entries[k].fd
    BY <2>1 DEF FdTableInv, ListedOK
  <2>3. QED
    BY <1>1, <1>2, <2>1, <2>2
<1>4. entries[k].dup = -1 \/ \E j \in 1 .. k - 1 : entries[j].fd = entries[k].dup
  BY DEF FdTableInv, CopiesOK
<1>5. QED
  BY <1>1, <1>2, <1>3, <1>4

(* What a dump writes, the restore accepts, also when kcmp gave up halfway *)
(* (dumper.c:497-503, restorer.c:433-459).                                 *)
THEOREM NothingIsRefused == Spec => []DumpedIsAccepted
<1> DEFINE Good == FdTableInv /\ DumpedIsAccepted
<1>1. Init => Good
  BY FdTableInit DEF Init, DumpedIsAccepted
<1>2. Good /\ [Next]_vars => Good'
  <2>1. SUFFICES ASSUME FdTableInv, pc # "refused", [Next]_vars
                 PROVE  pc' # "refused"
    BY TypeStep, ListedStep, CopiesStep, ComparedStep, ReopenedStep
    DEF FdTableInv, DumpedIsAccepted
  <2>2. Accepted
    BY <2>1, NoneRefused
  <2>3. CASE ReadFdTable
    BY <2>2, <2>3 DEF ReadFdTable
  <2>4. CASE CollectFds \/ FindShared \/ KcmpFails \/ FdsDumped \/ CloseRange \/ PlaceCopy
    BY <2>1, <2>4 DEF CollectFds, FindShared, KcmpFails, FdsDumped, CloseRange, PlaceCopy
  <2>5. CASE OpenFile \/ Wind \/ Move \/ ChildExits \/ AllOpen
    BY <2>1, <2>5 DEF OpenFile, Wind, Move, ChildExits, AllOpen
  <2>6. QED
    BY <2>1, <2>3, <2>4, <2>5 DEF Next, vars
<1>3. Good => DumpedIsAccepted
  OBVIOUS
<1>4. QED
  BY <1>1, <1>2, <1>3, PTL DEF Spec

(* The number a file is wanted on is itself free when open() is called     *)
(* (restorer.c:838), so that none above it is ever needed.                 *)
THEOREM ThereIsANumber == Spec => []NumberToSpare
<1>1. FdTableInv => NumberToSpare
  <2>1. SUFFICES ASSUME FdTableInv, pc = "opening", i <= Len(entries)
                 PROVE  \E n \in FreeNumbers : n <= Cur.fd
    BY DEF NumberToSpare
  <2>2. /\ Cur.fd \in Numbers
        /\ \A k \in 1 .. Len(entries) : k < i => entries[k].fd # Cur.fd
    BY <2>1, CurIs DEF FdTableInv
  <2>3. table[Cur.fd] = Free
    BY <2>1, <2>2 DEF FdTableInv, ReopenedOK, AtWork
  <2>4. Cur.fd \in FreeNumbers
    <3>1. DOMAIN table = Stdio \cup Numbers
      BY <2>1 DEF FdTableInv, TypeOK
    <3>2. QED
      BY <2>2, <2>3, <3>1 DEF FreeNumbers
  <2>5. Cur.fd <= Cur.fd
    BY <2>2, NumbersAssumption DEF Numbers
  <2>6. QED
    BY <2>4, <2>5
<1>2. QED
  BY <1>1, FdTableInvariant, PTL

(* Where a descriptor of the program that wakes up comes from: an entry    *)
(* that is no copy, on the open file the descriptor had.                   *)
LEMMA ComesFrom ==
    ASSUME FdTableInv, pc = "exec", NEW n \in Numbers, Dumpable(n)
    PROVE  /\ table[n] # Free /\ table[n].wound
           /\ \E j \in 1 .. Len(entries) :
                /\ entries[j].dup = -1 /\ entries[j].of = orig[n]
                /\ table[n].by = entries[j].fd
<1>1. PICK k \in 1 .. Len(entries) : entries[k].fd = n
  BY DEF FdTableInv, ListedOK
<1>2. Len(entries) \in Nat /\ i \in Nat /\ k < i
  BY DEF FdTableInv, TypeOK, ReopenedOK
<1>3. table[n] = Reopened(entries[k]) /\ entries[k].of = orig[n]
  BY <1>1, <1>2 DEF FdTableInv, ReopenedOK, ListedOK
<1>4. entries[k] \in EntryType
  BY EntriesAre DEF FdTableInv
<1>5. table[n] # Free /\ table[n].wound
  BY <1>3, <1>4, ReopenedIs
<1>6. CASE entries[k].dup = -1
  BY <1>3, <1>4, <1>5, <1>6, ReopenedIs
<1>7. CASE entries[k].dup # -1
  <2>1. PICK j \in 1 .. k - 1 : /\ entries[j].dup = -1 /\ entries[j].fd = entries[k].dup
                                /\ entries[j].of = entries[k].of
    BY <1>7 DEF FdTableInv, CopiesOK
  <2>2. j \in 1 .. Len(entries)
    BY <1>2
  <2>3. QED
    BY <1>3, <1>4, <1>5, <1>7, <2>1, <2>2, ReopenedIs
<1>8. QED
  BY <1>5, <1>6, <1>7

(* The program wakes up (restorer.c:806-867) with the descriptors the dump *)
(* carried over, and no others, each with its file and offset.             *)
THEOREM DescriptorsReturn == Spec => []DescriptorsComeBack
<1>1. FdTableInv => DescriptorsComeBack
  <2>1. SUFFICES ASSUME FdTableInv, pc = "exec", NEW n \in Numbers
                 PROVE  /\ table[n] # Free => Dumpable(n)
                        /\ Dumpable(n) => /\ table[n] # Free /\ table[n].wound
                                          /\ orig[table[n].by] = orig[n]
    BY DEF DescriptorsComeBack
  <2>2. ASSUME table[n] # Free
        PROVE  Dumpable(n)
    <3>1. PICK k \in 1 .. Len(entries) : entries[k].fd = n
      BY <2>1, <2>2 DEF FdTableInv, ReopenedOK
    <3>2. Dumpable(entries[k].fd)
      BY <2>1 DEF FdTableInv, ListedOK
    <3>3. QED
      BY <3>1, <3>2
  <2>3. ASSUME Dumpable(n)
        PROVE  table[n] # Free /\ table[n].wound /\ orig[table[n].by] = orig[n]
    <3>1. table[n] # Free /\ table[n].wound
      BY <2>1, <2>3, ComesFrom
    <3>2. PICK j \in 1 .. Len(entries) : entries[j].of = orig[n] /\ table[n].by = entries[j].fd
      BY <2>1, <2>3, ComesFrom
    <3>3. entries[j].of = orig[entries[j].fd]
      BY <2>1 DEF FdTableInv, ListedOK
    <3>4. QED
      BY <3>1, <3>2, <3>3
  <2>4. QED
    BY <2>2, <2>3
<1>2. QED
  BY <1>1, FdTableInvariant, PTL

(* Descriptors that shared an open file share it again as far as kcmp      *)
(* could tell (dumper.c:470-472), and no others do.                        *)
THEOREM SharingReturns == Spec => []SharingComesBack
<1>1. FdTableInv => SharingComesBack
  <2>1. SUFFICES ASSUME FdTableInv, pc = "exec", NEW m \in Numbers, NEW n \in Numbers,
                        Dumpable(m), Dumpable(n)
                 PROVE  /\ table[m].by = table[n].by => orig[m] = orig[n]
                        /\ orig[m] = orig[n] /\ kcmpOK => table[m].by = table[n].by
    BY DEF SharingComesBack
  <2>2. PICK j \in 1 .. Len(entries) : /\ entries[j].dup = -1 /\ entries[j].of = orig[m]
                                       /\ table[m].by = entries[j].fd
    BY <2>1, ComesFrom
  <2>3. PICK k \in 1 .. Len(entries) : /\ entries[k].dup = -1 /\ entries[k].of = orig[n]
                                       /\ table[n].by = entries[k].fd
    BY <2>1, ComesFrom
  <2>4. entries[j].of = orig[entries[j].fd] /\ entries[k].of = orig[entries[k].fd]
    BY <2>1 DEF FdTableInv, ListedOK
  <2>5. ASSUME orig[m] = orig[n], kcmpOK
        PROVE  j = k
    <3>1. /\ Len(entries) \in Nat /\ j \in Nat /\ k \in Nat /\ Compared = Len(entries)
          /\ j <= Compared /\ k <= Compared
      BY <2>1 DEF FdTableInv, TypeOK, Compared
    <3>2. ~(j < k)
      <4>1. j < k => j \in 1 .. k - 1
        BY <3>1
      <4>2. QED
        BY <2>1, <2>2, <2>3, <2>5, <3>1, <4>1 DEF FdTableInv, ComparedOK
    <3>3. ~(k < j)
      <4>1. k < j => k \in 1 .. j - 1
        BY <3>1
      <4>2. QED
        BY <2>1, <2>2, <2>3, <2>5, <3>1, <4>1 DEF FdTableInv, ComparedOK
    <3>4. QED
      BY <3>1, <3>2, <3>3
  <2>6. QED
    BY <2>2, <2>3, <2>4, <2>5
<1>2. QED
  BY <1>1, FdTableInvariant, PTL

=============================================================================
