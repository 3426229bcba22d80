------------------------------ MODULE FdTable -------------------------------
(***************************************************************************)
(* The open files of a process, across a dump and a restore: collect_fds   *)
(* and find_shared_files of dumper.c write a table of descriptors, and     *)
(* read_fd_table and open_snapshot_fds of restorer.c turn it back into     *)
(* open descriptors of the child, before its exec.                         *)
(*                                                                         *)
(* An open file stands for its path, its flags and its offset; descriptors *)
(* made by dup() hold the same open file.                                  *)
(***************************************************************************)
EXTENDS Integers, Sequences, FiniteSets, FiniteSetsExt

CONSTANTS
    MaxFd,      \* highest descriptor number, RLIMIT_NOFILE - 1
    Files,      \* open files of the dumped process
    Paths,      \* paths of regular files
    Volatile,   \* in place of a path: a pipe, a socket, a deleted file...
    Free        \* a number with nothing open on it

Stdio   == 0 .. 2
Numbers == 3 .. MaxFd

ASSUME NumbersAssumption == MaxFd \in Nat /\ MaxFd >= 3
ASSUME FreeAssumption    == /\ Free \notin Files /\ Volatile \notin Paths
                            /\ Free \notin [by : Numbers \cup {-1}, wound : BOOLEAN]

VARIABLES
    orig,      \* descriptors of the dumped process: Free or an open file
    name,      \* the path of each open file
    pc,
    entries,   \* the fd table of the snapshot
    i,         \* find_shared_files' index, then open_snapshot_fds'
    kcmpOK,    \* history: no comparison failed
    table,     \* descriptors of the restored child
    tmp        \* `opened`: the number open() returned

vars == <<orig, name, pc, entries, i, kcmpOK, table, tmp>>

-----------------------------------------------------------------------------

(***************************************************************************)
(* Descriptors of the child: Free, or what is open on the number.  `by` is *)
(* the entry whose open() made the file, -1 for what the engine inherited. *)
(***************************************************************************)
Opened(fd)     == [by |-> fd, wound |-> FALSE]
InheritedFile  == [by |-> -1, wound |-> FALSE]

Dumpable(n) == orig[n] # Free /\ name[orig[n]] # Volatile

Entry(n) == [fd |-> n, of |-> orig[n], dup |-> -1]

Init ==
    /\ orig \in [Numbers -> Files \cup {Free}]
    /\ name \in [Files -> Paths \cup {Volatile}]
    /\ pc = "collect" /\ entries = <<>> /\ i = 1 /\ kcmpOK = TRUE
    /\ \E inherited \in SUBSET Numbers :
         table = [n \in Stdio \cup Numbers |->
                    IF n \in Stdio \cup inherited THEN InheritedFile ELSE Free]
    /\ tmp = 0

(***************************************************************************)
(* The dump.  Anything that is no regular file under its own path is left  *)
(* out; an unreadable descriptor fails the dump.                           *)
(***************************************************************************)
Mut_Sorted(S) ==
    {s \in [1 .. Cardinality(S) -> S] : \A j, k \in DOMAIN s : j < k => s[j] > s[k]}

(* qsort: the one order of all these numbers that ascends. *)
Sorted(S) ==
    {s \in [1 .. Cardinality(S) -> S] :
        /\ \A n \in S : \E k \in DOMAIN s : s[k] = n
        /\ \A j, k \in DOMAIN s : j < k => s[j] < s[k]}

CollectFds ==
    /\ pc = "collect"
    /\ \/ pc' = "sharing"
          /\ \E fds \in Sorted({n \in Numbers : Dumpable(n)}) :
               entries' = [k \in DOMAIN fds |-> Entry(fds[k])]
       \/ pc' = "failed" /\ UNCHANGED entries
    /\ i' = 1
    /\ UNCHANGED <<orig, name, kcmpOK, table, tmp>>

SamePath(e, f) == name[e.of] = name[f.of]

(* Earlier entries that hold an open file of their own, under i's path. *)
Candidates ==
    {j \in 1 .. i - 1 : entries[j].dup = -1 /\ SamePath(entries[j], entries[i])}

(* KCMP_FILE: do the two descriptors hold the same open file? *)
Mut_SameFile(e, f) == TRUE

SameFile(e, f) == e.of = f.of

Mut_FindShared ==
    LET shared == {j \in Candidates : SameFile(entries[j], entries[i])} IN
    /\ pc = "sharing" /\ i <= Len(entries)
    /\ entries' = IF shared = {} THEN entries
                  ELSE [entries EXCEPT ![i].dup = Min(shared)]
    /\ i' = i + 1
    /\ UNCHANGED <<orig, name, pc, kcmpOK, table, tmp>>

FindShared ==
    LET shared == {j \in Candidates : SameFile(entries[j], entries[i])} IN
    /\ pc = "sharing" /\ i <= Len(entries)
    /\ entries' = IF shared = {} THEN entries
                  ELSE [entries EXCEPT ![i].dup = entries[Min(shared)].fd]
    /\ i' = i + 1
    /\ UNCHANGED <<orig, name, pc, kcmpOK, table, tmp>>

(* kcmp is not available: the search ends, whatever it had marked stays. *)
KcmpFails ==
    /\ pc = "sharing" /\ i <= Len(entries) /\ Candidates # {}
    /\ pc' = "written"
    /\ kcmpOK' = FALSE
    /\ UNCHANGED <<orig, name, entries, i, table, tmp>>

FdsDumped ==
    /\ pc = "sharing" /\ i > Len(entries)
    /\ pc' = "written"
    /\ UNCHANGED <<orig, name, entries, i, kcmpOK, table, tmp>>

-----------------------------------------------------------------------------

(***************************************************************************)
(* read_fd_table: numbers above stdio, strictly ascending, and copies of   *)
(* earlier entries only.                                                   *)
(***************************************************************************)
Accepted ==
    \A k \in 1 .. Len(entries) :
        /\ entries[k].fd > 2
        /\ k > 1 => entries[k].fd > entries[k - 1].fd
        /\ entries[k].dup = -1 \/ \E j \in 1 .. k - 1 : entries[j].fd = entries[k].dup

ReadFdTable ==
    /\ pc = "written"
    /\ pc' = IF Accepted THEN "closing" ELSE "refused"
    /\ UNCHANGED <<orig, name, entries, i, kcmpOK, table, tmp>>

(* close_range(3, ~0U): what the engine inherited is gone. *)
Mut_CloseRange ==
    /\ pc = "closing"
    /\ pc' = "opening" /\ i' = 1
    /\ UNCHANGED <<orig, name, entries, kcmpOK, table, tmp>>

CloseRange ==
    /\ pc = "closing"
    /\ pc' = "opening" /\ i' = 1
    /\ table' = [n \in Stdio \cup Numbers |-> IF n \in Stdio THEN table[n] ELSE Free]
    /\ UNCHANGED <<orig, name, entries, kcmpOK, tmp>>

Cur == entries[i]

(* dup2 onto the wanted number shares the open file of the earlier one. *)
PlaceCopy ==
    /\ pc = "opening" /\ i <= Len(entries) /\ Cur.dup # -1
    /\ table' = [table EXCEPT ![Cur.fd] = table[Cur.dup]]
    /\ i' = i + 1
    /\ UNCHANGED <<orig, name, pc, entries, kcmpOK, tmp>>

FreeNumbers == {n \in DOMAIN table : table[n] = Free}

(* open() takes the lowest free number. *)
OpenFile ==
    /\ pc = "opening" /\ i <= Len(entries) /\ Cur.dup = -1
    /\ FreeNumbers # {}
    /\ tmp' = Min(FreeNumbers)
    /\ table' = [table EXCEPT ![tmp'] = Opened(Cur.fd)]
    /\ pc' = "winding"
    /\ UNCHANGED <<orig, name, entries, i, kcmpOK>>

(* lseek to the offset of the snapshot. *)
Wind ==
    /\ pc = "winding"
    /\ table' = [table EXCEPT ![tmp].wound = TRUE]
    /\ pc' = "moving"
    /\ UNCHANGED <<orig, name, entries, i, kcmpOK, tmp>>

(* dup2 to the wanted number, and the temporary one is given back. *)
Mut_Move ==
    /\ pc = "moving"
    /\ table' = [table EXCEPT ![Cur.fd] = table[tmp], ![tmp] = Free]
    /\ pc' = "opening" /\ i' = i + 1
    /\ UNCHANGED <<orig, name, entries, kcmpOK, tmp>>

Move ==
    /\ pc = "moving"
    /\ table' = IF tmp = Cur.fd THEN table
                ELSE [table EXCEPT ![Cur.fd] = table[tmp], ![tmp] = Free]
    /\ pc' = "opening" /\ i' = i + 1
    /\ UNCHANGED <<orig, name, entries, kcmpOK, tmp>>

(* Any of these calls may fail, and the child exits before its exec. *)
ChildExits ==
    /\ pc \in {"closing", "opening", "winding", "moving"}
    /\ pc' = "exited"
    /\ UNCHANGED <<orig, name, entries, i, kcmpOK, table, tmp>>

AllOpen ==
    /\ pc = "opening" /\ i > Len(entries)
    /\ pc' = "exec"
    /\ UNCHANGED <<orig, name, entries, i, kcmpOK, table, tmp>>

Next ==
    \/ CollectFds \/ FindShared \/ KcmpFails \/ FdsDumped
    \/ ReadFdTable \/ CloseRange \/ PlaceCopy \/ OpenFile \/ Wind \/ Move
    \/ ChildExits \/ AllOpen

Spec == Init /\ [][Next]_vars

-----------------------------------------------------------------------------

TypeOK ==
    /\ orig \in [Numbers -> Files \cup {Free}]
    /\ name \in [Files -> Paths \cup {Volatile}]
    /\ pc \in {"collect", "failed", "sharing", "written", "refused", "closing", "opening",
               "winding", "moving", "exited", "exec"}
    /\ entries \in Seq([fd : Numbers, of : Files, dup : Numbers \cup {-1}])
    /\ i \in Nat /\ kcmpOK \in BOOLEAN
    /\ table \in [Stdio \cup Numbers ->
                    [by : Numbers \cup {-1}, wound : BOOLEAN] \cup {Free}]
    /\ tmp \in Stdio \cup Numbers

(***************************************************************************)
(* The program wakes up (restorer.c:806-867) with exactly the descriptors  *)
(* the dump carried over, nothing inherited and no temporary number left   *)
(* open, each on a file with the right path and offset.                    *)
(***************************************************************************)
DescriptorsComeBack ==
    pc = "exec" =>
        \A n \in Numbers :
            /\ table[n] # Free <=> Dumpable(n)
            /\ Dumpable(n) => /\ table[n].wound
                              /\ orig[table[n].by] = orig[n]

(***************************************************************************)
(* Descriptors that shared an open file still do, and those that only      *)
(* shared a path do not (dumper.c:470-472).  Without kcmp sharing may be   *)
(* lost, it is never made up.                                              *)
(***************************************************************************)
SharingComesBack ==
    pc = "exec" =>
        \A m, n \in Numbers : Dumpable(m) /\ Dumpable(n) =>
            /\ table[m].by = table[n].by => orig[m] = orig[n]
            /\ orig[m] = orig[n] /\ kcmpOK => table[m].by = table[n].by

(***************************************************************************)
(* Reopening never needs a number above the wanted one, so a table that    *)
(* reaches the descriptor limit of the process can still be restored.      *)
(***************************************************************************)
NumberToSpare ==
    pc = "opening" /\ i <= Len(entries) =>
        \E n \in FreeNumbers : n <= Cur.fd

(***************************************************************************)
(* What a dump writes, the restore accepts (restorer.c:433-459), also when *)
(* kcmp gave up halfway.                                                   *)
(***************************************************************************)
DumpedIsAccepted == pc # "refused"
=============================================================================
