----------------------------- MODULE RoundTrip -----------------------------
(***************************************************************************)
(* Dump and Restore meet in the snapshot file.  Nothing locks it: a        *)
(* restore may open it while a dump is writing it, after a dump gave up    *)
(* half way, or be reading it when the next dump empties it again.         *)
(*                                                                         *)
(* Readers are engines started with -m Restore, seen from the file: the    *)
(* header first, then the sizes it claims against the size of the file,    *)
(* then part after part, the payloads long after the tables because the    *)
(* child is forked and mapped in between (module Restore).                 *)
(***************************************************************************)
EXTENDS Dump, Sequences

CONSTANT Readers    \* engine processes started with -m Restore

VARIABLES
    source,       \* the file each reader was given
    stage,        \* where it stands in read_snapshot_metadata and restore_vma
    got,          \* the parts it has read
    undisturbed   \* history: no dump has emptied the file since it opened it

readerVars == <<source, stage, got, undisturbed>>

Stages == {"start", "header", "sizes", "tables", "restored", "refused"}

RInit ==
    /\ Init
    /\ source      \in [Readers -> Paths]
    /\ stage       = [r \in Readers |-> "start"]
    /\ got         = [r \in Readers |-> <<>>]
    /\ undisturbed = [r \in Readers |-> TRUE]

(* The size of a file is that of its last part; what nobody wrote in front *)
(* of it reads as zeros, which is Nothing here.                            *)
Mut_WithinFile(p, i) == i \in Cells

WithinFile(p, i) == \E j \in i .. Last : cache[p][j] # Nothing

-----------------------------------------------------------------------------

OpenSnapshot(r) ==
    /\ stage[r] = "start"
    /\ stage' = [stage EXCEPT ![r] = "header"]
    /\ UNCHANGED <<source, got, undisturbed>>

(* The header needs its magic bytes. *)
ReadHeader(r) ==
    /\ stage[r] = "header"
    /\ IF cache[source[r]][1] = Nothing
       THEN /\ stage' = [stage EXCEPT ![r] = "refused"]
            /\ UNCHANGED got
       ELSE /\ stage' = [stage EXCEPT ![r] = "sizes"]
            /\ got'   = [got EXCEPT ![r] = <<cache[source[r]][1]>>]
    /\ UNCHANGED <<source, undisturbed>>

(* fstat: every table and payload the header names must end inside the file. *)
CheckSizes(r) ==
    /\ stage[r] = "sizes"
    /\ stage' = [stage EXCEPT
                   ![r] = IF WithinFile(source[r], Last) THEN "tables" ELSE "refused"]
    /\ UNCHANGED <<source, got, undisturbed>>

(* The next table or payload; a short read fails the restore. *)
ReadPart(r) ==
    LET i == Len(got[r]) + 1 IN
    /\ stage[r] = "tables"
    /\ i <= Last
    /\ IF WithinFile(source[r], i)
       THEN /\ got' = [got EXCEPT ![r] = Append(@, cache[source[r]][i])]
            /\ UNCHANGED stage
       ELSE /\ stage' = [stage EXCEPT ![r] = "refused"]
            /\ UNCHANGED got
    /\ UNCHANGED <<source, undisturbed>>

(* A read, or a call injected into the child, fails. *)
ReadFails(r) ==
    /\ stage[r] \in {"start", "header", "sizes", "tables"}
    /\ stage' = [stage EXCEPT ![r] = "refused"]
    /\ UNCHANGED <<source, got, undisturbed>>

(* The child, complete, is let go. *)
Restored(r) ==
    /\ stage[r] = "tables"
    /\ Len(got[r]) = Last
    /\ stage' = [stage EXCEPT ![r] = "restored"]
    /\ UNCHANGED <<source, got, undisturbed>>

ReaderStep(r) ==
    \/ OpenSnapshot(r) \/ ReadHeader(r) \/ CheckSizes(r) \/ ReadPart(r)
    \/ ReadFails(r) \/ Restored(r)

(* The readers' view of a step of Dump: somebody may empty their file. *)
Disturbs ==
    undisturbed' = [r \in Readers |->
        /\ undisturbed[r]
        /\ ~ /\ stage[r] \in {"header", "sizes", "tables"}
             /\ \E e \in Engines :
                    Path(e) = source[r] /\ pc[e] = "opening" /\ pc'[e] = "writing"]

RNext ==
    \/ Next /\ Disturbs /\ UNCHANGED <<source, stage, got>>
    \/ \E r \in Readers : ReaderStep(r) /\ UNCHANGED vars

RSpec == RInit /\ [][RNext]_<<vars, readerVars>>

-----------------------------------------------------------------------------

(* What a dump has read, once it has read everything. *)
Complete(e) == \A i \in Cells : held[e][i] # Nothing

(***************************************************************************)
(* The process that comes back is one that was dumped (restorer.c:279-343, *)
(* 508-528, dumper.c:540-549): unless a dump emptied the file under the    *)
(* reader, what was restored is one whole snapshot, never the beginning of *)
(* one, never two dumps mixed; and if -k has ended the process, it is the  *)
(* very state it ended in.                                                 *)
(***************************************************************************)
RestoredIsOneState ==
    \A r \in Readers :
        stage[r] = "restored" /\ undisturbed[r] =>
            \/ got[r] = OldSnapshot
            \/ \E e \in Engines :
                 /\ Path(e) = source[r]
                 /\ Complete(e)
                 /\ got[r] = held[e]
                 /\ killer[Target(e)] = e /\ Target(e) \notin Threaded
                    => got[r] = Image(Target(e))
=============================================================================
