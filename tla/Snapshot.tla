------------------------------ MODULE Snapshot ------------------------------
(***************************************************************************)
(* What `ksnap -m Dump` promises, without saying how: a copy of a process  *)
(* that is taken at one instant and is on the disk, or no copy at all.     *)
(*                                                                         *)
(* A dump is one step here: it reports success, and at that instant its    *)
(* snapshot appears whole, as the target then is; or it fails, and nothing *)
(* happened to the target.  With -k it is two: the target is ended at the  *)
(* instant of its snapshot, and success is reported later, or never when   *)
(* the engine is killed in between, but not failure.  Dump takes some      *)
(* twenty kinds of steps to do the same.                                   *)
(***************************************************************************)
EXTENDS Integers

CONSTANTS
    Engines,       \* dumps somebody asked for
    Targets,       \* processes they may be asked to dump
    Threaded,      \* targets with more than one thread, for which less is promised
    Cells,         \* parts of the state of a target
    Contents,      \* whatever a snapshot could hold: functions on Cells
    NoEngine, NoSnapshot

VARIABLES
    order,     \* what each dump was asked for: which target, and whether to end it
    mem,       \* the cells of each target
    alive,     \* targets that have not died
    outcome,   \* of each dump: "running", "OK", "ERROR", or "crashed"
    saved,     \* the snapshot each dump has made, as it is on the disk
    ender      \* the dump whose -k ended the target

vars == <<order, mem, alive, outcome, saved, ender>>

Image(t) == [i \in Cells |-> [of |-> t, val |-> mem[t][i]]]

Init ==
    /\ outcome = [e \in Engines |-> "running"]
    /\ saved   = [e \in Engines |-> NoSnapshot]
    /\ alive   = [t \in Targets |-> TRUE]
    /\ ender   = [t \in Targets |-> NoEngine]
    /\ mem     = [t \in Targets |-> [i \in Cells |-> 0]]

Ends(e, how) ==
    /\ outcome[e] = "running"
    /\ outcome' = [outcome EXCEPT ![e] = how]

(* The copy of a single-threaded target is its state at this instant. *)
Copies(e) ==
    \E image \in Contents :
        /\ order[e].pid \notin Threaded => image = Image(order[e].pid)
        /\ saved' = [saved EXCEPT ![e] = image]

Succeeds(e) ==
    /\ ~order[e].kill
    /\ alive[order[e].pid]
    /\ Ends(e, "OK")
    /\ Copies(e)
    /\ UNCHANGED <<order, mem, alive, ender>>

HasEnded(e) == ender[order[e].pid] = e

(* -k ends the target, which is saved in the same instant. *)
Kills(e) ==
    LET t == order[e].pid IN
    /\ order[e].kill
    /\ outcome[e] = "running"
    /\ alive[t]
    /\ Copies(e)
    /\ alive' = [alive EXCEPT ![t] = FALSE]
    /\ ender' = [ender EXCEPT ![t] = e]
    /\ UNCHANGED <<order, mem, outcome>>

(* kill() of a process that is already dead, but not yet reaped, succeeds:  *)
(* then the snapshot is made when success is reported.                      *)
SucceedsWithKill(e) ==
    /\ order[e].kill
    /\ ~alive[order[e].pid]
    /\ Ends(e, "OK")
    /\ IF HasEnded(e) THEN UNCHANGED saved ELSE Copies(e)
    /\ UNCHANGED <<order, mem, alive, ender>>

(* The failure is reported ... *)
Fails(e) ==
    /\ ~HasEnded(e)
    /\ Ends(e, "ERROR")
    /\ UNCHANGED <<order, mem, alive, saved, ender>>

(* ... or the engine itself is killed. *)
Crashes(e) ==
    /\ Ends(e, "crashed")
    /\ UNCHANGED <<order, mem, alive, saved, ender>>

Computes(t) ==
    /\ alive[t]
    /\ \E i \in Cells : mem' = [mem EXCEPT ![t][i] = @ + 1]
    /\ UNCHANGED <<order, alive, outcome, saved, ender>>

DiesAlone(t) ==
    /\ alive[t]
    /\ alive' = [alive EXCEPT ![t] = FALSE]
    /\ UNCHANGED <<order, mem, outcome, saved, ender>>

Next ==
    \/ \E e \in Engines : \/ Succeeds(e) \/ Kills(e) \/ SucceedsWithKill(e)
                          \/ Fails(e) \/ Crashes(e)
    \/ \E t \in Targets : Computes(t) \/ DiesAlone(t)

Spec == Init /\ [][Next]_vars
=============================================================================
