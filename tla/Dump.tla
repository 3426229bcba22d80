-------------------------------- MODULE Dump --------------------------------
(***************************************************************************)
(* `ksnap -m Dump`: dump() of dumper.c, as run by several engine           *)
(* processes at once against targets that keep computing, may be killed by *)
(* somebody else, and may be written into the same snapshot file.          *)
(*                                                                         *)
(* A target is a vector of cells.  Cells 1..Collected are what the engine  *)
(* gathers in its own memory before it opens the snapshot (registers,      *)
(* xstate, exe path and mappings, descriptors); the remaining Streamed     *)
(* cells are the memory areas it copies straight from /proc/pid/mem into   *)
(* the file.  Cell i lands in part i of the snapshot, in file order.       *)
(*                                                                         *)
(* A part passes through three places: the stdio buffer of the engine, the *)
(* page cache (what any reader of the file sees, what survives the engine) *)
(* and the disk (what survives the machine).                               *)
(***************************************************************************)
EXTENDS Integers

CONSTANTS
    Engines,     \* engine processes started with -m Dump
    Targets,     \* processes they may be asked to dump
    Threaded,    \* the targets with a second thread, which PTRACE_SEIZE leaves running
    Paths,       \* snapshot files
    Collected,   \* cells gathered before the file is opened
    Streamed,    \* memory areas streamed into the file afterwards
    MaxWrites,   \* bound: how often a target changes one cell
    NoEngine, NoTarget, Nothing

Last  == Collected + Streamed
Cells == 1 .. Last

Stored == [of : Targets \cup {NoTarget}, val : 0 .. MaxWrites]

ASSUME CellsAssumption  == Collected \in Nat \ {0} /\ Streamed \in Nat \ {0}
ASSUME WritesAssumption == MaxWrites \in Nat
ASSUME ThreadAssumption == Threaded \subseteq Targets
ASSUME NoneAssumption   == NoEngine \notin Engines /\ NoTarget \notin Targets
                           /\ Nothing \notin Stored

VARIABLES
    config,   \* ksnap_config_t of each engine: its -p, its -d/-n and its -k
    pc,       \* where each engine stands in dump()
    result,   \* its `result` variable, at "done" its exit status
    at,       \* the last cell it has collected, then the last part it has fwritten
    held,     \* its copy of each cell (regs, xstate, vmas, fds, then buff)
    flushed,  \* how many parts have left its stdio buffer
    alive,    \* targets that have not died
    stopped,  \* targets in a ptrace stop
    tracer,   \* which engine has seized the target
    killer,   \* history: the engine whose -k ended the target
    mem,      \* the cells of each target
    cache,    \* parts of each file as any reader sees them
    disk      \* parts of each file that have reached the disk

engineVars == <<pc, result, at, held, flushed>>
targetVars == <<alive, stopped, tracer, killer, mem>>
fileVars   == <<cache, disk>>
vars       == <<config, engineVars, targetVars, fileVars>>

Target(e) == config[e].pid
Path(e)   == config[e].path

Image(t)     == [i \in Cells |-> [of |-> t, val |-> mem[t][i]]]
OldSnapshot  == [i \in Cells |-> [of |-> NoTarget, val |-> 0]]
EmptyFile    == [i \in Cells |-> Nothing]
NothingHeld  == [i \in Cells |-> Nothing]

Phases == {"start", "seized", "waiting", "collecting", "opening", "writing",
           "flushing", "syncing", "closing", "killing", "reaping", "detaching",
           "done", "crashed"}

-----------------------------------------------------------------------------

(* Every file is absent or holds some earlier complete snapshot. *)
Init ==
    /\ config  \in [Engines -> [pid : Targets, path : Paths, kill : BOOLEAN]]
    /\ pc      = [e \in Engines |-> "start"]
    /\ result  = [e \in Engines |-> "ERROR"]
    /\ at      = [e \in Engines |-> 0]
    /\ held    = [e \in Engines |-> NothingHeld]
    /\ flushed = [e \in Engines |-> 0]
    /\ alive   = [t \in Targets |-> TRUE]
    /\ stopped = [t \in Targets |-> FALSE]
    /\ tracer  = [t \in Targets |-> NoEngine]
    /\ killer  = [t \in Targets |-> NoEngine]
    /\ mem     = [t \in Targets |-> [i \in Cells |-> 0]]
    /\ cache   \in [Paths -> {EmptyFile, OldSnapshot}]
    /\ disk    = cache

GoTo(e, phase) == pc' = [pc EXCEPT ![e] = phase]

(* What a file holds once parts flushed+1..n of engine e have left its      *)
(* buffer: each is written at the engine's own file position.               *)
Written(e, n) ==
    [i \in Cells |-> IF flushed[e] < i /\ i <= n THEN held[e][i]
                                                 ELSE cache[Path(e)][i]]

Mut_Push(e, n) ==
    /\ cache'   = [cache EXCEPT ![Path(e)] = Written(e, n)]
    /\ flushed' = [flushed EXCEPT ![e] = @ + n]

Push(e, n) ==
    /\ cache'   = [cache EXCEPT ![Path(e)] = Written(e, n)]
    /\ flushed' = [flushed EXCEPT ![e] = n]

-----------------------------------------------------------------------------

(***************************************************************************)
(* Attaching.  build_snapshot_path fails, or PTRACE_SEIZE is refused       *)
(* because the target is gone, traced already, or not ours to trace, before *)
(* the target is touched.                                                  *)
(***************************************************************************)
Refused(e) ==
    /\ pc[e] = "start"
    /\ GoTo(e, "done")
    /\ UNCHANGED <<config, result, at, held, flushed, targetVars, fileVars>>

Seize(e) ==
    /\ pc[e] = "start"
    /\ alive[Target(e)]
    /\ tracer[Target(e)] = NoEngine
    /\ tracer' = [tracer EXCEPT ![Target(e)] = e]
    /\ GoTo(e, "seized")
    /\ UNCHANGED <<config, result, at, held, flushed, alive, stopped, killer, mem, fileVars>>

Interrupt(e) ==
    /\ pc[e] = "seized"
    /\ GoTo(e, IF alive[Target(e)] THEN "waiting" ELSE "detaching")
    /\ UNCHANGED <<config, result, at, held, flushed, targetVars, fileVars>>

(* The kernel brings the interrupted target to its stop. *)
EntersStop(t) ==
    /\ alive[t] /\ ~stopped[t]
    /\ \E e \in Engines : tracer[t] = e /\ pc[e] = "waiting"
    /\ stopped' = [stopped EXCEPT ![t] = TRUE]
    /\ UNCHANGED <<config, engineVars, alive, tracer, killer, mem, fileVars>>

(* waitpid returns: a stop lets the dump go on, a death makes it detach. *)
Mut_Waited(e) ==
    /\ pc[e] = "waiting"
    /\ GoTo(e, IF alive[Target(e)] THEN "collecting" ELSE "detaching")
    /\ UNCHANGED <<config, result, at, held, flushed, targetVars, fileVars>>

Mut_WaitsForStop(e) ==
    /\ pc[e] = "waiting"
    /\ stopped[Target(e)]
    /\ GoTo(e, "collecting")
    /\ UNCHANGED <<config, result, at, held, flushed, targetVars, fileVars>>

Waited(e) ==
    /\ pc[e] = "waiting"
    /\ stopped[Target(e)] \/ ~alive[Target(e)]
    /\ GoTo(e, IF stopped[Target(e)] THEN "collecting" ELSE "detaching")
    /\ UNCHANGED <<config, result, at, held, flushed, targetVars, fileVars>>

(***************************************************************************)
(* Collecting registers, xstate, exe path, mappings and descriptors into   *)
(* the engine's memory.  Any read may fail; reads of a dead target do.     *)
(***************************************************************************)
Collect(e) ==
    /\ pc[e] = "collecting"
    /\ alive[Target(e)]
    /\ at[e] < Collected
    /\ at'   = [at EXCEPT ![e] = @ + 1]
    /\ held' = [held EXCEPT ![e][at[e] + 1] = Image(Target(e))[at[e] + 1]]
    /\ GoTo(e, IF at[e] + 1 = Collected THEN "opening" ELSE "collecting")
    /\ UNCHANGED <<config, result, flushed, targetVars, fileVars>>

CollectFails(e) ==
    /\ pc[e] = "collecting"
    /\ GoTo(e, "detaching")
    /\ UNCHANGED <<config, result, at, held, flushed, targetVars, fileVars>>

-----------------------------------------------------------------------------

(***************************************************************************)
(* write_snapshot.  fopen(.., "wb") empties whatever the name held before; *)
(* opening /proc/pid/mem or the file may fail first.                       *)
(***************************************************************************)
Open(e) ==
    /\ pc[e] = "opening"
    /\ alive[Target(e)]
    /\ cache' = [cache EXCEPT ![Path(e)] = EmptyFile]
    /\ at'    = [at EXCEPT ![e] = 0]
    /\ GoTo(e, "writing")
    /\ UNCHANGED <<config, result, held, flushed, targetVars, disk>>

OpenFails(e) ==
    /\ pc[e] = "opening"
    /\ GoTo(e, "detaching")
    /\ UNCHANGED <<config, result, at, held, flushed, targetVars, fileVars>>

(* fwrite of the next part: a gathered one comes from the engine's memory, *)
(* a payload is first pread from the target.                               *)
WritePart(e) ==
    LET i == at[e] + 1 IN
    /\ pc[e] = "writing"
    /\ i <= Last
    /\ i > Collected => alive[Target(e)]
    /\ at'   = [at EXCEPT ![e] = i]
    /\ held' = IF i > Collected THEN [held EXCEPT ![e][i] = Image(Target(e))[i]]
                                ELSE held
    /\ UNCHANGED <<config, pc, result, flushed, targetVars, fileVars>>

Mut_WriteFails(e) ==
    /\ pc[e] = "writing"
    /\ at[e] < Last
    /\ at' = [at EXCEPT ![e] = @ + 1]
    /\ UNCHANGED <<config, pc, result, held, flushed, targetVars, fileVars>>

WriteFails(e) ==
    /\ pc[e] = "writing"
    /\ at[e] < Last
    /\ GoTo(e, "closing")
    /\ UNCHANGED <<config, result, at, held, flushed, targetVars, fileVars>>

(* A full stdio buffer spills its oldest part to the file. *)
Spill(e) ==
    /\ pc[e] = "writing"
    /\ flushed[e] < at[e]
    /\ Push(e, flushed[e] + 1)
    /\ UNCHANGED <<config, pc, result, at, held, targetVars, disk>>

PayloadDone(e) ==
    /\ pc[e] = "writing"
    /\ at[e] = Last
    /\ result' = [result EXCEPT ![e] = "OK"]
    /\ GoTo(e, "flushing")
    /\ UNCHANGED <<config, at, held, flushed, targetVars, fileVars>>

Flush(e) ==
    /\ pc[e] = "flushing"
    /\ Push(e, at[e])
    /\ GoTo(e, "syncing")
    /\ UNCHANGED <<config, result, at, held, targetVars, disk>>

Mut_Fsync(e) ==
    /\ pc[e] = "syncing"
    /\ GoTo(e, "closing")
    /\ UNCHANGED <<config, result, at, held, flushed, targetVars, fileVars>>

Fsync(e) ==
    /\ pc[e] = "syncing"
    /\ disk' = [disk EXCEPT ![Path(e)] = cache[Path(e)]]
    /\ GoTo(e, "closing")
    /\ UNCHANGED <<config, result, at, held, flushed, targetVars, cache>>

SyncFails(e) ==
    /\ pc[e] \in {"flushing", "syncing"}
    /\ result' = [result EXCEPT ![e] = "ERROR"]
    /\ GoTo(e, "closing")
    /\ UNCHANGED <<config, at, held, flushed, targetVars, fileVars>>

(* Behind the label `detach`, only a complete dump asked to kill does so. *)
Mut_Epilogue(e, outcome) == IF config[e].kill THEN "killing" ELSE "detaching"

Epilogue(e, outcome) ==
    IF outcome = "OK" /\ config[e].kill THEN "killing" ELSE "detaching"

(* fclose writes out what a failed dump left in its buffer. *)
Close(e) ==
    /\ pc[e] = "closing"
    /\ Push(e, at[e])
    /\ GoTo(e, Epilogue(e, result[e]))
    /\ UNCHANGED <<config, result, at, held, targetVars, disk>>

CloseFails(e) ==
    /\ pc[e] = "closing"
    /\ result' = [result EXCEPT ![e] = "ERROR"]
    /\ GoTo(e, Epilogue(e, "ERROR"))
    /\ UNCHANGED <<config, at, held, flushed, targetVars, fileVars>>

-----------------------------------------------------------------------------

(***************************************************************************)
(* The end of dump(): -k ends the target while it is still in its stop,    *)
(* otherwise, or when that fails, the target is detached.                  *)
(***************************************************************************)
Kill(e) ==
    /\ pc[e] = "killing"
    /\ alive'   = [alive EXCEPT ![Target(e)] = FALSE]
    /\ stopped' = [stopped EXCEPT ![Target(e)] = FALSE]
    /\ killer'  = IF alive[Target(e)] THEN [killer EXCEPT ![Target(e)] = e]
                                      ELSE killer
    /\ GoTo(e, "reaping")
    /\ UNCHANGED <<config, result, at, held, flushed, tracer, mem, fileVars>>

(* Only now, with the notice of the death collected, is success reported. *)
Reaped(e) ==
    /\ pc[e] = "reaping"
    /\ ~alive[Target(e)]
    /\ tracer' = [tracer EXCEPT ![Target(e)] = NoEngine]
    /\ GoTo(e, "done")
    /\ UNCHANGED <<config, result, at, held, flushed, alive, stopped, killer, mem, fileVars>>

Mut_KillFails(e) ==
    /\ pc[e] = "killing"
    /\ GoTo(e, "detaching")
    /\ UNCHANGED <<config, result, at, held, flushed, targetVars, fileVars>>

KillFails(e) ==
    /\ pc[e] = "killing"
    /\ result' = [result EXCEPT ![e] = "ERROR"]
    /\ GoTo(e, "detaching")
    /\ UNCHANGED <<config, at, held, flushed, targetVars, fileVars>>

(* PTRACE_DETACH of a target that died fails, and so does the dump. *)
Mut_Detach(e) ==
    /\ pc[e] = "detaching"
    /\ tracer' = [tracer EXCEPT ![Target(e)] = NoEngine]
    /\ GoTo(e, "done")
    /\ UNCHANGED <<config, result, at, held, flushed, alive, stopped, killer, mem, fileVars>>

Detach(e) ==
    /\ pc[e] = "detaching"
    /\ stopped' = [stopped EXCEPT ![Target(e)] = FALSE]
    /\ tracer'  = [tracer EXCEPT ![Target(e)] = NoEngine]
    /\ result'  = IF alive[Target(e)] THEN result ELSE [result EXCEPT ![e] = "ERROR"]
    /\ GoTo(e, "done")
    /\ UNCHANGED <<config, at, held, flushed, alive, killer, mem, fileVars>>

-----------------------------------------------------------------------------

(***************************************************************************)
(* What the engine does not control.                                       *)
(***************************************************************************)

(* The engine is killed (the panel's dump timeout, a user): the kernel     *)
(* detaches what it traced, and its stdio buffer is gone.                  *)
EngineDies(e) ==
    /\ pc[e] \notin {"start", "done", "crashed"}
    /\ GoTo(e, "crashed")
    /\ stopped' = [t \in Targets |-> stopped[t] /\ tracer[t] # e]
    /\ tracer'  = [t \in Targets |-> IF tracer[t] = e THEN NoEngine ELSE tracer[t]]
    /\ UNCHANGED <<config, result, at, held, flushed, alive, killer, mem, fileVars>>

(* The target computes: any cell changes, unless the target is stopped. *)
(* Stopping one thread of several does not stop the others.             *)
Computes(t) ==
    /\ alive[t]
    /\ ~stopped[t] \/ t \in Threaded
    /\ \E i \in Cells :
         /\ mem[t][i] < MaxWrites
         /\ mem' = [mem EXCEPT ![t][i] = @ + 1]
    /\ UNCHANGED <<config, engineVars, alive, stopped, tracer, killer, fileVars>>

(* SIGKILL from elsewhere, the one thing a ptrace stop does not hold off. *)
DiesAlone(t) ==
    /\ alive[t]
    /\ alive'   = [alive EXCEPT ![t] = FALSE]
    /\ stopped' = [stopped EXCEPT ![t] = FALSE]
    /\ UNCHANGED <<config, engineVars, tracer, killer, mem, fileVars>>

(* The kernel writes dirty pages back when it likes. *)
Writeback(p) ==
    /\ disk[p] # cache[p]
    /\ disk' = [disk EXCEPT ![p] = cache[p]]
    /\ UNCHANGED <<config, engineVars, targetVars, cache>>

-----------------------------------------------------------------------------

EngineStep(e) ==
    \/ Refused(e) \/ Seize(e) \/ Interrupt(e) \/ Waited(e)
    \/ Collect(e) \/ CollectFails(e)
    \/ Open(e) \/ OpenFails(e) \/ WritePart(e) \/ WriteFails(e) \/ PayloadDone(e)
    \/ Flush(e) \/ Fsync(e) \/ SyncFails(e) \/ Close(e) \/ CloseFails(e)
    \/ Kill(e) \/ KillFails(e) \/ Reaped(e) \/ Detach(e)

Next ==
    \/ \E e \in Engines : EngineStep(e) \/ Spill(e) \/ EngineDies(e)
    \/ \E t \in Targets : EntersStop(t) \/ Computes(t) \/ DiesAlone(t)
    \/ \E p \in Paths : Writeback(p)

Spec == Init /\ [][Next]_vars

(* An engine is a sequential program the scheduler keeps running, and the  *)
(* kernel does bring an interrupted target to its stop.                    *)
FairSpec ==
    /\ Spec
    /\ \A e \in Engines : WF_vars(EngineStep(e))
    /\ \A t \in Targets : WF_vars(EntersStop(t))

-----------------------------------------------------------------------------

TypeOK ==
    /\ config  \in [Engines -> [pid : Targets, path : Paths, kill : BOOLEAN]]
    /\ pc      \in [Engines -> Phases]
    /\ result  \in [Engines -> {"OK", "ERROR"}]
    /\ at      \in [Engines -> 0 .. Last]
    /\ held    \in [Engines -> [Cells -> Stored \cup {Nothing}]]
    /\ flushed \in [Engines -> 0 .. Last]
    /\ alive   \in [Targets -> BOOLEAN]
    /\ stopped \in [Targets -> BOOLEAN]
    /\ tracer  \in [Targets -> Engines \cup {NoEngine}]
    /\ killer  \in [Targets -> Engines \cup {NoEngine}]
    /\ mem     \in [Targets -> [Cells -> 0 .. MaxWrites]]
    /\ cache   \in [Paths -> [Cells -> Stored \cup {Nothing}]]
    /\ disk    \in [Paths -> [Cells -> Stored \cup {Nothing}]]

(* No other engine was given the same -d and -n. *)
OwnsPath(e) == \A f \in Engines \ {e} : Path(f) # Path(e)

(***************************************************************************)
(* -k (dumper.c:160-176, 655-661): a process an engine has ended is on the *)
(* disk, not only in the page cache, and every part of that file is the    *)
(* state the process died with: the dump never kept a state the process    *)
(* had already moved past.  Holds for a single-threaded target and a file  *)
(* no other dump writes.                                                   *)
(***************************************************************************)
KilledIsOnDisk ==
    \A t \in Targets \ Threaded, e \in Engines :
        killer[t] = e /\ OwnsPath(e) => disk[Path(e)] = Image(t)

(***************************************************************************)
(* "Only a complete snapshot ends it" (dumper.c:162), read for the file    *)
(* the engine was asked for, whoever else is writing it: at the step that  *)
(* ends the target, the name holds the whole of that target.               *)
(***************************************************************************)
KillsOnlySaved ==
    [][\A t \in Targets \ Threaded, e \in Engines :
         killer[t] # e /\ killer'[t] = e => cache[Path(e)] = Image(t)]_vars

(***************************************************************************)
(* "every exit has to detach it again" (dumper.c:100): a stopped target    *)
(* has a tracer still working on it, whatever failed, whichever process    *)
(* was killed; and an engine that has ended traces nothing.                *)
(***************************************************************************)
NeverLeftStopped ==
    \A t \in Targets :
        /\ stopped[t] => tracer[t] # NoEngine
        /\ tracer[t] # NoEngine => pc[tracer[t]] \notin {"start", "done", "crashed"}

(***************************************************************************)
(* "a failed dump releases it as usual" (dumper.c:162): an engine whose    *)
(* dump is reported as failed has not ended its target.                    *)
(***************************************************************************)
FailedDumpSpares ==
    \A e \in Engines, t \in Targets :
        pc[e] = "done" /\ result[e] = "ERROR" => killer[t] # e

(***************************************************************************)
(* What a failed or interrupted dump leaves behind is the beginning of its *)
(* snapshot, never one with a hole: the size checks of the restore         *)
(* (restorer.c:324-343) recognise exactly that.  This is the file as a     *)
(* reader sees it, in the page cache; the disk may have a later page       *)
(* without an earlier one until fsync.                                     *)
(***************************************************************************)
LeavesPrefix ==
    \A e \in Engines : OwnsPath(e) =>
        \A i \in Cells \ {Last} :
            cache[Path(e)][i] = Nothing => cache[Path(e)][i + 1] = Nothing

(***************************************************************************)
(* A dump that reports success (dumper.c:152, 647-668) leaves a file that  *)
(* is, part by part, the state its target has at that very step: the parts *)
(* were read over a long time, and still form one state of the process.    *)
(***************************************************************************)
SuccessIsConsistent ==
    [][\A e \in Engines :
         (/\ pc[e] # "done" /\ pc'[e] = "done" /\ result'[e] = "OK"
          /\ OwnsPath(e) /\ Target(e) \notin Threaded)
         => cache'[Path(e)] = Image(Target(e))']_vars

(***************************************************************************)
(* A seized target is eventually let go, or dead (dumper.c:100-104): no    *)
(* failure leaves it in its stop.                                          *)
(***************************************************************************)
EventuallyReleased ==
    \A t \in Targets : tracer[t] # NoEngine ~> tracer[t] = NoEngine

-----------------------------------------------------------------------------

(***************************************************************************)
(* Snapshot is what all these steps amount to.  A dump still at work has   *)
(* no outcome yet, and its file is no snapshot before it ends its target   *)
(* or reports success, when the disk has to hold it.                       *)
(***************************************************************************)
Outcome(e) ==
    CASE pc[e] = "done"    -> result[e]
      [] pc[e] = "crashed" -> "crashed"
      [] OTHER             -> "running"

SavedBy(e) ==
    IF Outcome(e) = "OK" \/ killer[Target(e)] = e THEN disk[Path(e)] ELSE EmptyFile

Promise == INSTANCE Snapshot WITH
    Contents   <- [Cells -> Stored],
    NoSnapshot <- EmptyFile,
    order      <- config,
    outcome    <- [e \in Engines |-> Outcome(e)],
    saved      <- [e \in Engines |-> SavedBy(e)],
    ender      <- killer

(***************************************************************************)
(* A dump is an atomic copy (dumper.c:152-185, 649-670): whatever is       *)
(* interleaved with its steps, and wherever it fails, somebody who sees    *)
(* only outcomes, files on the disk and live processes sees Snapshot.      *)
(* For engines that do not write one another's files.                      *)
(***************************************************************************)
ImplementsSnapshot == Promise!Spec
=============================================================================
