------------------------------ MODULE Restore -------------------------------
(***************************************************************************)
(* `ksnap -m Restore`: restorer() of restorer.c.  The engine forks a child *)
(* that becomes a fresh run of the dumped program, stops at its exec, and  *)
(* is then rebuilt from outside by injected system calls: close-on-exec    *)
(* flags, the move of the kernel mappings, one mmap and one payload per    *)
(* memory area, one mprotect per area, and at last the registers.  A       *)
(* restore that fails on the way kills the child instead of releasing it.  *)
(*                                                                         *)
(* What an area holds is abstracted to "is it the payload", the code at    *)
(* the injection site (the child's rip) to which version of it is there.   *)
(***************************************************************************)
EXTENDS Integers, Sequences

CONSTANTS
    NAreas,      \* memory areas of the snapshot, in table order
    NFlags,      \* descriptors of the snapshot that were close-on-exec
    MaxSignals,  \* bound: stray signals that reach the child
    Crashes      \* whether the engine itself may be killed

Areas == 1 .. NAreas
Prots == {"rwx", "exec", "noexec"}   \* rwx, executable but not rwx, the rest

ASSUME SizesAssumption   == NAreas \in Nat \ {0} /\ NFlags \in Nat
ASSUME SignalsAssumption == MaxSignals \in Nat /\ Crashes \in BOOLEAN

VARIABLES
    snap,      \* the snapshot: recorded protections, the area that will hold the
               \* child's rip (0: none), the area lying over the child's own vdso
               \* (0: none), the areas the fresh program maps by itself
    pc,        \* where the engine stands in restorer()
    result,    \* its `result`
    todo,      \* the work left: injected calls and payload copies
    outcome,   \* how the injected call ended: done, failed or skipped
    child,     \* the new process, "none" before the fork, "reaped" after waitpid
    image,     \* what it executes: the forked engine or the snapshot's program
    signals,   \* stray signals not yet delivered
    sent,      \* stray signals so far
    area,      \* each area: absent, own (the fresh program's), rwx, final
    content,   \* each area: other, payload
    word,      \* the instruction at the injection site: exe, zero, payload, opcode
    under,     \* original_code of inject_syscall
    kmap,      \* the kernel mappings of the child: own, wanted, lost
    cloexec,   \* descriptors that are close-on-exec again
    regs,      \* registers of the child: exe, call, snapshot
    xstate,    \* whether the FPU state is the snapshot's
    released   \* history: the engine detached from a stopped child

childVars  == <<child, image, signals, sent>>
memoryVars == <<area, content, word, kmap, cloexec>>
cpuVars    == <<regs, xstate>>
vars == <<snap, pc, result, todo, outcome, under, childVars, memoryVars, cpuVars, released>>

-----------------------------------------------------------------------------

(***************************************************************************)
(* The work in the order restorer() does it.                               *)
(***************************************************************************)
Job(op, n) == [op |-> op, n |-> n]

FlagJobs == [i \in 1 .. NFlags |-> Job("flag", i)]
MoveJobs == <<Job("move", 0)>>
Mut_AreaJobs == [k \in 1 .. 2 * NAreas + 2 |->
                    Job(IF k % 2 = 1 THEN "map" ELSE "fill", (k + 1) \div 2)]

AreaJobs == [k \in 1 .. 2 * NAreas |->
                Job(IF k % 2 = 1 THEN "map" ELSE "fill", (k + 1) \div 2)]

(* An area that was RWX already is what it should be. *)
NeedsProtect(s, a) == s.prot[a] # "rwx"

(* A round of a loop that has nothing to do. *)
Continue == Job("none", 0)

Mut_ProtectJobs(s) ==
    [a \in Areas |-> IF NeedsProtect(s, a) THEN Job("protect", a) ELSE Continue]

(* The area that holds the injection site is left out, and comes last. *)
ProtectJobs(s) ==
    [k \in 1 .. NAreas + 1 |->
        LET a == IF k > NAreas THEN s.site ELSE IF k = s.site THEN 0 ELSE k
        IN  IF a # 0 /\ NeedsProtect(s, a) THEN Job("protect", a) ELSE Continue]

Mut_Jobs(s) == FlagJobs \o AreaJobs \o MoveJobs \o ProtectJobs(s)

Jobs(s) == FlagJobs \o MoveJobs \o AreaJobs \o ProtectJobs(s)

Snapshots ==
    {s \in [prot : [Areas -> Prots], site : 0 .. NAreas, over : 0 .. NAreas,
            own : SUBSET Areas] :
        s.site # 0 => s.site \in s.own}

Init ==
    /\ snap \in Snapshots
    /\ pc = "metadata" /\ result = "ERROR" /\ todo = <<>> /\ outcome = "done"
    /\ child = "none" /\ image = "engine" /\ signals = 0 /\ sent = 0
    /\ area = [a \in Areas |-> IF a \in snap.own THEN "own" ELSE "absent"]
    /\ content = [a \in Areas |-> "other"]
    /\ word = "exe" /\ under = "exe"
    /\ kmap = "own" /\ cloexec = {}
    /\ regs = "exe" /\ xstate = FALSE
    /\ released = FALSE

-----------------------------------------------------------------------------

(***************************************************************************)
(* Up to the exec.  The metadata is read and checked before the fork; the  *)
(* child reopens the descriptors, asks to be traced and execs.             *)
(***************************************************************************)
ReadMetadata ==
    /\ pc = "metadata"
    /\ pc' \in {"fork", "end"}
    /\ UNCHANGED <<snap, result, todo, outcome, under, childVars, memoryVars, cpuVars, released>>

Fork ==
    /\ pc = "fork"
    /\ \/ pc' = "waiting" /\ child' = "opening"
       \/ pc' = "end" /\ UNCHANGED child
    /\ UNCHANGED <<snap, result, todo, outcome, under, image, signals, sent, memoryVars,
                   cpuVars, released>>

(* spawn_traced_child up to the exec: a descriptor that does not open exits  *)
(* the child, a refused PTRACE_TRACEME goes unnoticed.                      *)
ChildOpens ==
    /\ child = "opening"
    /\ child' \in {"traced", "untraced", "dead"}
    /\ UNCHANGED <<snap, pc, result, todo, outcome, under, image, signals, sent, memoryVars,
                   cpuVars, released>>

(* A successful exec stops a traced child; one that is not traced, or has   *)
(* lost its tracer, just runs the program from its start.                   *)
ChildExecs ==
    /\ (child = "traced" /\ signals = 0) \/ child = "untraced"
    /\ \/ /\ image' = "exe"
          /\ child' = IF child = "untraced" \/ pc = "crashed" THEN "running" ELSE "stopped"
       \/ child' = "dead" /\ UNCHANGED image
    /\ UNCHANGED <<snap, pc, result, todo, outcome, under, signals, sent, memoryVars,
                   cpuVars, released>>

(* A signal stops a traced child as well, before its exec. *)
SignalBeforeExec ==
    /\ child = "traced" /\ signals > 0
    /\ signals' = signals - 1
    /\ child' \in (IF pc = "crashed" THEN {"traced", "dead"} ELSE {"stopped"})
    /\ UNCHANGED <<snap, pc, result, todo, outcome, under, image, sent, memoryVars,
                   cpuVars, released>>

FirstWait ==
    /\ pc = "waiting"
    /\ \/ /\ child = "stopped"
          /\ pc' = "opening"
          /\ UNCHANGED child
       \/ /\ child = "dead"
          /\ child' = "reaped"
          /\ pc' = "end"
    /\ UNCHANGED <<snap, result, todo, outcome, under, image, signals, sent, memoryVars,
                   cpuVars, released>>

(* /proc/<pid>/mem is opened for writing. *)
OpenMem ==
    /\ pc = "opening"
    /\ \/ pc' = "working" /\ todo' = Jobs(snap)
       \/ pc' = "killing" /\ UNCHANGED todo
    /\ UNCHANGED <<snap, result, outcome, under, childVars, memoryVars, cpuVars, released>>

-----------------------------------------------------------------------------

(***************************************************************************)
(* inject_syscall: registers and opcode go in, one instruction is stepped, *)
(* then code and registers go back and the result is looked at.            *)
(***************************************************************************)
Injecting == pc = "working" /\ todo # <<>> /\ Head(todo).op \notin {"fill", "none"}

Plant ==
    /\ Injecting
    /\ child = "stopped"
    /\ under' = word
    /\ word' = "opcode" /\ regs' = "call"
    /\ pc' = "planted"
    /\ UNCHANGED <<snap, result, todo, outcome, childVars, area, content, kmap, cloexec, xstate,
                   released>>

(* A kernel mapping is missing, of another size, or would overlap its       *)
(* destination: the restore gives up before it moves anything.              *)
MoveRefused ==
    /\ Injecting
    /\ Head(todo).op = "move"
    /\ pc' = "killing"
    /\ UNCHANGED <<snap, result, todo, outcome, under, childVars, memoryVars, cpuVars, released>>

SingleStep ==
    /\ pc = "planted"
    /\ child = "stopped"
    /\ child' = "stepping"
    /\ pc' = "stepping"
    /\ UNCHANGED <<snap, result, todo, outcome, under, image, signals, sent, memoryVars,
                   cpuVars, released>>

(* A ptrace request on a child that died in the meantime fails. *)
RequestFails ==
    /\ pc \in {"planted", "regs", "xstate"} \/ Injecting
    /\ child = "dead"
    /\ pc' = "killing"
    /\ UNCHANGED <<snap, result, todo, outcome, under, childVars, memoryVars, cpuVars, released>>

SiteExecutable ==
    \/ snap.site = 0
    \/ area[snap.site] \in {"own", "rwx"}
    \/ snap.prot[snap.site] = "exec"

(* What the injected call does to the child. *)
Effect(job) ==
    CASE job.op = "flag" ->
            /\ cloexec' = cloexec \cup {job.n}
            /\ UNCHANGED <<area, content, word, kmap>>
      [] job.op = "move" ->
            /\ kmap' = IF kmap = "own" THEN "wanted" ELSE kmap
            /\ UNCHANGED <<area, content, word, cloexec>>
      [] job.op = "map" ->
            /\ area'    = [area EXCEPT ![job.n] = "rwx"]
            /\ content' = [content EXCEPT ![job.n] = "other"]
            /\ word'    = IF job.n = snap.site THEN "zero" ELSE word
            /\ kmap'    = IF job.n = snap.over /\ kmap = "own" THEN "lost" ELSE kmap
            /\ UNCHANGED cloexec
      [] job.op = "protect" ->
            /\ area' = [area EXCEPT ![job.n] = "final"]
            /\ UNCHANGED <<content, word, kmap, cloexec>>

(* The child runs its one instruction.  A pending signal stops it before    *)
(* that, as does the fault of a site that is no longer executable: either   *)
(* way rax still holds the number of the call.                              *)
ChildSteps ==
    /\ child = "stepping"
    /\ child' = "stopped"
    /\ IF signals > 0 \/ ~SiteExecutable
       THEN /\ outcome' = "skipped"
            /\ signals' = IF signals > 0 THEN signals - 1 ELSE 0
            /\ UNCHANGED memoryVars
       ELSE /\ UNCHANGED signals
            /\ \/ outcome' = "done" /\ Effect(Head(todo))
               \/ outcome' = "failed" /\ UNCHANGED memoryVars
    /\ UNCHANGED <<snap, pc, result, todo, under, image, sent, cpuVars, released>>

(* waitpid, whose status is not looked at; a call that only returned its   *)
(* own number passes for a success.                                        *)
Undo ==
    /\ pc = "stepping"
    /\ child = "stopped"
    /\ word' = under
    /\ regs' = "exe"
    /\ IF outcome = "failed" THEN pc' = "killing" /\ UNCHANGED todo
                             ELSE pc' = "working" /\ todo' = Tail(todo)
    /\ UNCHANGED <<snap, result, outcome, under, childVars, area, content, kmap, cloexec, xstate,
                   released>>

(* The child was killed during the step: that very waitpid reaps it. *)
StepReaps ==
    /\ pc = "stepping"
    /\ child = "dead"
    /\ child' = "reaped"
    /\ pc' = "killing"
    /\ UNCHANGED <<snap, result, todo, outcome, under, image, signals, sent, memoryVars,
                   cpuVars, released>>

(* The payload goes through /proc/<pid>/mem, which heeds no protection but  *)
(* needs some mapping at the address, and a child to belong to.             *)
Fill ==
    LET a == Head(todo).n IN
    /\ pc = "working" /\ todo # <<>> /\ Head(todo).op = "fill"
    /\ child = "stopped"
    /\ area[a] # "absent"
    /\ content' = [content EXCEPT ![a] = "payload"]
    /\ word' = IF a = snap.site THEN "payload" ELSE word
    /\ todo' = Tail(todo)
    /\ UNCHANGED <<snap, pc, result, outcome, under, childVars, area, kmap, cloexec, cpuVars,
                   released>>

(* A short read of the snapshot or a refused write ends the restore. *)
FillFails ==
    /\ pc = "working" /\ todo # <<>> /\ Head(todo).op = "fill"
    /\ pc' = "killing"
    /\ UNCHANGED <<snap, result, todo, outcome, under, childVars, memoryVars, cpuVars, released>>

(* A round of restore_protections that `continue`s, or has no site left.   *)
LoopsOn ==
    /\ pc = "working" /\ todo # <<>> /\ Head(todo) = Continue
    /\ todo' = Tail(todo)
    /\ UNCHANGED <<snap, pc, result, outcome, under, childVars, memoryVars, cpuVars, released>>

AllInjected ==
    /\ pc = "working" /\ todo = <<>>
    /\ pc' = "regs"
    /\ UNCHANGED <<snap, result, todo, outcome, under, childVars, memoryVars, cpuVars, released>>

SetFinalRegs ==
    /\ pc = "regs"
    /\ child = "stopped"
    /\ regs' = "snapshot"
    /\ pc' = "xstate"
    /\ UNCHANGED <<snap, result, todo, outcome, under, childVars, memoryVars, xstate, released>>

SetFinalXstate ==
    /\ pc = "xstate"
    /\ child = "stopped"
    /\ \/ xstate' = TRUE /\ pc' = "release" /\ result' = "OK"
       \/ pc' = "killing" /\ UNCHANGED <<xstate, result>>
    /\ UNCHANGED <<snap, todo, outcome, under, childVars, memoryVars, regs, released>>

-----------------------------------------------------------------------------

(***************************************************************************)
(* The end: detach and wait for the program to finish, or kill and reap.   *)
(***************************************************************************)
Release ==
    /\ pc = "release"
    /\ pc' = "reaping"
    /\ IF child = "stopped" THEN child' = "running" /\ released' = TRUE
                            ELSE UNCHANGED <<child, released>>
    /\ UNCHANGED <<snap, result, todo, outcome, under, image, signals, sent, memoryVars,
                   cpuVars>>

Mut_KillChild ==
    /\ pc = "killing"
    /\ pc' = "reaping"
    /\ child' = IF child = "stopped" THEN "running" ELSE child
    /\ UNCHANGED <<snap, result, todo, outcome, under, image, signals, sent, memoryVars,
                   cpuVars, released>>

KillChild ==
    /\ pc = "killing"
    /\ pc' = "reaping"
    /\ child' = IF child = "reaped" THEN child ELSE "dead"
    /\ UNCHANGED <<snap, result, todo, outcome, under, image, signals, sent, memoryVars,
                   cpuVars, released>>

Mut_LastWait ==
    /\ pc = "reaping"
    /\ pc' = "end"
    /\ UNCHANGED <<snap, result, todo, outcome, under, childVars, memoryVars, cpuVars, released>>

LastWait ==
    /\ pc = "reaping"
    /\ child \in {"dead", "reaped"}
    /\ child' = "reaped"
    /\ pc' = "end"
    /\ UNCHANGED <<snap, result, todo, outcome, under, image, signals, sent, memoryVars,
                   cpuVars, released>>

-----------------------------------------------------------------------------

(***************************************************************************)
(* What the engine does not control.                                       *)
(***************************************************************************)

(* The restored program ends by itself, or somebody kills the child. *)
ChildDies ==
    /\ child \in {"opening", "traced", "untraced", "stopped", "stepping", "running"}
    /\ child' = "dead"
    /\ UNCHANGED <<snap, pc, result, todo, outcome, under, image, signals, sent, memoryVars,
                   cpuVars, released>>

(* A signal for the whole process group, say SIGWINCH, which a traced       *)
(* process stops for even when it would ignore it.                          *)
SignalArrives ==
    /\ child \in {"traced", "stopped", "stepping"}
    /\ sent < MaxSignals
    /\ signals' = signals + 1 /\ sent' = sent + 1
    /\ UNCHANGED <<snap, pc, result, todo, outcome, under, child, image, memoryVars,
                   cpuVars, released>>

(* The engine is killed: no PTRACE_O_EXITKILL is set, so the kernel just    *)
(* lets go of the child, whatever state it is in.                           *)
EngineDies ==
    /\ Crashes
    /\ pc \notin {"metadata", "fork", "end", "crashed"}
    /\ pc' = "crashed"
    /\ child' = IF child \in {"stopped", "stepping"} THEN "running" ELSE child
    /\ UNCHANGED <<snap, result, todo, outcome, under, image, signals, sent, memoryVars,
                   cpuVars, released>>

EngineStep ==
    \/ ReadMetadata \/ Fork \/ FirstWait \/ OpenMem
    \/ Plant \/ MoveRefused \/ SingleStep \/ Undo \/ StepReaps \/ RequestFails
    \/ Fill \/ FillFails \/ LoopsOn \/ AllInjected
    \/ SetFinalRegs \/ SetFinalXstate \/ Release \/ KillChild \/ LastWait

ChildStep == ChildOpens \/ ChildExecs \/ SignalBeforeExec \/ ChildSteps

Next == EngineStep \/ ChildStep \/ ChildDies \/ SignalArrives \/ EngineDies

Spec == Init /\ [][Next]_vars

(* The engine and its child are sequential programs the scheduler runs. *)
FairSpec == Spec /\ WF_vars(EngineStep) /\ WF_vars(ChildStep)

-----------------------------------------------------------------------------

TypeOK ==
    /\ snap \in Snapshots
    /\ pc \in {"metadata", "fork", "waiting", "opening", "working", "planted", "stepping",
               "regs", "xstate", "release", "killing", "reaping", "end", "crashed"}
    /\ result \in {"OK", "ERROR"}
    /\ todo \in Seq([op : {"flag"}, n : 1 .. NFlags] \cup [op : {"move", "none"}, n : {0}]
                     \cup [op : {"map", "fill", "protect"}, n : Areas])
    /\ outcome \in {"done", "failed", "skipped"}
    /\ child \in {"none", "opening", "traced", "untraced", "stopped", "stepping", "running",
                  "dead", "reaped"}
    /\ image \in {"engine", "exe"}
    /\ signals \in 0 .. MaxSignals /\ sent \in 0 .. MaxSignals
    /\ area \in [Areas -> {"absent", "own", "rwx", "final"}]
    /\ content \in [Areas -> {"other", "payload"}]
    /\ {word, under} \subseteq {"exe", "zero", "payload", "opcode"}
    /\ kmap \in {"own", "wanted", "lost"}
    /\ cloexec \subseteq 1 .. NFlags
    /\ regs \in {"exe", "call", "snapshot"}
    /\ {xstate, released} \subseteq BOOLEAN

(* The child is the dumped process: program, memory, protections, vdso,     *)
(* descriptor flags, registers.                                             *)
Complete ==
    /\ image = "exe"
    /\ \A a \in Areas :
         /\ content[a] = "payload"
         /\ area[a] = IF NeedsProtect(snap, a) THEN "final" ELSE "rwx"
    /\ word = IF snap.site = 0 THEN "exe" ELSE "payload"
    /\ kmap = "wanted"
    /\ cloexec = 1 .. NFlags
    /\ regs = "snapshot" /\ xstate

(***************************************************************************)
(* The restore detaches (restorer.c:186) only from a process rebuilt in    *)
(* every respect: no planted opcode left in its code, the vdso moved       *)
(* before an area could land on it, and no injected call silently lost.    *)
(* Stray signals may swallow a call, see ProtectionsGiven, but even then   *)
(* the memory is the snapshot's: a payload is either written through       *)
(* (restorer.c:526-531) or ends the restore.                               *)
(***************************************************************************)
ReleasedIsComplete ==
    released => /\ \A a \in Areas : content[a] = "payload"
                /\ sent = 0 => Complete

(***************************************************************************)
(* "give every area the protection recorded in the snapshot"               *)
(* (restorer.c:658): no area of a released process is left with the RWX    *)
(* it was mapped with, unless the snapshot has it RWX.                     *)
(***************************************************************************)
ProtectionsGiven ==
    released => \A a \in Areas : area[a] = "rwx" => ~NeedsProtect(snap, a)

(***************************************************************************)
(* "the area holding rip must stay executable until the end"               *)
(* (restorer.c:660-661): whenever an opcode is planted it can be run.      *)
(***************************************************************************)
SiteStaysExecutable == pc = "planted" => SiteExecutable

(***************************************************************************)
(* An engine that ends (restorer.c:184-222) leaves no child behind, neither *)
(* running nor as a zombie, whichever step failed.                         *)
(***************************************************************************)
NothingLeftBehind == pc = "end" => child \in {"none", "reaped"}

(* A child whose PTRACE_TRACEME was refused (restorer.c:884) is no restored *)
(* program, and the engine's first waitpid (110) lasts as long as it runs.  *)
RunsUntraced == pc = "waiting" /\ child = "running"

(***************************************************************************)
(* A restore gets rid of its child when it fails (restorer.c:145-222): it  *)
(* lets the program go, or ends with nothing left behind, whichever step   *)
(* failed; unless the engine is killed meanwhile, or runs the program      *)
(* untraced, see RunsUntraced.                                             *)
(***************************************************************************)
RestoreSettles ==
    <>(\/ released
       \/ pc = "end" /\ child \in {"none", "reaped"}
       \/ pc = "crashed"
       \/ RunsUntraced)
=============================================================================
