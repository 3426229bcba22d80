------------------------------- MODULE Check --------------------------------
(***************************************************************************)
(* `ksnap -m Check`: main() of main.c, check_one() of checker.c and its    *)
(* ptrace probe, against a process that lives on meanwhile.                *)
(*                                                                         *)
(* Check predicts what a Dump would do without doing it.  Both classify    *)
(* mappings and descriptors with the same two functions (maps.c, fds.c)    *)
(* and then go their own ways; DumpAccepts is the way of dumper.c.         *)
(***************************************************************************)
EXTENDS CommandLine, Sequences, FiniteSets

CONSTANTS
    CommandLines,    \* what the engine may be started with
    Processes,       \* states the process may be in when the engine starts
    Pid,             \* its number
    MapsPool,        \* mappings it may gain or lose
    FdsPool,         \* descriptors it may gain or lose
    MaxKernelMaps,   \* KSNAP_MAX_KERNEL_MAPS
    MaxChanges,      \* bound: changes of the process while it is examined
    MaxSignals       \* bound: signals sent to it

ASSUME CheckAssumption ==
    /\ Pid \in Nat \ {0} /\ {MaxKernelMaps, MaxChanges, MaxSignals} \subseteq Nat
    /\ IsFiniteSet(MapsPool)

ASSUME CommandLinesAssumption ==
    \A argv \in CommandLines :
        Len(argv) \in Nat /\ \A k \in 1 .. Len(argv) : Proper(argv[k])

(* What Check and Dump look at of a process.  threads: one, or more;       *)
(* readable: the engine may read its /proc files; attachable: PTRACE_SEIZE *)
(* is not refused, which takes more than that (yama, capabilities).        *)
ProcessType ==
    [maps : SUBSET MapsPool, fds : SUBSET FdsPool, exe : {"runs", "deleted", "locked"},
     threads : {1, 2}, arguments : BOOLEAN, traced : BOOLEAN, readable : BOOLEAN,
     attachable : BOOLEAN, life : {"alive", "zombie", "gone"}]

ASSUME ProcessesAssumption == Processes # {} /\ Processes \subseteq ProcessType

VARIABLES
    argv,      \* the command line
    optind,    \* getopt's: the next option
    config,    \* what parse_arg has made of the options so far
    pc,        \* where the engine stands
    exit,      \* its exit status: none, OK, ERROR, BLOCKED (11), killed
    proc,      \* the process
    changes,   \* how often it has changed since the engine started
    status,    \* what /proc/pid/status said
    reasons,   \* reasons of the report
    facts,     \* the mappings and descriptors the report counts
    seized,    \* the engine is its tracer
    trap,      \* PTRACE_INTERRUPT has been asked for
    stop,      \* the ptrace stop it is in: none, interrupt, signal
    pending,   \* signals sent and not yet delivered
    sent,      \* signals sent so far
    lost,      \* history: signals the process never got
    early      \* history: a signal was still undelivered when the process was seized,
               \* or came between that and PTRACE_INTERRUPT

reportVars == <<status, reasons, facts>>
traceVars  == <<seized, trap, stop>>
signalVars == <<pending, sent, lost, early>>
procVars   == <<proc, changes>>
mainVars   == <<argv, optind, config>>
vars == <<mainVars, pc, exit, reportVars, procVars, traceVars, signalVars>>

-----------------------------------------------------------------------------

(***************************************************************************)
(* The two classifications.                                                *)
(***************************************************************************)

(* classify_maps_line.  `kind` is what the path says: kernel ([vdso],      *)
(* [vvar..), pseudo (another bracketed name), device (/dev/..), or plain.  *)
Classify(m) ==
    CASE m.kind = "kernel" -> "KERNEL"
      [] m.kind # "kernel" /\ ~m.read -> "SKIP_UNREADABLE"
      [] m.kind # "kernel" /\ m.read /\ ~m.private -> "SKIP_SHARED"
      [] m.kind = "pseudo" /\ m.read /\ m.private  -> "SKIP_PSEUDO"
      [] OTHER -> "DUMP"

OfClass(maps, class) == {m \in maps : Classify(m) = class}

(* classify_fd, tested in this order. *)
ClassifyFd(d) ==
    CASE d.fd <= 2                       -> "SKIP_STDIO"
      [] d.fd > 2 /\ d.link = "none"     -> "UNREADABLE"
      [] d.fd > 2 /\ d.link = "volatile" -> "SKIP_VOLATILE"
      [] d.fd > 2 /\ d.link \in {"path", "deleted"} ->
            CASE ~d.stat                   -> "UNREADABLE"
              [] d.stat /\ ~d.regular      -> "SKIP_OTHER"
              [] d.stat /\ d.regular /\ (d.link = "deleted" \/ ~d.same) -> "SKIP_UNREACHABLE"
              [] OTHER                     -> "DUMP"

FdsOfClass(fds, class) == {d \in fds : ClassifyFd(d) = class}

(***************************************************************************)
(* What a Dump of a process in this state comes to (dumper.c): it attaches,*)
(* resolves the executable, collects mappings and descriptors, and copies  *)
(* every mapping it has collected.                                         *)
(***************************************************************************)
DumpAccepts(p) ==
    /\ p.life = "alive" /\ p.readable /\ p.attachable /\ ~p.traced
    /\ Cardinality(OfClass(p.maps, "KERNEL")) <= MaxKernelMaps
    /\ OfClass(p.maps, "DUMP") # {}
    /\ \A m \in OfClass(p.maps, "DUMP") : m.copies
    /\ FdsOfClass(p.fds, "UNREADABLE") = {}

DumpedMaps(p) == OfClass(p.maps, "DUMP")
DumpedFds(p)  == FdsOfClass(p.fds, "DUMP")

-----------------------------------------------------------------------------

NoFacts  == [counted |-> {}, open |-> {}, carried |-> {}]
NoStatus == [threads |-> 0, dead |-> FALSE, traced |-> FALSE]

(* Nobody looks at the process before main is through. *)
Init ==
    /\ argv \in CommandLines /\ optind = 1
    /\ config = Defaults
    /\ proc = CHOOSE p \in Processes : TRUE
    /\ pc = "main" /\ exit = "none"
    /\ changes = 0
    /\ status = NoStatus /\ reasons = {} /\ facts = NoFacts
    /\ seized = FALSE /\ trap = FALSE /\ stop = "none"
    /\ pending = 0 /\ sent = 0 /\ lost = 0 /\ early = FALSE

(* parse_arg: one turn of the getopt loop. *)
GetOpt ==
    LET o == argv[optind] IN
    /\ pc = "main" /\ optind <= Len(argv)
    /\ IF Refusal(o) = "OK"
       THEN config' = Set(config, o) /\ optind' = optind + 1 /\ UNCHANGED <<pc, exit>>
       ELSE /\ exit' = IF Refusal(o) = "USAGE" THEN "OK" ELSE "ERROR"
            /\ pc' = "refused"
            /\ UNCHANGED <<config, optind>>
    /\ UNCHANGED <<argv, reportVars, procVars, traceVars, signalVars>>

(* main, after the last option: the mode that was asked for. *)
Main ==
    /\ pc = "main" /\ optind > Len(argv)
    /\ CASE Mandatory(config) # "OK" ->
                exit' = "ERROR" /\ pc' = "refused" /\ UNCHANGED proc
         [] Mandatory(config) = "OK" /\ config.mode # "CHECK" ->
                pc' = config.mode /\ UNCHANGED <<exit, proc>>
         [] OTHER -> pc' = "status" /\ proc' \in Processes /\ UNCHANGED exit
    /\ UNCHANGED <<mainVars, changes, reportVars, traceVars, signalVars>>

(* check(): one process and the probe with -p, a sweep of /proc without. *)
Probes == config.pid # NoPid

Present == proc.life # "gone" /\ config.pid \in {NoPid, Pid}

Report(why, next) ==
    /\ reasons' = reasons \cup why
    /\ pc' = next
    /\ UNCHANGED <<mainVars, exit, procVars, traceVars, signalVars>>

(* read_status_fields; a sealed /proc (hidepid) refuses even that. *)
ReadStatus ==
    /\ pc = "status"
    /\ \/ /\ ~Present
          /\ Report({"gone"}, "print")
          /\ UNCHANGED <<status, facts>>
       \/ /\ Present /\ ~proc.readable
          /\ Report({"not_inspectable"}, "print")
          /\ UNCHANGED <<status, facts>>
       \/ /\ Present
          /\ status' = [threads |-> proc.threads, dead |-> proc.life = "zombie",
                        traced |-> proc.traced]
          /\ Report({}, "cmdline")
          /\ UNCHANGED facts

(* read_cmdline_argc, and the cheap verdicts, which end the examination. *)
ReadCmdline ==
    LET why == {r \in {"multi_threaded", "zombie", "already_traced", "kernel_thread"} :
                  CASE r = "multi_threaded" -> status.threads > 1
                    [] r = "zombie"         -> status.dead
                    [] r = "already_traced" -> status.traced
                    [] r = "kernel_thread"  -> ~(proc.life = "alive" /\ proc.arguments)}
    IN  /\ pc = "cmdline"
        /\ Report(why, IF why = {} THEN "exe" ELSE "print")
        /\ UNCHANGED <<status, facts>>

ProbeExe ==
    /\ pc = "exe"
    /\ Report(CASE proc.life # "alive" -> {"exe_unreadable"}
                [] proc.life = "alive" /\ ~proc.readable -> {"not_inspectable"}
                [] proc.life = "alive" /\ proc.readable ->
                      [runs |-> {}, deleted |-> {"exe_deleted"},
                       locked |-> {"exe_not_executable"}][proc.exe],
              "maps")
    /\ UNCHANGED <<status, facts>>

Mut_TooManyKernelMaps(maps) == Cardinality(OfClass(maps, "KERNEL")) >= MaxKernelMaps

TooManyKernelMaps(maps) == Cardinality(OfClass(maps, "KERNEL")) > MaxKernelMaps

(* scan_maps: the maps of a zombie are empty, and those of nobody are gone. *)
ScanMaps ==
    LET maps  == IF proc.life = "alive" THEN proc.maps ELSE {}
        read  == OfClass(maps, "DUMP")
        found == {r \in {"shared_mapping", "device_mapping", "too_many_kernel_maps",
                         "no_dumpable_mapping"} :
                    CASE r = "shared_mapping"       -> OfClass(maps, "SKIP_SHARED") # {}
                      [] r = "device_mapping"       -> \E m \in read : m.kind = "device"
                      [] r = "too_many_kernel_maps" -> TooManyKernelMaps(maps)
                      [] r = "no_dumpable_mapping"  -> read = {}}
    IN  /\ pc = "maps"
        /\ CASE proc.life = "gone" -> Report({"gone"}, "fds") /\ UNCHANGED facts
             [] proc.life # "gone" /\ ~proc.readable ->
                    Report({"not_inspectable"}, "fds") /\ UNCHANGED facts
             [] OTHER -> Report(found, "fds") /\ facts' = [facts EXCEPT !.counted = read]
        /\ UNCHANGED status

(* scan_fds: counts without a verdict, and none at all if they cannot be   *)
(* listed.  The probe is left to an examination without reasons so far.    *)
Mut_ScanFds ==
    /\ pc = "fds"
    /\ facts' = [facts EXCEPT !.open    = {d \in proc.fds : d.fd > 2},
                              !.carried = {d \in proc.fds : d.regular}]
    /\ Report({}, IF Probes /\ reasons = {} THEN "probe" ELSE "print")
    /\ UNCHANGED status

Mut_Unprobed ==
    LET fds == IF proc.life = "alive" /\ proc.readable THEN proc.fds ELSE {} IN
    /\ pc = "fds"
    /\ facts' = [facts EXCEPT !.open    = fds \ FdsOfClass(fds, "SKIP_STDIO"),
                              !.carried = FdsOfClass(fds, "DUMP")]
    /\ Report({}, "print")
    /\ UNCHANGED status

ScanFds ==
    LET fds == IF proc.life = "alive" /\ proc.readable THEN proc.fds ELSE {} IN
    /\ pc = "fds"
    /\ facts' = [facts EXCEPT !.open    = fds \ FdsOfClass(fds, "SKIP_STDIO"),
                              !.carried = FdsOfClass(fds, "DUMP")]
    /\ Report({}, IF Probes /\ reasons = {} THEN "probe" ELSE "print")
    /\ UNCHANGED status

-----------------------------------------------------------------------------

(***************************************************************************)
(* probe_ptrace: the first four steps of a dump, undone right away.        *)
(***************************************************************************)
Traceable == proc.life = "alive" /\ proc.attachable /\ ~proc.traced

Seize ==
    /\ pc = "probe"
    /\ Traceable
    /\ seized' = TRUE
    /\ early' = (pending > 0)
    /\ pc' = "interrupt"
    /\ UNCHANGED <<mainVars, exit, reportVars, procVars, trap, stop, pending, sent, lost>>

SeizeRefused ==
    /\ pc = "probe"
    /\ ~Traceable
    /\ Report({"ptrace_refused"}, "print")
    /\ UNCHANGED <<status, facts>>

Mut_Interrupt ==
    /\ pc = "interrupt"
    /\ pc' = "wait"
    /\ UNCHANGED <<mainVars, exit, reportVars, procVars, traceVars, signalVars>>

Interrupt ==
    /\ pc = "interrupt"
    /\ proc.life = "alive"
    /\ trap' = TRUE
    /\ pc' = "wait"
    /\ UNCHANGED <<mainVars, exit, reportVars, procVars, seized, stop, signalVars>>

InterruptFails ==
    /\ pc = "interrupt"
    /\ proc.life # "alive"
    /\ reasons' = reasons \cup {"ptrace_refused"}
    /\ pc' = "print"
    /\ seized' = FALSE
    /\ UNCHANGED <<mainVars, exit, status, facts, procVars, trap, stop, signalVars>>

(* waitpid returns for any stop, and for the end of the process. *)
Waited ==
    /\ pc = "wait"
    /\ stop # "none" \/ proc.life # "alive"
    /\ Report(IF stop = "none" THEN {"ptrace_refused"} ELSE {}, "detach")
    /\ UNCHANGED <<status, facts>>

(* PTRACE_DETACH with signal 0: a signal the process had stopped to take   *)
(* is taken away from it.                                                  *)
Detach ==
    /\ pc = "detach"
    /\ reasons' = IF proc.life = "alive" THEN reasons ELSE reasons \cup {"ptrace_refused"}
    /\ lost' = IF stop = "signal" THEN lost + 1 ELSE lost
    /\ seized' = FALSE /\ trap' = FALSE /\ stop' = "none"
    /\ pc' = "print"
    /\ UNCHANGED <<mainVars, exit, status, facts, procVars, pending, sent, early>>

(* print_report, and the exit status: that of a sweep says nothing of the  *)
(* processes it went through.                                              *)
PrintReport ==
    /\ pc = "print"
    /\ pc' = "end"
    /\ exit' = IF Probes /\ reasons # {} THEN "BLOCKED" ELSE "OK"
    /\ UNCHANGED <<mainVars, reportVars, procVars, traceVars, signalVars>>

-----------------------------------------------------------------------------

(***************************************************************************)
(* What the engine does not control.                                       *)
(***************************************************************************)

Examining == pc \notin {"main", "refused", "end", "DUMP", "RESTORE"}

Toggle(set, x) == (set \ {x}) \cup ({x} \ set)

(* The process maps or unmaps, opens or closes, starts a thread; somebody  *)
(* deletes its executable, traces it, kills it, reaps it.                  *)
ProcessChanges ==
    /\ Examining /\ changes < MaxChanges
    /\ changes' = changes + 1
    /\ \/ /\ proc.life = "alive" /\ stop = "none"
          /\ \/ \E m \in MapsPool : proc' = [proc EXCEPT !.maps = Toggle(@, m)]
             \/ \E d \in FdsPool : proc' = [proc EXCEPT !.fds = Toggle(@, d)]
             \/ proc' = [proc EXCEPT !.threads = 3 - @]
       \/ proc' = [proc EXCEPT !.exe = "deleted"]
       \/ ~seized /\ proc' = [proc EXCEPT !.traced = ~@]
       \/ \E l \in {"zombie", "gone"} : proc' = [proc EXCEPT !.life = l]
    /\ stop' = IF proc'.life = "alive" THEN stop ELSE "none"
    /\ UNCHANGED <<mainVars, pc, exit, reportVars, seized, trap, signalVars>>

SignalArrives ==
    /\ Examining /\ sent < MaxSignals
    /\ proc.life = "alive"
    /\ pending' = pending + 1 /\ sent' = sent + 1
    /\ early' = (early \/ (seized /\ pc = "interrupt"))
    /\ UNCHANGED <<mainVars, pc, exit, reportVars, procVars, traceVars, lost>>

(* A process nobody has seized takes its signals. *)
SignalTaken ==
    /\ pending > 0 /\ ~seized /\ proc.life = "alive"
    /\ pending' = pending - 1
    /\ UNCHANGED <<mainVars, pc, exit, reportVars, procVars, traceVars, sent, lost, early>>

(* A seized one stops before it takes a signal; an interrupt it has been   *)
(* asked for comes first, and leaves the signal pending.                   *)
StopsForSignal ==
    /\ seized /\ stop = "none" /\ proc.life = "alive"
    /\ ~trap /\ pending > 0
    /\ stop' = "signal" /\ pending' = pending - 1
    /\ UNCHANGED <<mainVars, pc, exit, reportVars, procVars, seized, trap, sent, lost, early>>

StopsForInterrupt ==
    /\ seized /\ stop = "none" /\ proc.life = "alive"
    /\ trap
    /\ stop' = "interrupt"
    /\ UNCHANGED <<mainVars, pc, exit, reportVars, procVars, seized, trap, signalVars>>

(* The panel's CHECK_TIMEOUT: the kernel detaches, and a stop waitpid has  *)
(* not yet reported still hands over its signal.                           *)
EngineKilled ==
    /\ Examining
    /\ exit' = "killed" /\ pc' = "end"
    /\ seized' = FALSE /\ trap' = FALSE /\ stop' = "none"
    /\ IF stop # "signal" THEN UNCHANGED <<pending, lost>>
       ELSE IF pc = "detach" THEN lost' = lost + 1 /\ UNCHANGED pending
                             ELSE pending' = pending + 1 /\ UNCHANGED lost
    /\ UNCHANGED <<mainVars, reportVars, procVars, sent, early>>

Engine ==
    \/ GetOpt \/ Main \/ ReadStatus \/ ReadCmdline \/ ProbeExe \/ ScanMaps \/ ScanFds
    \/ Seize \/ SeizeRefused \/ Interrupt \/ InterruptFails \/ Waited \/ Detach
    \/ PrintReport

World ==
    \/ ProcessChanges \/ SignalArrives \/ SignalTaken
    \/ StopsForSignal \/ StopsForInterrupt \/ EngineKilled

Next == Engine \/ World

Spec == Init /\ [][Next]_vars

-----------------------------------------------------------------------------

Reasons == {"gone", "not_inspectable", "multi_threaded", "zombie", "already_traced",
            "kernel_thread", "exe_unreadable", "exe_deleted", "exe_not_executable",
            "shared_mapping", "device_mapping", "too_many_kernel_maps",
            "no_dumpable_mapping", "ptrace_refused"}

TypeOK ==
    /\ pc = "main" => argv \in CommandLines
    /\ optind \in 1 .. Len(argv) + 1
    /\ config \in [mode : {"none", "DUMP", "RESTORE", "CHECK"}, pid : NoPid .. MaxPid,
                   name : 1 .. NAME_MAX, dir : Nat, kill : BOOLEAN]
    /\ pc \in {"main", "refused", "status", "cmdline", "exe", "maps", "fds", "probe", "interrupt",
               "wait", "detach", "print", "end", "DUMP", "RESTORE"}
    /\ exit \in {"none", "OK", "ERROR", "BLOCKED", "killed"}
    /\ proc \in ProcessType
    /\ changes \in 0 .. MaxChanges
    /\ reasons \subseteq Reasons /\ Cardinality(reasons) <= 8
    /\ status \in [threads : 0 .. 2, dead : BOOLEAN, traced : BOOLEAN]
    /\ facts \in [counted : SUBSET MapsPool, open : SUBSET FdsPool, carried : SUBSET FdsPool]
    /\ facts.carried \subseteq facts.open
    /\ stop \in {"none", "interrupt", "signal"} /\ (stop # "none" => seized)
    /\ {seized, trap, early} \subseteq BOOLEAN
    /\ {pending, sent, lost} \subseteq 0 .. MaxSignals

(* Reasons Check has beyond the limits of Dump: the restore could not bring *)
(* such a process back, or the dump would come out wrong without failing.   *)
Stricter == {"multi_threaded", "kernel_thread", "exe_deleted", "exe_not_executable",
             "shared_mapping", "device_mapping"}

(* Neither of these is looked at before a dump: a descriptor that cannot be *)
(* read, and a mapping outside /dev whose pages cannot be copied.           *)
Overlooked(p) ==
    \/ FdsOfClass(p.fds, "UNREADABLE") # {}
    \/ \E m \in DumpedMaps(p) : m.kind # "device" /\ ~m.copies

(***************************************************************************)
(* Check and Dump do not drift apart (check_mode.md:63-69): about a        *)
(* process that stays as it was, "dumpable" means that a Dump succeeds,    *)
(* and copies just the mappings and carries just the descriptors that were *)
(* counted; and a reason Dump does not share is one of the Stricter ones.  *)
(***************************************************************************)
VerdictIsRight ==
    pc = "end" /\ config.mode = "CHECK" /\ exit \in {"OK", "BLOCKED"}
    /\ config.pid = Pid /\ changes = 0 =>
        /\ reasons = {} /\ ~Overlooked(proc) =>
              /\ DumpAccepts(proc)
              /\ facts.counted = DumpedMaps(proc)
              /\ facts.carried = DumpedFds(proc)
        /\ reasons \ Stricter # {} => ~DumpAccepts(proc)

(***************************************************************************)
(* "the first four steps of a dump, undone right away" (checker.c:432-434):*)
(* the probe costs the process one signal at most, and that only if it was *)
(* undelivered when PTRACE_INTERRUPT was asked for: sent before            *)
(* PTRACE_SEIZE and not yet taken, or between the two.  One sent later is  *)
(* never lost.                                                             *)
(***************************************************************************)
SignalsKept == lost <= IF early THEN 1 ELSE 0

(***************************************************************************)
(* CommandLine's Sound for what this engine was started with, once main    *)
(* (main.c:14-27) has picked a mode.                                       *)
(***************************************************************************)
CommandLineIsSound == pc \notin {"main", "refused"} => Sound(config)
=============================================================================
