---------------------------- MODULE CheckProofs -----------------------------
(***************************************************************************)
(* Proofs about Check: for any command lines, any process, any number of   *)
(* changes and signals.  CheckInv is the inductive invariant; its parts    *)
(* say what parse_arg has let through, which reasons can come together,    *)
(* where the signals of the process are, and how far the examination has   *)
(* come.                                                                   *)
(***************************************************************************)
EXTENDS Check, FiniteSetTheorems, TLAPS

(* What parse_arg has let through so far, and what main lets pass.         *)
LineOK ==
    /\ argv \in CommandLines
    /\ config.dir <= PATH_MAX - NAME_MAX - 2
    /\ pc \notin {"main", "refused"} => Sound(config)

(* Which reasons can come together: those of the command line end the      *)
(* examination, and the probe is only for a process without any.           *)
CmdlineReasons == {"multi_threaded", "zombie", "already_traced", "kernel_thread"}

WalkReasons == {"gone", "not_inspectable", "shared_mapping", "device_mapping",
                "too_many_kernel_maps", "no_dumpable_mapping"}

ExeReasons == {"exe_unreadable", "exe_deleted", "exe_not_executable", "not_inspectable"}

ReasonsOK ==
    /\ \/ pc = "print" /\ reasons \subseteq CmdlineReasons
       \/ pc = "end" /\ reasons \subseteq CmdlineReasons
       \/ \E x \in ExeReasons : reasons \subseteq WalkReasons \cup {x}
       \/ reasons \subseteq {"ptrace_refused"}
    /\ pc \in {"main", "refused", "DUMP", "RESTORE", "status", "cmdline", "exe", "probe",
               "interrupt", "wait"} => reasons = {}
    /\ pc = "maps" => \E x \in ExeReasons : reasons \subseteq {x}
    /\ pc = "fds" => \E x \in ExeReasons : reasons \subseteq WalkReasons \cup {x}
    /\ pc = "detach" => reasons \subseteq {"ptrace_refused"}

(* The tracer and its signals: none is lost but one that was undelivered   *)
(* when the interrupt was asked for, and those not delivered are no more   *)
(* than those sent.                                                        *)
SignalsOK ==
    /\ seized <=> pc \in {"interrupt", "wait", "detach"}
    /\ trap <=> pc \in {"wait", "detach"}
    /\ stop # "none" => seized /\ proc.life = "alive"
    /\ stop = "signal" => early
    /\ pc = "interrupt" /\ pending > 0 => early
    /\ lost > 0 => pc \in {"print", "end"} /\ early
    /\ lost <= 1
    /\ pending + lost + (IF stop = "signal" THEN 1 ELSE 0) <= sent

(* How far the examination of the process asked about has come, if that    *)
(* has not changed since.                                                  *)
Steady == config.pid = Pid /\ changes = 0

Printed == pc = "print" \/ (pc = "end" /\ exit \in {"OK", "BLOCKED"})

StatusRead ==
    pc = "cmdline" => (status.dead <=> proc.life = "zombie") /\ (status.traced <=> proc.traced)

Living ==
    pc \in {"exe", "maps", "fds", "probe", "interrupt", "wait", "detach"}
    \/ (Printed /\ reasons = {}) => proc.life = "alive" /\ ~proc.traced

Readable ==
    pc \in {"maps", "fds", "probe", "interrupt", "wait", "detach"} \/ Printed =>
        (reasons = {} => proc.readable)

Attachable ==
    pc \in {"interrupt", "wait", "detach"} \/ Printed =>
        (reasons = {} => proc.attachable)

MapsScanned ==
    pc \in {"fds", "probe", "interrupt", "wait", "detach"} \/ Printed =>
        (reasons = {} =>
            /\ Cardinality(OfClass(proc.maps, "KERNEL")) <= MaxKernelMaps
            /\ DumpedMaps(proc) # {}
            /\ \A m \in DumpedMaps(proc) : m.kind # "device"
            /\ facts.counted = DumpedMaps(proc))

FdsScanned ==
    pc \in {"probe", "interrupt", "wait", "detach"} \/ Printed =>
        (reasons = {} => facts.carried = DumpedFds(proc))

Deserved == reasons \ Stricter # {} => ~DumpAccepts(proc)

Verdict == StatusRead /\ Living /\ Readable /\ Attachable /\ MapsScanned /\ FdsScanned /\ Deserved

VerdictOK == Steady => Verdict

CheckInv == TypeOK /\ LineOK /\ ReasonsOK /\ SignalsOK /\ VerdictOK

Configs ==
    [mode : {"none", "DUMP", "RESTORE", "CHECK"}, pid : NoPid .. MaxPid,
     name : 1 .. NAME_MAX, dir : Nat, kill : BOOLEAN]

-----------------------------------------------------------------------------

(***************************************************************************)
(* The command line.                                                       *)
(***************************************************************************)

(* An option parse_arg's loop has not refused leaves a config of the right *)
(* type, with a directory that leaves room for the longest name.           *)
LEMMA SetIsProper ==
    ASSUME NEW c \in Configs, c.dir <= PATH_MAX - NAME_MAX - 2,
           NEW o, Proper(o), Refusal(o) = "OK"
    PROVE  Set(c, o) \in Configs /\ Set(c, o).dir <= PATH_MAX - NAME_MAX - 2
<1>1. CASE o.opt = "m"
  <2>1. o.arg \in {"Dump", "Restore", "Check"}
    BY <1>1 DEF Refusal, ValidMode, Modes
  <2>2. Modes[o.arg] \in {"DUMP", "RESTORE", "CHECK"}
    BY <2>1 DEF Modes
  <2>3. Set(c, o) = [c EXCEPT !.mode = Modes[o.arg]]
    BY <1>1 DEF Set
  <2> QED BY <2>2, <2>3 DEF Configs
<1>2. CASE o.opt = "p"
  <2>1. o.arg.value \in 0 .. MaxPid
    BY <1>2, SMT DEF Refusal, Proper
  <2>2. Set(c, o) = [c EXCEPT !.pid = o.arg.value]
    BY <1>2 DEF Set
  <2>3. o.arg.value \in NoPid .. MaxPid
    <3>1. \A v \in 0 .. MaxPid : v \in NoPid .. MaxPid
      <4>1. MaxPid \in Int
        BY SMT DEF MaxPid
      <4> QED BY <4>1, SMT DEF NoPid
    <3> QED BY <2>1, <3>1
  <2> QED BY <2>2, <2>3 DEF Configs
<1>3. CASE o.opt = "n"
  <2>1. o.arg.size \in 1 .. NAME_MAX
    BY <1>3 DEF Refusal, ValidName
  <2>2. Set(c, o) = [c EXCEPT !.name = o.arg.size]
    BY <1>3 DEF Set
  <2> QED BY <2>1, <2>2 DEF Configs
<1>4. CASE o.opt = "d"
  <2>1. o.arg.size \in Nat /\ o.arg.size <= PATH_MAX - NAME_MAX - 2
    BY <1>4, SMT DEF Refusal, ValidDir, Proper
  <2>2. Set(c, o) = [c EXCEPT !.dir = o.arg.size]
    BY <1>4 DEF Set
  <2> QED BY <2>1, <2>2 DEF Configs
<1>5. CASE o.opt = "k"
  <2>1. Set(c, o) = [c EXCEPT !.kill = TRUE]
    BY <1>5 DEF Set
  <2> QED BY <2>1 DEF Configs
<1>6. o.opt \in {"m", "p", "n", "d", "k"}
  BY DEF Refusal
<1> QED BY <1>1, <1>2, <1>3, <1>4, <1>5, <1>6

(* What validate_mandatory_args lets pass is sound.                        *)
LEMMA MandatoryIsSound ==
    ASSUME NEW c \in Configs, c.dir <= PATH_MAX - NAME_MAX - 2, Mandatory(c) = "OK"
    PROVE  Sound(c)
<1>1. c.mode # "none" /\ (c.mode = "DUMP" => c.pid # NoPid)
      /\ (c.kill => c.mode = "DUMP")
  BY DEF Mandatory, Configs
<1>2. c.mode = "DUMP" => c.pid >= 0
  BY <1>1 DEF Configs, NoPid
<1>3. PathLength(c) < PATH_MAX
  BY DEF PathLength, Configs, PATH_MAX, NAME_MAX
<1> QED BY <1>1, <1>2, <1>3 DEF Sound, Configs

-----------------------------------------------------------------------------

(***************************************************************************)
(* The process and the reasons.                                            *)
(***************************************************************************)

(* What a process does to itself, or others do to it, leaves a process.    *)
LEMMA ChangesAreProper ==
    ASSUME proc \in ProcessType, ProcessChanges
    PROVE  proc' \in ProcessType
<1>1. CASE \E m \in MapsPool : proc' = [proc EXCEPT !.maps = Toggle(@, m)]
  <2>1. PICK m \in MapsPool : proc' = [proc EXCEPT !.maps = Toggle(@, m)]
    BY <1>1
  <2>2. Toggle(proc.maps, m) \in SUBSET MapsPool
    BY DEF ProcessType, Toggle
  <2> QED BY <2>1, <2>2 DEF ProcessType
<1>2. CASE \E d \in FdsPool : proc' = [proc EXCEPT !.fds = Toggle(@, d)]
  <2>1. PICK d \in FdsPool : proc' = [proc EXCEPT !.fds = Toggle(@, d)]
    BY <1>2
  <2>2. Toggle(proc.fds, d) \in SUBSET FdsPool
    BY DEF ProcessType, Toggle
  <2> QED BY <2>1, <2>2 DEF ProcessType
<1>3. CASE proc' = [proc EXCEPT !.threads = 3 - @]
  <2>1. 3 - proc.threads \in {1, 2}
    BY DEF ProcessType
  <2> QED BY <1>3, <2>1 DEF ProcessType
<1>4. CASE proc' = [proc EXCEPT !.exe = "deleted"]
  BY <1>4 DEF ProcessType
<1>5. CASE proc' = [proc EXCEPT !.traced = ~@]
  BY <1>5 DEF ProcessType
<1>6. CASE \E l \in {"zombie", "gone"} : proc' = [proc EXCEPT !.life = l]
  BY <1>6 DEF ProcessType
<1> QED BY <1>1, <1>2, <1>3, <1>4, <1>5, <1>6 DEF ProcessChanges

(* A set that takes in an element grows by one at most; and so on.        *)
LEMMA OneMore ==
    ASSUME NEW S, NEW x, NEW n \in Nat, IsFiniteSet(S), Cardinality(S) <= n
    PROVE  IsFiniteSet(S \cup {x}) /\ Cardinality(S \cup {x}) <= n + 1
<1>1. Cardinality(S) \in Nat
  BY FS_CardinalityType
<1>2. IsFiniteSet(S \cup {x}) /\ (Cardinality(S \cup {x}) = Cardinality(S)
                                  \/ Cardinality(S \cup {x}) = Cardinality(S) + 1)
  BY FS_AddElement
<1> QED BY <1>1, <1>2

(* Four elements make a set of four at most.                               *)
LEMMA FourAtMost ==
    ASSUME NEW a, NEW b, NEW c, NEW d
    PROVE  IsFiniteSet({a, b, c, d}) /\ Cardinality({a, b, c, d}) <= 4
<1>0. IsFiniteSet({}) /\ Cardinality({}) <= 0
  BY FS_EmptySet
<1>1. IsFiniteSet({a}) /\ Cardinality({a}) <= 1
  <2>1. IsFiniteSet({} \cup {a}) /\ Cardinality({} \cup {a}) <= 0 + 1
    BY <1>0, OneMore
  <2>2. {} \cup {a} = {a}
    OBVIOUS
  <2> QED BY <2>1, <2>2
<1>2. IsFiniteSet({a, b}) /\ Cardinality({a, b}) <= 2
  <2>1. IsFiniteSet({a} \cup {b}) /\ Cardinality({a} \cup {b}) <= 1 + 1
    BY <1>1, OneMore
  <2>2. {a} \cup {b} = {a, b}
    OBVIOUS
  <2> QED BY <2>1, <2>2
<1>3. IsFiniteSet({a, b, c}) /\ Cardinality({a, b, c}) <= 3
  <2>1. IsFiniteSet({a, b} \cup {c}) /\ Cardinality({a, b} \cup {c}) <= 2 + 1
    BY <1>2, OneMore
  <2>2. {a, b} \cup {c} = {a, b, c}
    OBVIOUS
  <2> QED BY <2>1, <2>2
<1>4. IsFiniteSet({a, b, c} \cup {d}) /\ Cardinality({a, b, c} \cup {d}) <= 3 + 1
  BY <1>3, OneMore
<1>5. {a, b, c} \cup {d} = {a, b, c, d}
  OBVIOUS
<1> QED BY <1>4, <1>5

(* Three more make it seven.                                               *)
LEMMA ThreeMore ==
    ASSUME NEW S, NEW x, NEW y, NEW z, IsFiniteSet(S), Cardinality(S) <= 4
    PROVE  /\ IsFiniteSet(((S \cup {x}) \cup {y}) \cup {z})
           /\ Cardinality(((S \cup {x}) \cup {y}) \cup {z}) <= 7
<1>1. IsFiniteSet(S \cup {x}) /\ Cardinality(S \cup {x}) <= 4 + 1
  BY OneMore
<1> DEFINE T == S \cup {x}
<1>2. IsFiniteSet(T) /\ Cardinality(T) <= 5
  BY <1>1
<1>3. IsFiniteSet(T \cup {y}) /\ Cardinality(T \cup {y}) <= 5 + 1
  <2> HIDE DEF T
  <2> QED BY <1>2, OneMore
<1> DEFINE U == T \cup {y}
<1>4. IsFiniteSet(U) /\ Cardinality(U) <= 6
  BY <1>3
<1>5. IsFiniteSet(U \cup {z}) /\ Cardinality(U \cup {z}) <= 6 + 1
  <2> HIDE DEF U
  <2> QED BY <1>4, OneMore
<1> QED BY <1>5

(* An examination adds reasons at three places at most: the report has     *)
(* room for them (KSNAP_MAX_REASONS of checker.c).                         *)
LEMMA FewReasons ==
    ASSUME NEW rs,
           \/ rs \subseteq CmdlineReasons
           \/ \E x \in ExeReasons : rs \subseteq WalkReasons \cup {x}
           \/ rs \subseteq {"ptrace_refused"}
    PROVE  rs \subseteq Reasons /\ Cardinality(rs) <= 8
<1>1. CASE rs \subseteq CmdlineReasons
  <2>1. IsFiniteSet(CmdlineReasons) /\ Cardinality(CmdlineReasons) <= 4
    BY FourAtMost DEF CmdlineReasons
  <2>2. Cardinality(rs) <= Cardinality(CmdlineReasons) /\ IsFiniteSet(rs)
    BY <1>1, <2>1, FS_Subset
  <2>3. Cardinality(rs) \in Nat /\ Cardinality(CmdlineReasons) \in Nat
    BY <2>1, <2>2, FS_CardinalityType
  <2>4. rs \subseteq Reasons
    BY <1>1 DEF CmdlineReasons, Reasons
  <2> QED BY <2>1, <2>2, <2>3, <2>4
<1>2. CASE \E x \in ExeReasons \cup {"ptrace_refused"} : rs \subseteq WalkReasons \cup {x}
  <2>1. PICK x \in ExeReasons \cup {"ptrace_refused"} : rs \subseteq WalkReasons \cup {x}
    BY <1>2
  <2> DEFINE A == {"shared_mapping", "device_mapping", "too_many_kernel_maps",
                   "no_dumpable_mapping"}
             D == ((A \cup {"gone"}) \cup {"not_inspectable"}) \cup {x}
  <2>2. IsFiniteSet(A) /\ Cardinality(A) <= 4
    BY FourAtMost
  <2>5. IsFiniteSet(D) /\ Cardinality(D) <= 7
    <3> HIDE DEF A
    <3> QED BY <2>2, ThreeMore
  <2>6. rs \subseteq D
    BY <2>1 DEF WalkReasons
  <2>7. D \subseteq Reasons
    BY <2>1 DEF ExeReasons, Reasons
  <2> HIDE DEF D
  <2>8. Cardinality(rs) <= Cardinality(D) /\ IsFiniteSet(rs)
    BY <2>5, <2>6, FS_Subset
  <2>9. Cardinality(rs) \in Nat /\ Cardinality(D) \in Nat
    BY <2>5, <2>8, FS_CardinalityType
  <2> QED BY <2>5, <2>6, <2>7, <2>8, <2>9
<1> QED BY <1>1, <1>2

-----------------------------------------------------------------------------

(***************************************************************************)
(* The parts of CheckInv, one after the other.                             *)
(***************************************************************************)

(* After main the command line is what it was, and what it came to.        *)
LEMMA LineRests ==
    ASSUME Next, ~GetOpt, ~Main
    PROVE  UNCHANGED mainVars /\ (pc' \notin {"main", "refused"} => pc \notin {"main", "refused"})
<1>1. CASE ReadStatus
  BY <1>1 DEF ReadStatus, Report
<1>2. CASE ReadCmdline
  BY <1>2 DEF ReadCmdline, Report
<1>3. CASE ProbeExe
  BY <1>3 DEF ProbeExe, Report
<1>4. CASE ScanMaps
  BY <1>4 DEF ScanMaps, Report
<1>5. CASE ScanFds
  BY <1>5 DEF ScanFds, Report
<1>6. CASE Seize \/ SeizeRefused
  BY <1>6 DEF Seize, SeizeRefused, Report
<1>7. CASE Interrupt \/ InterruptFails
  BY <1>7 DEF Interrupt, InterruptFails
<1>8. CASE Waited
  BY <1>8 DEF Waited, Report
<1>9. CASE Detach \/ PrintReport
  BY <1>9 DEF Detach, PrintReport
<1>10. CASE World
  <2>1. CASE ProcessChanges
    BY <2>1 DEF ProcessChanges
  <2>2. CASE SignalArrives \/ SignalTaken
    BY <2>2 DEF SignalArrives, SignalTaken, signalVars
  <2>3. CASE StopsForSignal \/ StopsForInterrupt
    BY <2>3 DEF StopsForSignal, StopsForInterrupt
  <2>4. CASE EngineKilled
    BY <2>4 DEF EngineKilled, Examining
  <2> QED BY <1>10, <2>1, <2>2, <2>3, <2>4 DEF World
<1> QED BY <1>1, <1>2, <1>3, <1>4, <1>5, <1>6, <1>7, <1>8, <1>9, <1>10 DEF Next, Engine

(* parse_arg and main: one option after the other, then the mode.          *)
LEMMA LineHolds ==
    ASSUME TypeOK, LineOK, Next
    PROVE  LineOK' /\ config' \in Configs /\ optind' \in 1 .. Len(argv') + 1
<1>0. config \in Configs /\ optind \in 1 .. Len(argv) + 1 /\ Len(argv) \in Nat
  BY CommandLinesAssumption DEF TypeOK, Configs, LineOK
<1>1. CASE GetOpt
  <2> DEFINE o == argv[optind]
  <2>1. Proper(o) /\ optind + 1 \in 1 .. Len(argv) + 1
    BY <1>0, <1>1, CommandLinesAssumption DEF GetOpt, LineOK
  <2>2. argv' = argv /\ pc' \in {"main", "refused"}
    BY <1>1 DEF GetOpt
  <2>3. CASE Refusal(o) = "OK"
    <3>1. config' = Set(config, o) /\ optind' = optind + 1
      BY <1>1, <2>3 DEF GetOpt
    <3>2. Set(config, o) \in Configs /\ Set(config, o).dir <= PATH_MAX - NAME_MAX - 2
      BY <1>0, <2>1, <2>3, SetIsProper DEF LineOK
    <3> HIDE DEF o
    <3> QED BY <2>1, <2>2, <3>1, <3>2 DEF LineOK
  <2>4. CASE Refusal(o) # "OK"
    <3>1. config' = config /\ optind' = optind
      BY <1>1, <2>4 DEF GetOpt
    <3> QED BY <1>0, <2>2, <3>1 DEF LineOK
  <2> QED BY <2>3, <2>4
<1>2. CASE Main
  <2>1. UNCHANGED mainVars
    BY <1>2 DEF Main
  <2>2. pc' \notin {"main", "refused"} => Mandatory(config) = "OK"
    BY <1>2 DEF Main
  <2>3. pc' \notin {"main", "refused"} => Sound(config)
    BY <1>0, <2>2, MandatoryIsSound DEF LineOK
  <2> QED BY <1>0, <2>1, <2>3 DEF LineOK, mainVars
<1>3. CASE ~GetOpt /\ ~Main
  <2>1. UNCHANGED mainVars /\ (pc' \notin {"main", "refused"} => pc \notin {"main", "refused"})
    BY <1>3, LineRests
  <2> QED BY <1>0, <2>1 DEF LineOK, mainVars
<1> QED BY <1>1, <1>2, <1>3

(* The steps of an examination before its probe leave tracer and signals   *)
(* alone.                                                                  *)
LEMMA SignalsRest ==
    ASSUME TypeOK,
           GetOpt \/ Main \/ ReadStatus \/ ReadCmdline \/ ProbeExe \/ ScanMaps \/ ScanFds
           \/ PrintReport
    PROVE  /\ UNCHANGED <<traceVars, signalVars>>
           /\ pc \notin {"interrupt", "wait", "detach", "end"}
           /\ pc' \notin {"interrupt", "wait", "detach"}
           /\ pc = "print" => pc' = "end"
           /\ pc \in {"main", "refused"} \/ proc' = proc
<1>1. CASE GetOpt
  BY <1>1 DEF GetOpt
<1>2. CASE Main
  <2>1. config.mode \in {"none", "DUMP", "RESTORE", "CHECK"}
    BY DEF TypeOK
  <2>2. pc' \in {"refused", "status", config.mode} /\ pc = "main"
    BY <1>2 DEF Main
  <2>3. UNCHANGED <<traceVars, signalVars>>
    BY <1>2 DEF Main
  <2> QED BY <2>1, <2>2, <2>3
<1>3. CASE ReadStatus
  BY <1>3 DEF ReadStatus, Report, procVars
<1>4. CASE ReadCmdline
  BY <1>4 DEF ReadCmdline, Report, procVars
<1>5. CASE ProbeExe
  BY <1>5 DEF ProbeExe, Report, procVars
<1>6. CASE ScanMaps
  BY <1>6 DEF ScanMaps, Report, procVars
<1>7. CASE ScanFds
  BY <1>7 DEF ScanFds, Report, procVars
<1>8. CASE PrintReport
  BY <1>8 DEF PrintReport, procVars
<1> QED BY <1>1, <1>2, <1>3, <1>4, <1>5, <1>6, <1>7, <1>8

(* Seize, interrupt, wait and detach: only a signal that comes before the  *)
(* interrupt is lost, and no other can be delivered while it is asked for. *)
LEMMA SignalsHold ==
    ASSUME TypeOK, SignalsOK, Next
    PROVE  /\ SignalsOK'
           /\ stop' \in {"none", "interrupt", "signal"}
           /\ seized' \in BOOLEAN /\ trap' \in BOOLEAN /\ early' \in BOOLEAN
           /\ pending' \in Nat /\ sent' \in 0 .. MaxSignals /\ lost' \in Nat
<1>0. /\ stop \in {"none", "interrupt", "signal"}
      /\ seized \in BOOLEAN /\ trap \in BOOLEAN /\ early \in BOOLEAN
      /\ pending \in Nat /\ sent \in Nat /\ lost \in Nat /\ sent <= MaxSignals
      /\ MaxSignals \in Nat
  BY CheckAssumption DEF TypeOK
<1>1. CASE GetOpt \/ Main \/ ReadStatus \/ ReadCmdline \/ ProbeExe \/ ScanMaps \/ ScanFds
           \/ PrintReport
  <2>1. /\ UNCHANGED <<traceVars, signalVars>>
        /\ pc \notin {"interrupt", "wait", "detach", "end"}
        /\ pc' \notin {"interrupt", "wait", "detach"}
        /\ pc = "print" => pc' = "end"
    BY <1>1, SignalsRest
  <2>2. stop = "none" /\ ~seized /\ ~trap
    BY <1>0, <2>1 DEF SignalsOK
  <2> QED BY <1>0, <2>1, <2>2 DEF SignalsOK, traceVars, signalVars
<1>2. CASE Seize
  <2>1. pc' = "interrupt" /\ seized' /\ seized' \in BOOLEAN
    BY <1>2, Zenon DEF Seize
  <2>2. early' \in BOOLEAN /\ (pending > 0 => early')
    <3>1. early' = (pending > 0)
      BY <1>2, Zenon DEF Seize
    <3>2. (pending > 0) \in BOOLEAN
      BY SMT
    <3> DEFINE some == pending > 0
    <3>3. early' = some /\ some \in BOOLEAN /\ (pending > 0 => some)
      BY <3>1, <3>2
    <3> HIDE DEF some
    <3> QED BY <3>3, Zenon
  <2>3. pc = "probe" /\ UNCHANGED <<proc, trap, stop, pending, sent, lost>>
    BY <1>2 DEF Seize, procVars
  <2> QED BY <1>0, <2>1, <2>2, <2>3 DEF SignalsOK
<1>3. CASE SeizeRefused
  BY <1>0, <1>3 DEF SignalsOK, SeizeRefused, Report, traceVars, signalVars
<1>4. CASE Interrupt
  BY <1>0, <1>4 DEF SignalsOK, Interrupt, procVars, signalVars
<1>5. CASE InterruptFails
  <2>1. pc = "interrupt" /\ pc' = "print" /\ ~seized' /\ seized' \in BOOLEAN
    BY <1>5, Zenon DEF InterruptFails
  <2>2. UNCHANGED <<proc, trap, stop, signalVars>> /\ proc.life # "alive"
    BY <1>5 DEF InterruptFails, procVars
  <2> QED BY <1>0, <2>1, <2>2 DEF SignalsOK, signalVars
<1>6. CASE Waited
  BY <1>0, <1>6 DEF SignalsOK, Waited, Report, procVars, traceVars, signalVars
<1>7. CASE Detach
  <2>1. pc = "detach" /\ pc' = "print" /\ ~seized' /\ seized' \in BOOLEAN
        /\ ~trap' /\ trap' \in BOOLEAN /\ stop' = "none"
    BY <1>7, Zenon DEF Detach
  <2>2. /\ UNCHANGED <<proc, pending, sent, early>>
        /\ lost' = IF stop = "signal" THEN lost + 1 ELSE lost
    BY <1>7 DEF Detach, procVars
  <2> QED BY <1>0, <2>1, <2>2 DEF SignalsOK
<1>8. CASE ProcessChanges
  BY <1>0, <1>8 DEF SignalsOK, ProcessChanges, signalVars
<1>9. CASE SignalArrives
  BY <1>0, <1>9 DEF SignalsOK, SignalArrives, procVars, traceVars
<1>10. CASE SignalTaken
  BY <1>0, <1>10 DEF SignalsOK, SignalTaken, procVars, traceVars
<1>11. CASE StopsForSignal
  BY <1>0, <1>11 DEF SignalsOK, StopsForSignal, procVars
<1>12. CASE StopsForInterrupt
  BY <1>0, <1>12 DEF SignalsOK, StopsForInterrupt, procVars, signalVars
<1>13. CASE EngineKilled
  <2>1. pc' = "end" /\ ~seized' /\ seized' \in BOOLEAN
        /\ ~trap' /\ trap' \in BOOLEAN /\ stop' = "none"
    BY <1>13, Zenon DEF EngineKilled
  <2>2. UNCHANGED <<sent, early>> /\ pc # "end"
    BY <1>13 DEF EngineKilled, Examining
  <2>3. \/ stop # "signal" /\ UNCHANGED <<pending, lost>>
        \/ stop = "signal" /\ pc = "detach" /\ lost' = lost + 1 /\ pending' = pending
        \/ stop = "signal" /\ pending' = pending + 1 /\ lost' = lost
    BY <1>13 DEF EngineKilled
  <2> QED BY <1>0, <2>1, <2>2, <2>3 DEF SignalsOK
<1> QED BY <1>1, <1>2, <1>3, <1>4, <1>5, <1>6, <1>7, <1>8, <1>9, <1>10, <1>11, <1>12, <1>13
        DEF Next, Engine, World

(* Which reasons a step may add depends on how far the examination is.     *)
LEMMA ReasonsHold ==
    ASSUME TypeOK, ReasonsOK, Next
    PROVE  ReasonsOK'
<1> USE DEF CmdlineReasons, WalkReasons, ExeReasons
<1>1. CASE GetOpt
  <2>1. UNCHANGED reasons /\ pc = "main" /\ pc' \in {"main", "refused"}
    BY <1>1 DEF GetOpt, reportVars
  <2> QED BY <2>1 DEF ReasonsOK
<1>2. CASE Main
  <2>1. config.mode \in {"none", "DUMP", "RESTORE", "CHECK"}
    BY DEF TypeOK
  <2>2. UNCHANGED reasons /\ pc = "main" /\ pc' \in {"refused", "status", "DUMP", "RESTORE"}
    BY <1>2, <2>1 DEF Main, Mandatory, reportVars
  <2> QED BY <2>2 DEF ReasonsOK
<1>3. CASE ReadStatus
  <2>1. pc = "status" /\ reasons = {}
    BY <1>3 DEF ReadStatus, ReasonsOK
  <2>2. \/ reasons' = {"gone"} /\ pc' = "print"
        \/ reasons' = {"not_inspectable"} /\ pc' = "print"
        \/ reasons' = {} /\ pc' = "cmdline"
    BY <1>3, <2>1 DEF ReadStatus, Report
  <2> QED BY <2>2 DEF ReasonsOK
<1>4. CASE ReadCmdline
  <2>1. pc = "cmdline" /\ reasons = {}
    BY <1>4 DEF ReadCmdline, ReasonsOK
  <2>2. \/ reasons' = {} /\ pc' = "exe"
        \/ reasons' \subseteq CmdlineReasons /\ pc' = "print"
    BY <1>4, <2>1 DEF ReadCmdline, Report
  <2> QED BY <2>2 DEF ReasonsOK
<1>5. CASE ProbeExe
  <2>1. pc = "exe" /\ reasons = {} /\ pc' = "maps"
    BY <1>5 DEF ProbeExe, Report, ReasonsOK
  <2>2. proc.exe \in {"runs", "deleted", "locked"}
    BY DEF TypeOK, ProcessType
  <2>3. \E x \in ExeReasons : reasons' \subseteq {x}
    <3>1. CASE proc.life # "alive"
      BY <1>5, <2>1, <3>1 DEF ProbeExe, Report
    <3>2. CASE proc.life = "alive" /\ ~proc.readable
      BY <1>5, <2>1, <3>2 DEF ProbeExe, Report
    <3>3. CASE proc.life = "alive" /\ proc.readable
      <4>1. reasons' = [runs |-> {}, deleted |-> {"exe_deleted"},
                        locked |-> {"exe_not_executable"}][proc.exe]
        BY <1>5, <2>1, <3>3 DEF ProbeExe, Report
      <4>2. reasons' \in {{}, {"exe_deleted"}, {"exe_not_executable"}}
        BY <2>2, <4>1
      <4> QED BY <4>2
    <3> QED BY <3>1, <3>2, <3>3
  <2> QED BY <2>1, <2>3 DEF ReasonsOK
<1>6. CASE ScanMaps
  <2>1. PICK x \in ExeReasons : reasons \subseteq {x}
    BY <1>6 DEF ScanMaps, ReasonsOK
  <2>2. PICK why : reasons' = reasons \cup why /\ why \subseteq WalkReasons
    BY <1>6 DEF ScanMaps, Report
  <2>3. pc' = "fds"
    BY <1>6 DEF ScanMaps, Report
  <2>4. reasons' \subseteq WalkReasons \cup {x}
    BY <2>1, <2>2
  <2> HIDE DEF WalkReasons, ExeReasons
  <2> QED BY <2>3, <2>4 DEF ReasonsOK
<1>7. CASE ScanFds
  <2>1. PICK x \in ExeReasons : reasons \subseteq WalkReasons \cup {x}
    BY <1>7 DEF ScanFds, ReasonsOK
  <2>2. reasons' = reasons /\ pc' \in {"probe", "print"} /\ (pc' = "probe" => reasons = {})
    BY <1>7 DEF ScanFds, Report
  <2> HIDE DEF WalkReasons, ExeReasons
  <2> QED BY <2>1, <2>2 DEF ReasonsOK
<1>8. CASE Seize
  BY <1>8 DEF ReasonsOK, Seize, reportVars
<1>9. CASE SeizeRefused
  <2>1. reasons' = {"ptrace_refused"} /\ pc' = "print"
    BY <1>9 DEF ReasonsOK, SeizeRefused, Report
  <2> QED BY <2>1 DEF ReasonsOK
<1>10. CASE Interrupt
  BY <1>10 DEF ReasonsOK, Interrupt, reportVars
<1>11. CASE InterruptFails
  <2>1. reasons' = {"ptrace_refused"} /\ pc' = "print"
    BY <1>11 DEF ReasonsOK, InterruptFails
  <2> QED BY <2>1 DEF ReasonsOK
<1>12. CASE Waited
  <2>1. reasons' \subseteq {"ptrace_refused"} /\ pc' = "detach"
    BY <1>12 DEF ReasonsOK, Waited, Report
  <2> QED BY <2>1 DEF ReasonsOK
<1>13. CASE Detach
  <2>1. reasons' \subseteq {"ptrace_refused"} /\ pc' = "print"
    BY <1>13 DEF ReasonsOK, Detach
  <2> QED BY <2>1 DEF ReasonsOK
<1>14. CASE PrintReport \/ EngineKilled
  <2>1. UNCHANGED reasons /\ pc' = "end"
    BY <1>14 DEF PrintReport, EngineKilled, reportVars
  <2>2. pc # "end"
    BY <1>14 DEF PrintReport, EngineKilled, Examining
  <2> HIDE DEF CmdlineReasons, WalkReasons, ExeReasons
  <2> QED BY <2>1, <2>2 DEF ReasonsOK
<1>15. CASE ProcessChanges \/ SignalArrives \/ SignalTaken \/ StopsForSignal \/ StopsForInterrupt
  <2>1. UNCHANGED <<pc, reasons>>
    BY <1>15 DEF ProcessChanges, SignalArrives, SignalTaken, StopsForSignal, StopsForInterrupt,
                 reportVars
  <2> HIDE DEF CmdlineReasons, WalkReasons, ExeReasons
  <2> QED BY <2>1 DEF ReasonsOK
<1> QED BY <1>1, <1>2, <1>3, <1>4, <1>5, <1>6, <1>7, <1>8, <1>9, <1>10, <1>11, <1>12, <1>13,
           <1>14, <1>15 DEF Next, Engine, World

Facts == [counted : SUBSET MapsPool, open : SUBSET FdsPool, carried : SUBSET FdsPool]

(* A report counts mappings and descriptors the process has, and carries   *)
(* no descriptor it does not count.                                        *)
LEMMA FactsHold ==
    ASSUME TypeOK, Next
    PROVE  facts' \in Facts /\ facts'.carried \subseteq facts'.open
<1>0. facts \in Facts /\ facts.carried \subseteq facts.open /\ proc \in ProcessType
  BY DEF TypeOK, Facts
<1>1. CASE ScanMaps
  <2> DEFINE maps == IF proc.life = "alive" THEN proc.maps ELSE {}
             read == OfClass(maps, "DUMP")
  <2>1. read \subseteq MapsPool
    BY <1>0 DEF OfClass, ProcessType
  <2>2. facts' = facts \/ facts' = [facts EXCEPT !.counted = read]
    BY <1>1 DEF ScanMaps
  <2> HIDE DEF read
  <2> QED BY <1>0, <2>1, <2>2 DEF Facts
<1>2. CASE ScanFds
  <2> DEFINE fds     == IF proc.life = "alive" /\ proc.readable THEN proc.fds ELSE {}
             open    == fds \ FdsOfClass(fds, "SKIP_STDIO")
             carried == FdsOfClass(fds, "DUMP")
  <2>1. fds \subseteq FdsPool
    BY <1>0 DEF ProcessType
  <2>2. carried \subseteq fds /\ carried \subseteq open
    BY DEF FdsOfClass
  <2>3. facts' = [facts EXCEPT !.open = open, !.carried = carried]
    BY <1>2 DEF ScanFds
  <2>4. open \subseteq fds
    OBVIOUS
  <2> HIDE DEF open, carried, fds
  <2> QED BY <1>0, <2>1, <2>2, <2>3, <2>4 DEF Facts
<1>3. CASE ~ScanMaps /\ ~ScanFds
  <2>1. UNCHANGED facts
    <3>1. CASE GetOpt \/ Main
      BY <3>1 DEF GetOpt, Main, reportVars
    <3>2. CASE ReadStatus \/ ReadCmdline \/ ProbeExe
      BY <3>2 DEF ReadStatus, ReadCmdline, ProbeExe
    <3>3. CASE Seize \/ SeizeRefused \/ Interrupt \/ InterruptFails \/ Waited \/ Detach
      BY <3>3 DEF Seize, SeizeRefused, Interrupt, InterruptFails, Waited, Detach, reportVars
    <3>4. CASE PrintReport
      BY <3>4 DEF PrintReport, reportVars
    <3>5. CASE World
      BY <3>5 DEF World, ProcessChanges, SignalArrives, SignalTaken, StopsForSignal,
                  StopsForInterrupt, EngineKilled, reportVars
    <3> QED BY <1>3, <3>1, <3>2, <3>3, <3>4, <3>5 DEF Next, Engine
  <2> QED BY <1>0, <2>1
<1> QED BY <1>1, <1>2, <1>3

(* The remaining variables.                                                *)
LEMMA StatesHold ==
    ASSUME TypeOK, Next
    PROVE  /\ pc' \in {"main", "refused", "status", "cmdline", "exe", "maps", "fds", "probe",
                       "interrupt", "wait", "detach", "print", "end", "DUMP", "RESTORE"}
           /\ exit' \in {"none", "OK", "ERROR", "BLOCKED", "killed"}
           /\ proc' \in ProcessType
           /\ changes' \in 0 .. MaxChanges
           /\ status' \in [threads : 0 .. 2, dead : BOOLEAN, traced : BOOLEAN]
<1>0. /\ pc \in {"main", "refused", "status", "cmdline", "exe", "maps", "fds", "probe",
                 "interrupt", "wait", "detach", "print", "end", "DUMP", "RESTORE"}
      /\ exit \in {"none", "OK", "ERROR", "BLOCKED", "killed"}
      /\ proc \in ProcessType
      /\ changes \in 0 .. MaxChanges
      /\ status \in [threads : 0 .. 2, dead : BOOLEAN, traced : BOOLEAN]
      /\ config.mode \in {"none", "DUMP", "RESTORE", "CHECK"}
  BY DEF TypeOK
<1>1. CASE GetOpt
  BY <1>0, <1>1 DEF GetOpt, reportVars, procVars
<1>2. CASE Main
  <2>1. /\ pc' \in {"refused", "status", "DUMP", "RESTORE"}
        /\ exit' \in {exit, "ERROR"}
    BY <1>0, <1>2 DEF Main, Mandatory
  <2>2. proc' \in ProcessType
    BY <1>0, <1>2, ProcessesAssumption DEF Main
  <2>3. UNCHANGED <<changes, status>>
    BY <1>2 DEF Main, reportVars
  <2> QED BY <1>0, <2>1, <2>2, <2>3
<1>3. CASE ReadStatus
  <2>1. pc' \in {"print", "cmdline"} /\ UNCHANGED <<exit, proc, changes>>
    BY <1>3 DEF ReadStatus, Report, procVars
  <2>2. status' \in [threads : 0 .. 2, dead : BOOLEAN, traced : BOOLEAN]
    <3>1. proc.threads \in 0 .. 2 /\ proc.traced \in BOOLEAN /\ (proc.life = "zombie") \in BOOLEAN
      BY <1>0 DEF ProcessType
    <3>2. status' = status
          \/ status' = [threads |-> proc.threads, dead |-> proc.life = "zombie",
                        traced |-> proc.traced]
      BY <1>3 DEF ReadStatus
    <3>3. \A t \in 0 .. 2, d \in BOOLEAN, tr \in BOOLEAN :
            [threads |-> t, dead |-> d, traced |-> tr]
              \in [threads : 0 .. 2, dead : BOOLEAN, traced : BOOLEAN]
      OBVIOUS
    <3>4. [threads |-> proc.threads, dead |-> proc.life = "zombie", traced |-> proc.traced]
            \in [threads : 0 .. 2, dead : BOOLEAN, traced : BOOLEAN]
      BY <3>1, <3>3, Zenon
    <3> QED BY <1>0, <3>2, <3>4, Zenon
  <2> QED BY <1>0, <2>1, <2>2
<1>4. CASE ReadCmdline
  BY <1>0, <1>4 DEF ReadCmdline, Report, procVars
<1>5. CASE ProbeExe
  BY <1>0, <1>5 DEF ProbeExe, Report, procVars
<1>6. CASE ScanMaps
  BY <1>0, <1>6 DEF ScanMaps, Report, procVars
<1>7. CASE ScanFds
  BY <1>0, <1>7 DEF ScanFds, Report, procVars
<1>8. CASE Seize \/ SeizeRefused
  BY <1>0, <1>8 DEF Seize, SeizeRefused, Report, reportVars, procVars
<1>9. CASE Interrupt \/ InterruptFails
  BY <1>0, <1>9 DEF Interrupt, InterruptFails, reportVars, procVars
<1>10. CASE Waited
  BY <1>0, <1>10 DEF Waited, Report, procVars
<1>11. CASE Detach \/ PrintReport
  BY <1>0, <1>11 DEF Detach, PrintReport, reportVars, procVars
<1>12. CASE ProcessChanges
  <2>1. proc' \in ProcessType
    BY <1>0, <1>12, ChangesAreProper
  <2>2. changes' \in 0 .. MaxChanges /\ UNCHANGED <<pc, exit, status>>
    BY <1>0, <1>12, CheckAssumption DEF ProcessChanges, reportVars
  <2> QED BY <1>0, <2>1, <2>2
<1>13. CASE SignalArrives \/ SignalTaken
  BY <1>0, <1>13 DEF SignalArrives, SignalTaken, reportVars, procVars
<1>14. CASE StopsForSignal \/ StopsForInterrupt
  BY <1>0, <1>14 DEF StopsForSignal, StopsForInterrupt, reportVars, procVars
<1>15. CASE EngineKilled
  BY <1>0, <1>15 DEF EngineKilled, reportVars, procVars
<1> QED BY <1>1, <1>2, <1>3, <1>4, <1>5, <1>6, <1>7, <1>8, <1>9, <1>10, <1>11, <1>12, <1>13,
           <1>14, <1>15 DEF Next, Engine, World

(* The kernel's mappings can be counted.                                   *)
LEMMA KernelCount ==
    ASSUME proc \in ProcessType
    PROVE  Cardinality(OfClass(proc.maps, "KERNEL")) \in Nat
<1>1. OfClass(proc.maps, "KERNEL") \subseteq MapsPool
  BY DEF OfClass, ProcessType
<1>2. IsFiniteSet(OfClass(proc.maps, "KERNEL"))
  BY <1>1, FS_Subset, CheckAssumption
<1> QED BY <1>2, FS_CardinalityType

(* read_status_fields.                                                     *)
LEMMA StatusIsRead ==
    ASSUME TypeOK, ReasonsOK, Steady, Verdict, ReadStatus
    PROVE  Verdict'
<1>1. pc = "status" /\ reasons = {} /\ UNCHANGED <<proc, facts, exit>>
  BY DEF ReadStatus, Report, ReasonsOK, procVars
<1>2. Present <=> proc.life # "gone"
  BY DEF Present, Steady
<1>3. CASE proc.life = "gone"
  <2>1. reasons' = {"gone"} /\ pc' = "print"
    BY <1>1, <1>2, <1>3 DEF ReadStatus, Report
  <2>2. ~DumpAccepts(proc)
    BY <1>3 DEF DumpAccepts
  <2> QED BY <1>1, <2>1, <2>2 DEF Verdict, StatusRead, Living, Readable, Attachable, MapsScanned,
                                  FdsScanned, Deserved, Printed
<1>4. CASE pc' = "print" /\ reasons' = {"not_inspectable"} /\ ~proc.readable
  <2>1. ~DumpAccepts(proc)
    BY <1>4 DEF DumpAccepts
  <2> QED BY <1>1, <1>4, <2>1 DEF Verdict, StatusRead, Living, Readable, Attachable, MapsScanned,
                                  FdsScanned, Deserved, Printed
<1>5. CASE /\ pc' = "cmdline" /\ reasons' = {}
           /\ status' = [threads |-> proc.threads, dead |-> proc.life = "zombie",
                         traced |-> proc.traced]
  <2>1. (status'.dead <=> proc.life = "zombie") /\ (status'.traced <=> proc.traced)
    BY <1>5
  <2> QED BY <1>1, <1>5, <2>1 DEF Verdict, StatusRead, Living, Readable, Attachable, MapsScanned,
                                  FdsScanned, Deserved, Printed
<1> QED BY <1>1, <1>2, <1>3, <1>4, <1>5 DEF ReadStatus, Report

(* read_cmdline_argc and the cheap verdicts.                               *)
LEMMA CmdlineIsRead ==
    ASSUME TypeOK, ReasonsOK, Steady, Verdict, ReadCmdline
    PROVE  Verdict'
<1> DEFINE why == {r \in {"multi_threaded", "zombie", "already_traced", "kernel_thread"} :
                     CASE r = "multi_threaded" -> status.threads > 1
                       [] r = "zombie"         -> status.dead
                       [] r = "already_traced" -> status.traced
                       [] r = "kernel_thread"  -> ~(proc.life = "alive" /\ proc.arguments)}
<1>1. /\ pc = "cmdline" /\ reasons = {} /\ UNCHANGED <<proc, facts, exit>>
      /\ reasons' = why /\ pc' = IF why = {} THEN "exe" ELSE "print"
  BY DEF ReadCmdline, Report, ReasonsOK, procVars
<1>2. (status.dead <=> proc.life = "zombie") /\ (status.traced <=> proc.traced)
  BY <1>1 DEF Verdict, StatusRead
<1>3. /\ why \subseteq {"multi_threaded", "zombie", "already_traced", "kernel_thread"}
      /\ "zombie" \in why <=> status.dead
      /\ "already_traced" \in why <=> status.traced
      /\ "kernel_thread" \in why <=> ~(proc.life = "alive" /\ proc.arguments)
  OBVIOUS
<1> HIDE DEF why
<1>4. why \ Stricter # {} => ~DumpAccepts(proc)
  BY <1>2, <1>3 DEF Stricter, DumpAccepts
<1>5. why = {} => proc.life = "alive" /\ ~proc.traced
  BY <1>2, <1>3
<1> QED BY <1>1, <1>4, <1>5 DEF Verdict, StatusRead, Living, Readable, Attachable, MapsScanned,
                                FdsScanned, Deserved, Printed

(* probe_exe.                                                              *)
LEMMA ExeIsProbed ==
    ASSUME TypeOK, ReasonsOK, Steady, Verdict, ProbeExe
    PROVE  Verdict'
<1>1. pc = "exe" /\ pc' = "maps" /\ reasons = {} /\ UNCHANGED <<proc, facts, exit>>
  BY DEF ProbeExe, Report, ReasonsOK, procVars
<1>2. proc.life = "alive" /\ ~proc.traced
  BY <1>1 DEF Verdict, Living
<1>3. CASE ~proc.readable
  <2>1. reasons' = {"not_inspectable"}
    BY <1>1, <1>2, <1>3 DEF ProbeExe, Report
  <2>2. ~DumpAccepts(proc)
    BY <1>3 DEF DumpAccepts
  <2> QED BY <1>1, <1>2, <2>1, <2>2 DEF Verdict, StatusRead, Living, Readable, Attachable,
                                        MapsScanned, FdsScanned, Deserved, Printed
<1>4. CASE proc.readable
  <2>1. reasons' = [runs |-> {}, deleted |-> {"exe_deleted"},
                    locked |-> {"exe_not_executable"}][proc.exe]
    BY <1>1, <1>2, <1>4 DEF ProbeExe, Report
  <2>2. proc.exe \in {"runs", "deleted", "locked"}
    BY DEF TypeOK, ProcessType
  <2>3. reasons' \subseteq {"exe_deleted", "exe_not_executable"}
    BY <2>1, <2>2
  <2>4. reasons' \ Stricter = {}
    BY <2>3 DEF Stricter
  <2> QED BY <1>1, <1>2, <1>4, <2>4 DEF Verdict, StatusRead, Living, Readable, Attachable,
                                        MapsScanned, FdsScanned, Deserved, Printed
<1> QED BY <1>3, <1>4

(* scan_maps.                                                              *)
LEMMA MapsAreScanned ==
    ASSUME TypeOK, ReasonsOK, Steady, Verdict, ScanMaps
    PROVE  Verdict'
<1> DEFINE maps  == IF proc.life = "alive" THEN proc.maps ELSE {}
           read  == OfClass(maps, "DUMP")
           found == {r \in {"shared_mapping", "device_mapping", "too_many_kernel_maps",
                            "no_dumpable_mapping"} :
                       CASE r = "shared_mapping"       -> OfClass(maps, "SKIP_SHARED") # {}
                         [] r = "device_mapping"       -> \E m \in read : m.kind = "device"
                         [] r = "too_many_kernel_maps" -> TooManyKernelMaps(maps)
                         [] r = "no_dumpable_mapping"  -> read = {}}
<1>1. /\ pc = "maps" /\ pc' = "fds" /\ UNCHANGED <<proc, exit>>
      /\ facts \in Facts /\ proc \in ProcessType
  BY DEF ScanMaps, Report, procVars, TypeOK, Facts
<1>2. /\ proc.life = "alive" /\ ~proc.traced /\ (reasons = {} => proc.readable)
      /\ (reasons \ Stricter # {} => ~DumpAccepts(proc))
  BY <1>1 DEF Verdict, Living, Readable, Attachable, Deserved
<1>3. CASE ~proc.readable
  <2>1. reasons' = reasons \cup {"not_inspectable"}
    BY <1>2, <1>3 DEF ScanMaps, Report
  <2>2. ~DumpAccepts(proc)
    BY <1>3 DEF DumpAccepts
  <2> QED BY <1>1, <1>2, <2>1, <2>2 DEF Verdict, StatusRead, Living, Readable, Attachable,
                                        MapsScanned, FdsScanned, Deserved, Printed
<1>4. CASE proc.readable
  <2>1. reasons' = reasons \cup found /\ facts' = [facts EXCEPT !.counted = read]
    BY <1>2, <1>4 DEF ScanMaps, Report
  <2>2. maps = proc.maps /\ read = DumpedMaps(proc)
    BY <1>2 DEF DumpedMaps
  <2>3. /\ found \subseteq {"shared_mapping", "device_mapping", "too_many_kernel_maps",
                            "no_dumpable_mapping"}
        /\ "device_mapping" \in found <=> \E m \in read : m.kind = "device"
        /\ "too_many_kernel_maps" \in found <=> TooManyKernelMaps(maps)
        /\ "no_dumpable_mapping" \in found <=> read = {}
    OBVIOUS
  <2>4. TooManyKernelMaps(proc.maps) <=> ~(Cardinality(OfClass(proc.maps, "KERNEL")) <= MaxKernelMaps)
    <3>1. Cardinality(OfClass(proc.maps, "KERNEL")) \in Nat /\ MaxKernelMaps \in Nat
      BY <1>1, KernelCount, CheckAssumption
    <3> QED BY <3>1 DEF TooManyKernelMaps
  <2>5. found \ Stricter # {} => ~DumpAccepts(proc)
    <3> HIDE DEF found, read, maps
    <3>1. "too_many_kernel_maps" \in found => ~DumpAccepts(proc)
      BY <2>2, <2>3, <2>4 DEF DumpAccepts
    <3>2. "no_dumpable_mapping" \in found => ~DumpAccepts(proc)
      BY <2>2, <2>3 DEF DumpAccepts, DumpedMaps
    <3> QED BY <2>3, <3>1, <3>2 DEF Stricter
  <2>6. Deserved'
    <3> HIDE DEF found
    <3> QED BY <1>1, <1>2, <2>1, <2>5 DEF Deserved
  <2>7. facts'.counted = DumpedMaps(proc)
    <3> HIDE DEF found, read
    <3> QED BY <1>1, <2>1, <2>2 DEF Facts
  <2>8. reasons' = {} =>
            /\ Cardinality(OfClass(proc.maps, "KERNEL")) <= MaxKernelMaps
            /\ DumpedMaps(proc) # {}
            /\ \A m \in DumpedMaps(proc) : m.kind # "device"
    <3> HIDE DEF found, read, maps
    <3> QED BY <2>1, <2>2, <2>3, <2>4
  <2> HIDE DEF found, read, maps
  <2> QED BY <1>1, <1>2, <1>4, <2>6, <2>7, <2>8 DEF Verdict, StatusRead, Living, Readable,
                                                    Attachable, MapsScanned, FdsScanned, Printed
<1> QED BY <1>3, <1>4

(* scan_fds.                                                               *)
LEMMA FdsAreScanned ==
    ASSUME TypeOK, ReasonsOK, Steady, Verdict, ScanFds
    PROVE  Verdict'
<1> DEFINE fds     == IF proc.life = "alive" /\ proc.readable THEN proc.fds ELSE {}
           open    == fds \ FdsOfClass(fds, "SKIP_STDIO")
           carried == FdsOfClass(fds, "DUMP")
<1>1. /\ pc = "fds" /\ pc' \in {"probe", "print"} /\ UNCHANGED <<proc, exit, reasons>>
      /\ facts \in Facts
      /\ facts' = [facts EXCEPT !.open = open, !.carried = carried]
  BY DEF ScanFds, Report, procVars, TypeOK, Facts
<1>2. pc' = "probe" <=> reasons = {}
  <2>1. Probes
    BY CheckAssumption DEF Steady, Probes, NoPid
  <2> QED BY <2>1 DEF ScanFds, Report
<1>3. /\ proc.life = "alive" /\ ~proc.traced /\ (reasons = {} => proc.readable)
      /\ (reasons = {} =>
            /\ Cardinality(OfClass(proc.maps, "KERNEL")) <= MaxKernelMaps
            /\ DumpedMaps(proc) # {}
            /\ \A m \in DumpedMaps(proc) : m.kind # "device"
            /\ facts.counted = DumpedMaps(proc))
      /\ Deserved
  BY <1>1 DEF Verdict, Living, Readable, Attachable, MapsScanned
<1>4. reasons = {} => carried = DumpedFds(proc)
  BY <1>3 DEF DumpedFds
<1> HIDE DEF fds, open, carried
<1>5. facts'.counted = facts.counted /\ facts'.carried = carried
  BY <1>1 DEF Facts
<1>6. Deserved'
  BY <1>1, <1>3 DEF Deserved
<1>7. StatusRead' /\ Living' /\ Readable' /\ Attachable'
  BY <1>1, <1>2, <1>3 DEF StatusRead, Living, Readable, Attachable, Printed
<1>8. MapsScanned'
  BY <1>1, <1>3, <1>5 DEF MapsScanned
<1>9. FdsScanned'
  BY <1>1, <1>4, <1>5 DEF FdsScanned
<1> QED BY <1>6, <1>7, <1>8, <1>9 DEF Verdict

(* probe_ptrace: of a process that has not changed only the seizing can be *)
(* refused, and then a dump would be refused it too.                       *)
LEMMA ProbeIsClear ==
    ASSUME TypeOK, ReasonsOK, Steady, Verdict,
           Seize \/ SeizeRefused \/ Interrupt \/ InterruptFails \/ Waited \/ Detach
    PROVE  Verdict'
<1>1. /\ pc \in {"probe", "interrupt", "wait", "detach"}
      /\ pc' \in {"interrupt", "wait", "detach", "print"}
      /\ UNCHANGED <<proc, facts, exit>>
  <2>1. CASE Seize \/ SeizeRefused
    BY <2>1 DEF Seize, SeizeRefused, Report, reportVars, procVars
  <2>2. CASE Interrupt \/ InterruptFails
    BY <2>2 DEF Interrupt, InterruptFails, reportVars, procVars
  <2>3. CASE Waited \/ Detach
    BY <2>3 DEF Waited, Detach, Report, procVars
  <2> QED BY <2>1, <2>2, <2>3
<1>2. proc.life = "alive" /\ ~proc.traced
  BY <1>1 DEF Verdict, Living
<1>3. CASE SeizeRefused
  <2>1. reasons' # {} /\ pc' = "print"
    BY <1>3 DEF SeizeRefused, Report
  <2>2. ~proc.attachable
    BY <1>2, <1>3 DEF SeizeRefused, Traceable
  <2>3. ~DumpAccepts(proc)
    BY <2>2 DEF DumpAccepts
  <2> QED BY <1>1, <1>2, <2>1, <2>3 DEF Verdict, StatusRead, Living, Readable, Attachable,
                                       MapsScanned, FdsScanned, Deserved, Printed
<1>4. CASE ~SeizeRefused
  <2>1. reasons' = reasons
    <3>1. CASE Seize
      BY <3>1 DEF Seize, reportVars
    <3>2. CASE Interrupt \/ InterruptFails
      BY <1>2, <3>2 DEF Interrupt, InterruptFails, reportVars
    <3>3. CASE Waited
      BY <1>2, <3>3 DEF Waited, Report
    <3>4. CASE Detach
      BY <1>2, <3>4 DEF Detach
    <3> QED BY <1>4, <3>1, <3>2, <3>3, <3>4
  <2>2. reasons = {} => proc.attachable
    <3>1. CASE Seize
      BY <3>1 DEF Seize, Traceable
    <3>2. CASE ~Seize
      <4>1. pc \in {"interrupt", "wait", "detach"}
        BY <1>4, <3>2 DEF Interrupt, InterruptFails, Waited, Detach
      <4> QED BY <4>1 DEF Verdict, Attachable
    <3> QED BY <3>1, <3>2
  <2>3. Deserved'
    BY <1>1, <2>1 DEF Verdict, Deserved
  <2>4. StatusRead' /\ Living' /\ Readable' /\ Attachable'
    BY <1>1, <1>2, <2>1, <2>2 DEF Verdict, StatusRead, Living, Readable, Attachable, Printed
  <2>5. MapsScanned'
    BY <1>1, <2>1 DEF Verdict, MapsScanned
  <2>6. FdsScanned'
    BY <1>1, <2>1 DEF Verdict, FdsScanned
  <2> QED BY <2>3, <2>4, <2>5, <2>6 DEF Verdict
<1> QED BY <1>3, <1>4

(* A step of the examination keeps to what a dump would come to, as long   *)
(* as the process is what it was when the examination began.               *)
LEMMA VerdictHolds ==
    ASSUME TypeOK, ReasonsOK, VerdictOK, Next
    PROVE  VerdictOK'
<1>0. changes \in Nat /\ Pid # NoPid
  BY CheckAssumption DEF TypeOK, NoPid
<1>1. CASE GetOpt \/ Main
  <2>1. config.mode \in {"none", "DUMP", "RESTORE", "CHECK"}
    BY DEF TypeOK
  <2>2. pc' \in {"main", "refused", "status", "DUMP", "RESTORE"} /\ pc = "main" /\ reasons' = reasons
    <3>1. CASE GetOpt
      BY <3>1 DEF GetOpt, reportVars
    <3>2. CASE Main
      BY <2>1, <3>2 DEF Main, reportVars, Mandatory
    <3> QED BY <1>1, <3>1, <3>2
  <2>3. reasons' = {}
    BY <2>2 DEF ReasonsOK
  <2> QED BY <2>2, <2>3 DEF VerdictOK, Verdict, StatusRead, Living, Readable, Attachable,
                            MapsScanned, FdsScanned, Deserved, Printed
<1>2. CASE ProcessChanges
  <2>1. changes' = changes + 1
    BY <1>2 DEF ProcessChanges
  <2> QED BY <1>0, <2>1 DEF VerdictOK, Steady
<1>3. CASE ~GetOpt /\ ~Main /\ ~ProcessChanges
  <2>1. UNCHANGED <<config, proc, changes>>
    <3>1. UNCHANGED config
      BY <1>3, LineRests DEF mainVars
    <3>2. UNCHANGED procVars
      <4>1. CASE ReadStatus \/ ReadCmdline \/ ProbeExe \/ ScanMaps \/ ScanFds
        BY <4>1 DEF ReadStatus, ReadCmdline, ProbeExe, ScanMaps, ScanFds, Report
      <4>2. CASE Seize \/ SeizeRefused \/ Interrupt \/ InterruptFails \/ Waited \/ Detach
        BY <4>2 DEF Seize, SeizeRefused, Interrupt, InterruptFails, Waited, Detach, Report
      <4>3. CASE PrintReport
        BY <4>3 DEF PrintReport
      <4>4. CASE SignalArrives \/ SignalTaken \/ StopsForSignal \/ StopsForInterrupt \/ EngineKilled
        BY <4>4 DEF SignalArrives, SignalTaken, StopsForSignal, StopsForInterrupt, EngineKilled
      <4> QED BY <1>3, <4>1, <4>2, <4>3, <4>4 DEF Next, Engine, World
    <3> QED BY <3>1, <3>2 DEF procVars
  <2> SUFFICES ASSUME Steady'
               PROVE  Verdict'
    BY DEF VerdictOK
  <2>2. Steady /\ Verdict
    BY <2>1 DEF Steady, VerdictOK
  <2>3. CASE ReadStatus
    BY <2>2, <2>3, StatusIsRead
  <2>4. CASE ReadCmdline
    BY <2>2, <2>4, CmdlineIsRead
  <2>5. CASE ProbeExe
    BY <2>2, <2>5, ExeIsProbed
  <2>6. CASE ScanMaps
    BY <2>2, <2>6, MapsAreScanned
  <2>7. CASE ScanFds
    BY <2>2, <2>7, FdsAreScanned
  <2>8. CASE Seize \/ SeizeRefused \/ Interrupt \/ InterruptFails \/ Waited \/ Detach
    BY <2>2, <2>8, ProbeIsClear
  <2>9. CASE PrintReport
    <3>1. pc = "print" /\ pc' = "end" /\ UNCHANGED <<proc, reasons, facts>>
      BY <2>9 DEF PrintReport, procVars, reportVars
    <3>2. Printed /\ (Printed' => Printed)
      BY <3>1 DEF Printed
    <3>3. StatusRead' /\ Living' /\ Readable' /\ Attachable' /\ Deserved'
      BY <2>2, <3>1, <3>2 DEF Verdict, StatusRead, Living, Readable, Attachable, Deserved
    <3>4. MapsScanned' /\ FdsScanned'
      BY <2>2, <3>1, <3>2 DEF Verdict, MapsScanned, FdsScanned
    <3> QED BY <3>3, <3>4 DEF Verdict
  <2>10. CASE EngineKilled
    <3>1. pc' = "end" /\ exit' = "killed" /\ UNCHANGED <<proc, reasons>>
      BY <2>10 DEF EngineKilled, procVars, reportVars
    <3> QED BY <2>2, <3>1 DEF Verdict, StatusRead, Living, Readable, Attachable, MapsScanned,
                              FdsScanned, Deserved, Printed
  <2>11. CASE SignalArrives \/ SignalTaken \/ StopsForSignal \/ StopsForInterrupt
    <3>1. UNCHANGED <<pc, exit, proc, status, reasons, facts>>
      BY <2>11 DEF SignalArrives, SignalTaken, StopsForSignal, StopsForInterrupt, procVars,
                   reportVars
    <3>2. StatusRead' /\ Living' /\ Readable' /\ Attachable' /\ Deserved'
      BY <2>2, <3>1 DEF Verdict, StatusRead, Living, Readable, Attachable, Deserved, Printed
    <3>3. MapsScanned' /\ FdsScanned'
      BY <2>2, <3>1 DEF Verdict, MapsScanned, FdsScanned, Printed
    <3> QED BY <3>2, <3>3 DEF Verdict
  <2> QED BY <1>3, <2>3, <2>4, <2>5, <2>6, <2>7, <2>8, <2>9, <2>10, <2>11 DEF Next, Engine, World
<1> QED BY <1>1, <1>2, <1>3

-----------------------------------------------------------------------------

(* The engine starts with an option to read and nothing examined.          *)
LEMMA InitIsSound == Init => CheckInv
<1> SUFFICES ASSUME Init
             PROVE  CheckInv
  OBVIOUS
<1>1. proc \in ProcessType
  BY ProcessesAssumption DEF Init
<1>2. argv \in CommandLines /\ Len(argv) \in Nat
  BY CommandLinesAssumption DEF Init
<1>3. config \in Configs /\ config.dir <= PATH_MAX - NAME_MAX - 2
  <2>1. NoPid \in NoPid .. MaxPid
    <3>1. MaxPid \in Nat
      BY SMT DEF MaxPid
    <3> QED BY <3>1, SMT DEF NoPid
  <2>2. DefaultName \in 1 .. NAME_MAX /\ DefaultDir \in Nat
        /\ DefaultDir <= PATH_MAX - NAME_MAX - 2
    BY SMT DEF DefaultName, DefaultDir, NAME_MAX, PATH_MAX
  <2> QED BY <2>1, <2>2 DEF Init, Defaults, Configs
<1>4. reasons \subseteq Reasons /\ Cardinality(reasons) <= 8 /\ ReasonsOK
  <2>1. ReasonsOK
    BY DEF Init, ReasonsOK, ExeReasons
  <2> QED BY <2>1, FewReasons DEF ReasonsOK
<1>5. facts \in Facts /\ facts.carried \subseteq facts.open
  BY DEF Init, NoFacts, Facts
<1>6. status \in [threads : 0 .. 2, dead : BOOLEAN, traced : BOOLEAN]
  BY DEF Init, NoStatus
<1>7. TypeOK
  <2>1. /\ optind \in 1 .. Len(argv) + 1 /\ changes \in 0 .. MaxChanges
        /\ {pending, sent, lost} \subseteq 0 .. MaxSignals
    BY <1>2, CheckAssumption DEF Init
  <2>2. {seized, trap, early} \subseteq BOOLEAN
    BY Zenon DEF Init
  <2>3. /\ pc = "main" /\ exit = "none" /\ stop = "none"
    BY DEF Init
  <2> QED BY <1>1, <1>2, <1>3, <1>4, <1>5, <1>6, <2>1, <2>2, <2>3 DEF TypeOK, Configs, Facts
<1>8. LineOK /\ SignalsOK
  BY <1>2, <1>3 DEF Init, LineOK, SignalsOK
<1>9. VerdictOK
  BY DEF Init, VerdictOK, Verdict, StatusRead, Living, Readable, Attachable, MapsScanned,
         FdsScanned, Deserved, Printed
<1> QED BY <1>4, <1>7, <1>8, <1>9 DEF CheckInv

(* Every step of the engine, and of the process, keeps CheckInv.           *)
LEMMA StepIsSound == CheckInv /\ [Next]_vars => CheckInv'
<1> SUFFICES ASSUME CheckInv, [Next]_vars
             PROVE  CheckInv'
  OBVIOUS
<1>1. CASE Next
  <2>1. LineOK' /\ config' \in Configs /\ optind' \in 1 .. Len(argv') + 1
    BY <1>1, LineHolds DEF CheckInv
  <2>2. ReasonsOK'
    BY <1>1, ReasonsHold DEF CheckInv
  <2>3. reasons' \subseteq Reasons /\ Cardinality(reasons') <= 8
    BY <2>2, FewReasons DEF ReasonsOK
  <2>4. /\ SignalsOK'
        /\ stop' \in {"none", "interrupt", "signal"}
        /\ seized' \in BOOLEAN /\ trap' \in BOOLEAN /\ early' \in BOOLEAN
        /\ pending' \in Nat /\ sent' \in 0 .. MaxSignals /\ lost' \in Nat
    BY <1>1, SignalsHold DEF CheckInv
  <2>5. {pending', sent', lost'} \subseteq 0 .. MaxSignals
    <3>1. pending' + lost' + (IF stop' = "signal" THEN 1 ELSE 0) <= sent'
      BY <2>4 DEF SignalsOK
    <3>2. MaxSignals \in Nat
      BY CheckAssumption
    <3>3. pending' <= MaxSignals /\ lost' <= MaxSignals
      <4> DEFINE one == IF stop' = "signal" THEN 1 ELSE 0
      <4>1. one \in Nat /\ pending' + lost' + one <= sent'
        BY <3>1
      <4>2. \A p, l, o \in Nat : \A s \in 0 .. MaxSignals :
              p + l + o <= s => p <= MaxSignals /\ l <= MaxSignals
        BY <3>2
      <4> HIDE DEF one
      <4> QED BY <2>4, <4>1, <4>2, Zenon
    <3> QED BY <2>4, <3>2, <3>3
  <2>6. stop' # "none" => seized'
    BY <2>4 DEF SignalsOK
  <2>7. facts' \in Facts /\ facts'.carried \subseteq facts'.open
    BY <1>1, FactsHold DEF CheckInv
  <2>8. /\ pc' \in {"main", "refused", "status", "cmdline", "exe", "maps", "fds", "probe",
                     "interrupt", "wait", "detach", "print", "end", "DUMP", "RESTORE"}
        /\ exit' \in {"none", "OK", "ERROR", "BLOCKED", "killed"}
        /\ proc' \in ProcessType
        /\ changes' \in 0 .. MaxChanges
        /\ status' \in [threads : 0 .. 2, dead : BOOLEAN, traced : BOOLEAN]
    BY <1>1, StatesHold DEF CheckInv
  <2>9. argv' \in CommandLines
    BY <2>1 DEF LineOK
  <2>10. {seized', trap', early'} \subseteq BOOLEAN
    BY <2>4, Zenon
  <2>11. TypeOK'
    BY <2>1, <2>3, <2>4, <2>5, <2>6, <2>7, <2>8, <2>9, <2>10 DEF TypeOK, Configs, Facts
  <2>12. VerdictOK'
    BY <1>1, VerdictHolds DEF CheckInv
  <2> QED BY <2>1, <2>2, <2>4, <2>11, <2>12 DEF CheckInv
<1>2. CASE UNCHANGED vars
  <2>1. /\ UNCHANGED <<argv, optind, config, pc, exit, status, reasons, facts, proc, changes>>
        /\ UNCHANGED <<seized, trap, stop, pending, sent, lost, early>>
    BY <1>2 DEF vars, mainVars, reportVars, procVars, traceVars, signalVars
  <2>2. TypeOK'
    BY <2>1 DEF CheckInv, TypeOK
  <2>3. LineOK' /\ ReasonsOK' /\ SignalsOK'
    BY <2>1 DEF CheckInv, LineOK, ReasonsOK, SignalsOK
  <2>4. VerdictOK'
    BY <2>1 DEF CheckInv, VerdictOK, Verdict, Steady, StatusRead, Living, Readable, Attachable,
                MapsScanned, FdsScanned, Deserved, Printed
  <2> QED BY <2>2, <2>3, <2>4 DEF CheckInv
<1> QED BY <1>1, <1>2

(* What a run of the engine started with any command line keeps.           *)
THEOREM CheckInvariant == Spec => []CheckInv
<1>1. Init => CheckInv
  BY InitIsSound
<1>2. CheckInv /\ [Next]_vars => CheckInv'
  BY StepIsSound
<1> QED BY <1>1, <1>2, PTL DEF Spec

(* The state of Check and of parse_arg stays well typed, and the report    *)
(* never has more reasons than it has room for (KSNAP_MAX_REASONS).        *)
THEOREM CheckTypes == Spec => []TypeOK
<1>1. CheckInv => TypeOK
  BY DEF CheckInv
<1> QED BY <1>1, CheckInvariant, PTL

(* parse_arg: whatever the options, and in whatever order, a mode starts   *)
(* with a pid if it needs one, and with a path that fits PATH_MAX.         *)
THEOREM EveryLineIsSound == Spec => []CommandLineIsSound
<1>1. CheckInv => CommandLineIsSound
  BY DEF CheckInv, LineOK, CommandLineIsSound
<1> QED BY <1>1, CheckInvariant, PTL

(* probe_ptrace costs the process one signal at most, and only one that    *)
(* was undelivered when PTRACE_INTERRUPT was asked for: sent before        *)
(* PTRACE_SEIZE and not yet taken, or between the two.                     *)
THEOREM SignalsAreKept == Spec => []SignalsKept
<1>1. CheckInv => SignalsKept
  <2>1. CheckInv => lost \in Nat
    BY CheckAssumption DEF CheckInv, TypeOK
  <2> QED BY <2>1 DEF CheckInv, SignalsOK, SignalsKept
<1> QED BY <1>1, CheckInvariant, PTL

(* The report of check_one about a process that has not changed.  Without  *)
(* reasons it can be dumped, unless it is one of those Overlooked, and its *)
(* mappings and descriptors are those counted; with a reason other than    *)
(* the Stricter ones it cannot be dumped, be it for its state, for what    *)
(* /proc does not show or because the probe was refused.                   *)
THEOREM VerdictsAreRight == Spec => []VerdictIsRight
<1>1. CheckInv => VerdictIsRight
  <2> SUFFICES ASSUME CheckInv, pc = "end", exit \in {"OK", "BLOCKED"}, Steady
               PROVE  /\ reasons = {} /\ ~Overlooked(proc) =>
                            /\ DumpAccepts(proc)
                            /\ facts.counted = DumpedMaps(proc)
                            /\ facts.carried = DumpedFds(proc)
                      /\ reasons \ Stricter # {} => ~DumpAccepts(proc)
    BY DEF VerdictIsRight, Steady
  <2>1. Verdict /\ Printed
    BY DEF CheckInv, VerdictOK, Printed
  <2>2. ASSUME reasons = {}, ~Overlooked(proc)
        PROVE  /\ DumpAccepts(proc)
               /\ facts.counted = DumpedMaps(proc)
               /\ facts.carried = DumpedFds(proc)
    <3>1. proc.life = "alive" /\ ~proc.traced /\ proc.readable /\ proc.attachable
      BY <2>1, <2>2 DEF Verdict, Living, Readable, Attachable
    <3>2. /\ Cardinality(OfClass(proc.maps, "KERNEL")) <= MaxKernelMaps
          /\ DumpedMaps(proc) # {}
          /\ \A m \in DumpedMaps(proc) : m.kind # "device"
          /\ facts.counted = DumpedMaps(proc)
      BY <2>1, <2>2 DEF Verdict, MapsScanned
    <3>3. facts.carried = DumpedFds(proc)
      BY <2>1, <2>2 DEF Verdict, FdsScanned
    <3>4. FdsOfClass(proc.fds, "UNREADABLE") = {} /\ \A m \in DumpedMaps(proc) : m.copies
      BY <2>2, <3>2 DEF Overlooked
    <3> QED BY <3>1, <3>2, <3>3, <3>4 DEF DumpAccepts, DumpedMaps
  <2>3. reasons \ Stricter # {} => ~DumpAccepts(proc)
    BY <2>1 DEF Verdict, Deserved
  <2> QED BY <2>2, <2>3
<1> QED BY <1>1, CheckInvariant, PTL
=============================================================================
