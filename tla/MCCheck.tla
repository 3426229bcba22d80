------------------------------ MODULE MCCheck -------------------------------
(* A process with at most two mappings and one descriptor of every kind, and *)
(* command lines of up to three options with arguments at their bounds.     *)
EXTENDS Check

Mapping(kind, read, private, copies) ==
    [kind |-> kind, read |-> read, private |-> private, copies |-> copies]

SomeMaps == {
    Mapping("plain", TRUE, TRUE, TRUE),      \* heap, stack, a file
    Mapping("plain", TRUE, TRUE, FALSE),     \* past the end of its file
    Mapping("plain", FALSE, TRUE, FALSE),    \* a guard
    Mapping("plain", TRUE, FALSE, TRUE),     \* MAP_SHARED
    Mapping("plain", FALSE, FALSE, FALSE),
    Mapping("pseudo", TRUE, TRUE, TRUE),     \* [vsyscall]
    Mapping("device", TRUE, TRUE, FALSE),    \* /dev/..
    Mapping("kernel", TRUE, TRUE, TRUE),     \* [vdso]
    Mapping("kernel", FALSE, TRUE, TRUE)}    \* [vvar]

Descriptor(fd, link, stat, regular, same) ==
    [fd |-> fd, link |-> link, stat |-> stat, regular |-> regular, same |-> same]

SomeFds == {
    Descriptor(1, "path", TRUE, TRUE, TRUE),
    Descriptor(3, "path", TRUE, TRUE, TRUE),
    Descriptor(4, "path", TRUE, TRUE, FALSE),     \* replaced under its name
    Descriptor(5, "deleted", TRUE, TRUE, FALSE),
    Descriptor(6, "volatile", FALSE, FALSE, FALSE),
    Descriptor(7, "path", TRUE, FALSE, TRUE),     \* a device
    Descriptor(8, "path", FALSE, TRUE, TRUE)}     \* stat is refused

UpTo(n, set) == {s \in SUBSET set : Cardinality(s) <= n}

(* access: to nothing, to the /proc files only, or also to PTRACE_SEIZE.    *)
Process(maps, fds, exe, threads, arguments, traced, access, life) ==
    [maps |-> maps, fds |-> fds, exe |-> exe, threads |-> threads, arguments |-> arguments,
     traced |-> traced, readable |-> access # "none", attachable |-> access = "attach",
     life |-> life]

Exes == {"runs", "deleted", "locked"}

(* Mappings and descriptors of a process with nothing else about it, and    *)
(* the rest of the state of one whose memory is plain.                      *)
SomeProcesses ==
    {Process(m, d, "runs", 1, TRUE, FALSE, "attach", "alive") :
        m \in UpTo(2, SomeMaps), d \in UpTo(1, SomeFds)}
    \cup
    {Process({Mapping("plain", TRUE, TRUE, TRUE)}, {}, x, t, a, tr, c, l) :
        x \in Exes, t \in {1, 2}, a \in BOOLEAN, tr \in BOOLEAN,
        c \in {"none", "read", "attach"}, l \in {"alive", "zombie", "gone"}}

PidArg(size, digits, value)   == [size |-> size, digits |-> digits, value |-> value]
NameArg(size, slash, dots)    == [size |-> size, slash |-> slash, dots |-> dots]

Options ==
    {Opt("m", x) : x \in {"Dump", "Restore", "Check", "Dumpster"}}
    \cup {Opt("p", PidArg(0, TRUE, 0)), Opt("p", PidArg(1, TRUE, 7)),
          Opt("p", PidArg(7, TRUE, 9999999)), Opt("p", PidArg(8, TRUE, 10000000)),
          Opt("p", PidArg(2, FALSE, -1))}
    \cup {Opt("n", NameArg(s, FALSE, FALSE)) : s \in {0, 1, 255, 256}}
    \cup {Opt("n", NameArg(3, TRUE, FALSE)), Opt("n", NameArg(2, FALSE, TRUE))}
    \cup {Opt("d", [size |-> s]) : s \in {0, 1, 3839, 3840}}
    \cup {Opt("k", ""), Opt("h", ""), Opt("?", "")}

(* -h after a complete Check, and a pid nobody has.                         *)
CheckHelp == <<Opt("m", "Check"), Opt("p", PidArg(1, TRUE, 7)), Opt("h", "")>>
CheckNone == <<Opt("m", "Check"), Opt("p", PidArg(7, TRUE, 9999999))>>

CheckOne == <<Opt("m", "Check"), Opt("p", PidArg(1, TRUE, 7))>>
Sweep    == <<Opt("m", "Check")>>

AtMost(n) == UNION {[1 .. k -> Options] : k \in 0 .. n}

EndsInCheck(c) ==
    \E k \in DOMAIN c : c[k] = Opt("m", "Check") /\ \A j \in k + 1 .. Len(c) : c[j].opt # "m"

(* Bounds: three options, the first of three being -m; and four lines for   *)
(* Check.                                                                   *)
SomeCommandLines ==
    LET all == AtMost(2)
               \cup {<<o>> \o rest : o \in {x \in Options : x.opt = "m"}, rest \in AtMost(2)}
    IN  {CheckOne, CheckNone, CheckHelp, Sweep} \cup {c \in all : ~EndsInCheck(c)}
=============================================================================
