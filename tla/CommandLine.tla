---------------------------- MODULE CommandLine ----------------------------
(***************************************************************************)
(* What the engine makes of its command line: parse_arg of parser.h, and   *)
(* build_snapshot_path of config.h.  A command line is the sequence of     *)
(* options getopt finds; an argument is reduced to what its validation     *)
(* looks at: the length of a text, whether it is all digits, whether it    *)
(* has a slash.  Check takes the options one after another.                *)
(***************************************************************************)
EXTENDS Integers

NAME_MAX == 255
PATH_MAX == 4096

(* The largest number of seven digits, as many as validate_pid lets pass.  *)
MaxPid   == 9999999

(* The lengths of KSNAP_DEFAULT_SNAPSHOT_DIR and .._NAME.                  *)
DefaultDir  == 7
DefaultName == 14

NoPid == -1

Opt(o, a) == [opt |-> o, arg |-> a]

(* parse_arg before the first option. *)
Defaults == [mode |-> "none", pid |-> NoPid, name |-> DefaultName, dir |-> DefaultDir,
             kill |-> FALSE]

Modes == [Dump |-> "DUMP", Restore |-> "RESTORE", Check |-> "CHECK"]

ValidMode(arg) == arg \in DOMAIN Modes

(* An empty argument passes, and is the pid 0. *)
ValidPid(arg) == arg.size <= 7 /\ arg.digits

ValidName(arg) ==
    /\ arg.size \in 1 .. NAME_MAX
    /\ ~arg.slash
    /\ ~arg.dots

Mut_ValidDir(arg) == arg.size > 0 /\ arg.size <= PATH_MAX - 2

ValidDir(arg) == arg.size > 0 /\ arg.size <= PATH_MAX - NAME_MAX - 2

(* The getopt loop: why an option is refused, if it is, which ends the loop *)
(* as -h does, that exits at once; and what an accepted one changes.        *)
Refusal(o) ==
    CASE o.opt = "m" -> IF ValidMode(o.arg) THEN "OK" ELSE "INVALID_MODE"
      [] o.opt = "p" -> IF ValidPid(o.arg)  THEN "OK" ELSE "INVALID_PID"
      [] o.opt = "n" -> IF ValidName(o.arg) THEN "OK" ELSE "INVALID_NAME"
      [] o.opt = "d" -> IF ValidDir(o.arg)  THEN "OK" ELSE "INVALID_ARGS"
      [] o.opt = "k" -> "OK"
      [] o.opt = "h" -> "USAGE"
      [] OTHER       -> "INVALID_ARGS"

Set(config, o) ==
    CASE o.opt = "m" -> [config EXCEPT !.mode = Modes[o.arg]]
      [] o.opt = "p" -> [config EXCEPT !.pid = o.arg.value]
      [] o.opt = "n" -> [config EXCEPT !.name = o.arg.size]
      [] o.opt = "d" -> [config EXCEPT !.dir = o.arg.size]
      [] o.opt = "k" -> [config EXCEPT !.kill = TRUE]

(* What getopt can hand over: texts have a length, and seven digits at most *)
(* make a number below ten millions.                                        *)
Proper(o) ==
    /\ o.opt = "p" /\ ValidPid(o.arg) => o.arg.value \in 0 .. MaxPid
    /\ o.opt \in {"n", "d"} => o.arg.size \in Nat

(* validate_mandatory_args *)
Mandatory(config) ==
    CASE config.mode = "none"                         -> "NO_MODE_SPECIFIED"
      [] config.mode = "DUMP" /\ config.pid = NoPid   -> "NO_PID_SPECIFIED"
      [] config.kill /\ config.mode \notin {"none", "DUMP"} -> "KILL_WITHOUT_DUMP"
      [] OTHER                                        -> "OK"

(* snprintf of "%s/%s": the characters it needs, its terminator left out.  *)
PathLength(config) == config.dir + 1 + config.name

(***************************************************************************)
(* What parse_arg lets through is what the modes rely on: a Dump has a     *)
(* process and Check's "no pid" cannot be typed in, -k only comes with     *)
(* Dump (parser.h:250-266), and the path of the snapshot fits PATH_MAX     *)
(* whatever name comes with whatever directory (parser.h:227-235), so that *)
(* a dump is never refused for it after its process was chosen.            *)
(***************************************************************************)
Sound(config) ==
    /\ config.mode \in {"DUMP", "RESTORE", "CHECK"}
    /\ config.mode = "DUMP" => config.pid >= 0
    /\ config.pid \in NoPid .. MaxPid
    /\ config.kill => config.mode = "DUMP"
    /\ PathLength(config) < PATH_MAX
=============================================================================
