# A TLA+ model of Ksnap

Ksnap snapshots a running Linux process into one file (`ksnap -m Dump`) and
later brings it back as a new process with the same memory, registers and open
files (`ksnap -m Restore`). A C engine does this with ptrace; a Flask backend
runs the engine for a browser panel. These modules model the parts of that
program where the order of steps, the failure of one of them, or a second actor
decides whether a process survives.

Line numbers refer to `src/Ksnap-engine/src/dumper.c`, `restorer.c`, `fds.c` and
`maps.c` unless another file is named. `PROJECT.json` maps every definition to
the lines it stands for.

## 1. The system

| component | state it keeps | operations | hard because of |
|---|---|---|---|
| Dump mode (`dumper.c`) | ptrace relation to the target, its own copies of registers, areas and descriptors, the stdio buffer and the file | `dump`, its collectors, `write_snapshot`, `write_vma_payload` | a dozen steps that may fail with a process stopped; `-k` ends the process on the strength of a file; other engines, SIGKILLs and the panel's timeout at any moment |
| Restore mode (`restorer.c`) | the new child, the opcode planted in its code, its registers, `result` | `restorer`, `spawn_traced_child`, `inject_syscall`, `restore_*`, `set_final_*` | the child is rebuilt by calls injected into it, one after the other, through code that is itself replaced; the child and the engine may die, signals may arrive |
| Descriptor table (`fds.c`, parts of both) | table of the snapshot, descriptors of the child | `collect_fds`, `find_shared_files`, `read_fd_table`, `open_snapshot_fds` | shared open files, numbers that `open()` picks, kcmp that gives up half way |
| Kernel mappings (`restorer.c`, `maps.c`) | where `[vvar]`, `[vdso]` are and should be | `restore_kernel_maps`, `find_named_map` | a `MREMAP_FIXED` move unmaps what is at its destination |
| Snapshot file (`dump_format.h`, `read_snapshot_metadata`) | header, tables, payloads | size and range checks | truncated files; an area count at its limits |
| `/proc/<pid>/maps` parsing (`maps.c`) | none | `parse_map_line`, `should_dump` | text formats |
| Check mode (`checker.c`) | reasons and counts of one report; a short ptrace attachment | `check`, `check_one` and its probes, `probe_ptrace` | must agree with what Dump then does; the probe stops a live process, and takes part in its signals |
| Command line (`parser.h`, `main.c`) | the configuration | `parse_arg`, `main` | limits of a directory and of a name that meet in one path |
| Panel: engine calls (`engine.py`) | `_session` and its lock | `check`, `dump`, `restore`, `stop`, `session`, `_stream_output` | requests run in threads; `stop` races the end of the session; timeouts, which sudo turns into waiting |
| Panel: console (`logbook.py`, polling in `app.js`) | numbered lines in a bounded deque; the browser's cursor | `append`, `since`, `clear`, `pollLogs`, `clearLogs` | overlapping, failing and cut-off polls, lines dropped at capacity, a restarted backend |
| Panel: folders (`directories.py`) | the registry file | `remember`, `known`, `require_known` | two requests read and replace one file, without a lock |
| Panel: eligibility, processes, listing, API, configuration, frontend | none of their own | routing, rendering | the gate is passed before the dump starts |

How they interact: the panel starts one engine process per request and sees only
its output and exit status: a Check as the gate of a dump, then the Dump, and a
Restore whose process it keeps. A Dump engine and its target share nothing but the
ptrace relation, which the kernel enforces to be one tracer per target. Dump and
Restore meet only through the file, which nothing locks. The restored child runs on
as a child of its engine, which waits for it, and the panel's session lasts as long
as that wait.

What makes each part correct:

* **Dump** - the target is never left stopped; a failed dump never ends it; `-k`
  ends it only when the file on the disk is complete and is the state the process
  died with; a successful file is one state; an unfinished one is recognisable.
* **Restore** - only a complete process is released; a failed restore leaves
  nothing behind; the code that injected calls run through stays executable;
  the engine does not hang.
* **Descriptors** - the restored table is the dumped one: numbers, paths,
  offsets and sharing; what a dump writes is accepted.
* **Kernel mappings** - all of them in place, none unmapped on the way.
* **Check** - "dumpable" is what a dump then comes to, and the process examined
  keeps its signals.
* **Panel** - one session at a time, and `stop` ends it; what a dump request is
  told is true; restore and delete stay in folders a dump wrote to; no remembered
  folder is lost; no console line twice, out of order or skipped, and none back
  after it was cleared; every request is answered.

`PROJECT.json` lists the hazards behind these at the line where each bites,
with the properties that cover it or the reason none does yet.

## 2. The modules

### `Dump.tla`

One engine process per element of `Engines`, each with its own `config` (`-p`,
the path of `-d`/`-n`, `-k`). `pc[e]` names where it stands in `dump()`:

```
start -> seized -> waiting -> collecting -> opening -> writing
      -> flushing -> syncing -> closing -> killing -> reaping -> done
                                         | detaching -> done
```

One action per call that matters: `Seize`, `Interrupt`, `Waited`, `Collect`
(registers, xstate, exe path and areas, descriptors), `Open`, `WritePart`,
`PayloadDone`, `Flush`, `Fsync`, `Close`, `Kill` (the SIGKILL), `Reaped` (the wait for
the death and the return of OK), `Detach`, and a failing twin
where the code has a failure path. A target is a vector of cells, each with a
version number that grows while the target runs (`Computes`). The first
`Collected` cells are what the engine reads into its own memory before it opens
the file; the other `Streamed` cells are areas, copied straight into the file. A
part of the file is in the stdio buffer (`flushed`), in the page cache (`cache`)
or on the disk (`disk`); `Spill` and `Writeback` move parts on when they like.

The environment: targets compute, die (`DiesAlone`), engines are killed at any
step (`EngineDies`, which is what the panel's dump timeout does), several engines
race for one target or one file. `Threaded` targets go on computing while
stopped, because `PTRACE_SEIZE` (93) takes one thread.

### `Snapshot.tla`

What `dump()` promises, with none of its steps. A dump without `-k` is one step: it
succeeds, and then a copy of the target as it is at that instant is on the disk, or
it fails and nothing happened to the target. With `-k` it is two: the target is ended
and the copy made in one instant (`Kills`), and success is reported later
(`SucceedsWithKill`), or never, if the engine is killed in between (`Crashes`); but a
dump that has ended its target never reports a failure. Of a threaded target the
copy may hold anything.

`Dump` implements it (`ImplementsSnapshot`) under this mapping: `outcome` is the
engine's `result` once `pc` is `done` or `crashed`, and `running` before; `saved`
is the disk contents of its file from the end of the target or the report of success
on, whichever is first; `order`, `mem`, `alive` are `config`, `mem`, `alive`; `ender`
is `killer`. The seizing, reading and writing are stutters; the steps that count are
`Kill`, `Reaped`, `Detach` and `EngineDies`.

### `RoundTrip.tla`

`Dump` and, beside it, engines started with `-m Restore` (`Readers`) that read the
same file: header, then the sizes it claims against the size of the file, then the
parts one by one. A reader may start before a dump, during it, after one that
failed, and may be reading when the next one empties the file.

### The `..Proofs` modules

The theorems of section 5, a module per component: `DumpProofs` (for `Dump`, for
its refinement of `Snapshot`, and for `RoundTrip`), `RestoreProofs`,
`FdTableProofs`, `KernelMapsProofs`, `CheckProofs` (with the command line),
`SessionProofs`, `ConsoleProofs` and `PanelProofs`.

### `Restore.tla`

`restorer()` as a list of jobs (`Jobs`): close-on-exec flags, the move of the
kernel mappings, an mmap and a payload per area, an mprotect per area with the
area of the injection site last. A job other than a payload is an injected call
in four steps: `Plant` (opcode and registers go in), `SingleStep`, `ChildSteps`
(the kernel executes, refuses or skips it), `Undo` (code and registers go back,
rax is looked at). A round of `restore_protections` that `continue`s is a job that
does nothing (`LoopsOn`). Before the jobs: `ReadMetadata`, `Fork`, the child's own
`ChildOpens` and `ChildExecs`, `FirstWait`, `OpenMem`. After: `SetFinalRegs`,
`SetFinalXstate`, `Release`, or `KillChild`, and `LastWait`. A child that
PTRACE_TRACEME did not make a tracee (its result is ignored, 884) is
`untraced`: its exec runs the program from its start, and the engine waits for that
(`RunsUntraced`).

`word` and `under` follow the one instruction at the injection site, `area` and
`content` the mapping and bytes of each area, `kmap` whether the child's vdso is
still its own, moved, or lost under an area mapped over it (`snap.over`).
`snap.site` is the area that will hold the child's rip.

The environment: the child dies at any moment (`ChildDies`), a signal for its
process group stops it (`SignalArrives`, `SignalBeforeExec`), the engine is
killed (`EngineDies`).

### `FdTable.tla`

From `/proc/<pid>/fd` to the reopened descriptors. `CollectFds` writes the
sorted entries (`Sorted`), `FindShared`/`KcmpFails` the sharing, `ReadFdTable` is the
validation of the restore, then `CloseRange`, `PlaceCopy`, `OpenFile` (lowest
free number), `Wind`, `Move`. An open file stands for its path, flags and offset.

### `KernelMaps.tla`

The two loops of `restore_kernel_maps` and the overlap check between them, over
an address space of a few pages. The injected mremap unmaps what it lands on.

### `Session.tla`

`restore()`, `stop()` and `session()` of engine.py as steps of request threads
(`Requests`) under `_session_lock`, the streaming thread of each session
(`Streamed`), and the two processes of a session: `engine` (running, dead and
waiting for a `poll`, reaped) and `program` (being built, running, dead).
`Restore` has the engine's side in detail; here it is `Forks`, `Releases`,
`GivesUp`, `EngineEnds`. The streaming thread reads the pipe to its end and only then
waits for the engine; a program may close its output while it lives, and a descendant
may keep it open, so `Streamed` asks only that the engine is over, and may be late. Output that is
not text ends that thread (`StreamBreaks`; `broken`), in the sessions of `Undecodable`. A signal for the group is put on its way by `Sent` and
delivered to each process on its own (`EngineDies`, `ProgramSignalled`,
`ChildStops`), so a stop may find one of them gone before the other. Only the
lookup of `stop()` is under the lock; `restore()` holds it from the look at the
old session to the start of the new one.

### `Console.tla`

`AppendLine`, `Answer` (`since`) and `ServeClear` are the log book's operations,
each under its lock; `Restart` is a new backend with an empty book.
An answer is a set of lines and the new cursor: the browser appends them in the
order of their numbers. The browser: `Tick` sends a poll with the current cursor whether or not
the last one was answered, `Receive` shows the lines and takes the cursor of the
answer, `PollFails` is its catch, `CutOff` an answer that breaks off in its body,
after which the cursor is `undefined` and `NoNumber` is the backend's refusal of it.
The clear button is `ClickClear`, `ServeClear`, `ShowCleared`.

### `CommandLine.tla` and `Check.tla`

`CommandLine` has what `parse_arg` makes of one option (`Refusal`, `Set`) and of
them all (`Mandatory`); `Check` takes them one by one (`GetOpt`), goes on as `main()`
does (`Main`), and is then `check_one()` in its order (`ReadStatus`, `ReadCmdline`,
`ProbeExe`, `ScanMaps`, `ScanFds`) and the ptrace probe (`Seize`, `Interrupt`,
`Waited`, `Detach`), against a process that changes, gets signals, dies, is reaped
or is traced by somebody else between any two of them; `EngineKilled` is the
panel's timeout. A refused option, or `-h` wherever it comes, ends the engine before
anything is examined (`refused`). A mapping or descriptor is reduced to what `classify_maps_line`
and `classify_fd` look at. Whether the engine may read the process's `/proc` files
(`readable`) and whether PTRACE_SEIZE is granted (`attachable`, which yama may deny
when the files are open) are two things. `DumpAccepts` is what a dump makes of a process in the
same state, translated from dumper.c, for the two to be compared.

The stop that `waitpid` reports is either that of the interrupt or that of a signal
(`stop`); a detach with signal 0 takes the latter's signal away. Seizing,
interrupting and detaching are the same calls as in `Dump`, which has no signals.

### `Panel.tla`

The handlers for dump, restore and delete, one thread per request. A dump is the
creation of the folder, the eligibility check (`gate`), the dump, `remember()` in
its three parts (`RememberLooks`, `RememberLoads`, `RememberSaves`) and the read of
the new header. An engine seizes a process nobody else traces, opens the file in
place, completes it, ends the process (`EndsIt`, and `Reports` once the death is
collected) or lets it go; it may fail or hang at any step. What it prints may not
decode as text (`Garbled`), and the header of its snapshot may be unreadable for the
panel (`HeaderUnread`): the request is then answered as failed, whatever the engine has
done. A timeout kills it (`TimesOut`), or cannot (`TimesOutUnderSudo`). A folder
is a value, and holds one snapshot name, so two dumps meet in a file when they meet
in a folder.

`Session`, `Panel` and `Console` are three views of one backend: they share no
state but the engine binary, except that everything writes lines to the book.

### MC modules

`MCDump`, `MCRoundTrip`, `MCRestore`, `MCFdTable`, `MCKernelMaps`, `MCSession`,
`MCConsole` and `MCPanel` only name sets of model values and a bound for the
configurations; `MCCheck` lists the processes and command lines of its run.
Definitions whose name begins with `Mut_` are variants of the definition that
follows them, written as a plausible bug; no run uses them, they exist to show that
each property can fail.

## 3. The runs

| run | question | result |
|---|---|---|
| `round_trip` | one dump, part by part, of a single-threaded or a threaded target, and one restore of its file: what is in cache and on disk after every failure or kill, what a restore makes of it, and is it a `Snapshot` | holds |
| `dump_live` | two engines, one target that computes, one path: is the target always let go, and spared by a failed dump | holds |
| `restore` | every failure, death of the child, kill of the engine and one stray signal, at every step | holds |
| `fd_table` | every table of four descriptors over three open files and two paths | holds |
| `kernel_maps` | every layout of two mappings in seven pages | holds |
| `session` | two threads that restore and stop, two sessions, engines that fail or are killed, output that is not text | holds |
| `console` | a book of one line, two polls in flight, a failure, a restart and a clear | holds |
| `check` | every process of up to two mappings and a descriptor, with and without access to `/proc` and to ptrace, one change, two signals; command lines at their limits | holds |
| `panel` | two requests out of dump, restore and delete, with sudo or as root, one process, three folders, answers of the engine that get lost | holds |
| `dump_shared` | a `-k` dump and another dump into one name | finding 1 |
| `restore_swallowed` | a signal ends the single step early | finding 2 |
| `session_survivor` | a program that handles SIGTERM, stopped | finding 3 |

**Bounds.**

* `round_trip` has one gathered cell and two streamed ones: a hole in the file, or
  an area read before another changed, needs two streamed parts and nothing more; a
  cell may change once (`MaxWrites = 1`), enough to make a stale copy differ. One
  of its two targets is threaded. A target the engine was not asked to dump stays as
  it is (`OnlyDumpedMove`), since it meets nothing.
* `dump_live` has two engines on one target, since the kernel admits one tracer,
  and one file, so that they meet there as well; one cell of each kind, which may
  change once.
* `restore` has two areas: one may hold the injection site while the other lies
  over the vdso, or both be the same one; one close-on-exec descriptor; one
  signal, which is what it takes to swallow a call (a second swallows another).
* `fd_table` has four numbers above stdio, so that a shared file, its copy, a
  stranger and a gap, or a table that is full, all fit.
* `kernel_maps` has seven pages and sizes up to two: two mappings can be apart,
  adjacent, overlapping on one page, exchanged, or equal to their destination.
* `session` has two requests and two sessions: a stop that holds the old session
  while the other thread starts a new one, and the overlap of two programs, take no
  more. The output of the first session may not decode (`Undecodable`), that of the
  second does. Requests repeat without bound. `OnlyOneRuns` is checked without kills from
  elsewhere, so that what it shows is the panel's own doing.
* `console`: two lines into a book of one push a line out, two polls are enough to
  overtake one another, and one of each fault can meet every other.
* `check`: two mappings are enough for each rule that counts or combines them, with
  `MaxKernelMaps = 1` so that two kernel mappings are too many; two signals, so that
  one can be lost and another not. Command lines have up to two options, or three
  that begin with `-m`; arguments lie on both sides of each limit; four lines ask for
  Check: of the process, of one that does not exist, of all, and with `-h` behind. Properties about
  the verdict speak of a process that did not change; changes matter to the probe
  and to the exit of every step.
* `panel`: two requests race for the registry, a file or a process. One failed read
  of the registry and one removed folder, each at any moment.

**Deadlock** is not checked: every one of these systems may stop.

**Fairness.** `Dump!FairSpec` asks for weak fairness of each engine's own steps
(a sequential program that the scheduler runs; none of its calls blocks but
`waitpid`, whose step is enabled only when there is something to report) and of
`EntersStop` (the kernel does stop an interrupted thread). Nothing is assumed of
targets, of `Spill`, `Writeback`, or of deaths. `Restore!FairSpec` asks for
weak fairness of the engine and of the child's own steps; that the restored
program ever ends is not assumed. `Session!FairSpec` asks it of the threads
that serve a request, of the streaming thread once engine and program are gone (until
then the pipe may stay open), of the delivery of signals, and of an engine whose child
is dead; not of new requests, nor of the lock being given to any particular thread,
which Python's does not promise. `Console` asks that the
timer keeps firing and that a request which does not fail is answered; not that
lines are written or buttons pressed. `Panel` asks it of the request threads, to
which the expiry of their timeouts belongs; engines may hang for ever.

**What the passing properties say**

* `KilledIsOnDisk`: after `-k` the disk, not only the cache, holds the target
  exactly as it died. Needs the file to itself and one thread, see finding 1.
* `SuccessIsConsistent`: parts read over a long time are one state at the very
  step that reports success. `LeavesPrefix`: no failure leaves a file with a
  hole, which the size checks of the restore (324-343) could not see; it is about
  the page cache, which is what a reader sees, and an engine whose path is its own.
* `RestoredIsOneState`: whatever a restore brings back is one whole snapshot,
  and the state the process ended in if `-k` ended it; never the beginning of a
  dump. Unless a dump emptied the file while it was being read.
* `ImplementsSnapshot`: somebody who sees outcomes, disk and live processes cannot
  tell a dump from `Snapshot`, also when the engine is killed between the end of the
  target and its report.
* `NeverLeftStopped`, `FailedDumpSpares`, `EventuallyReleased`: whatever fails,
  and whoever is killed, a target is not left in its stop.
* `ReleasedIsComplete`: at the detach of restorer.c:186, program, memory,
  protections, vdso, descriptor flags and registers are all there, and no planted
  opcode is left behind. With stray signals, the memory is. `SiteStaysExecutable`
  is the reason for the order of `restore_protections`. `NothingLeftBehind`,
  `RestoreSettles`: a restore lets its program go or ends without a child, unless
  the engine is killed, or waits for a program that runs untraced.
* `DescriptorsComeBack`, `SharingComesBack`, `DumpedIsAccepted`: the table after
  the restore is the one before the dump. `NumberToSpare`: a temporary number of
  `open()` always exists.
* `KernelMapsInPlace`: a move that is not refused puts each mapping in place and
  unmaps none on the way.
* `OneEngine`: no interleaving of restores starts two engines.
  `EndIsRecorded`: a session is noted as finished once engine and program are
  gone, whoever polled the engine first, unless its output broke the streaming
  thread. `StopEnds`: after an answered
  stop the program goes, two exceptions apart: it handles SIGTERM (finding 3), or
  it was still being built and its signal was reported to the engine, which
  swallows it. `StopIsDelivered` is its safety half: when `stop()` has answered, the
  signal has reached, or is on its way to, all of the session there is.
* `ShownInOrder`: no line twice and none after a newer one, as long as no two polls
  overlap. `NoneSkipped`: the cursor passes a line only when it was shown or the
  book has lost it, also when polls overlap; up to a restart of the backend.
  `ClearedStaysCleared`: except for a poll that had its answer at the clear.
  `CatchesUp`: the browser ends up at the end of the book, unless an answer cut off
  in its body has cost it its cursor.
* `VerdictIsRight`: Check and Dump agree about a process that stays as it is, and
  on what is copied and carried. The reasons Check has beyond a dump's limits are
  `Stricter`, what it does not look at is `Overlooked`. A process whose `/proc` files
  are open but whose seizing is refused is one a dump fails on as well. `SignalsKept`:
  the probe takes at most one signal from the process, and only one that was
  undelivered when PTRACE_INTERRUPT was asked for: sent before PTRACE_SEIZE and not yet
  taken, or between the two. `CommandLineIsSound`: what is let through, the modes can rely on.
* `OnlyOwnFolders`: restore and delete reach the default folder or one a dump
  succeeded in. `RememberedUnlessRaced` states precisely when a folder is lost.
  `AnswersAreTrue`: success means a whole snapshot of that dump and an ended
  process if asked; a process the dump ended has its whole snapshot, whatever is
  answered; an error means that this dump ended nobody, but for a timeout and a
  success whose word got lost (`lost`: output that does not decode, a header that
  cannot be read, an engine killed at its exit). Nothing is said of requests that
  use one file. `EveryRequestAnswered`: though engines hang; but not
  under sudo.

## 4. Where the code and its own words disagree

1. `dump_shared` - dumper.c:162 "Only a complete snapshot ends it", 655-656 the
   file "is about to become the only copy of the process". A second dump with
   the same name, with `-k` or without, empties the file (566) after the first one's fsync; the first
   still ends its process.
2. `restore_swallowed` - restorer.c:658 "give every area the protection recorded
   in the snapshot". `inject_syscall` (593-611) ignores the wait status, so a
   signal that stops the child before the planted instruction makes the number of
   the call pass for its result. In the trace that call is an mprotect, and an area
   which is not rwx in the snapshot is released as rwx.
3. `session_survivor` - Ksnap-backend/docs/README.md:143 "Only one session can run
   at a time". `stop()` waits for the engine alone (engine.py:333), so its SIGKILL
   never follows, `running()` asks the engine alone, and a program that handles
   SIGTERM stays beside the next session's.

Known limits, met while modelling, that have no run of their own. Where a property
would run into one it names the exception.

* An engine killed while it rebuilds a child leaves it running half restored:
  `PTRACE_O_EXITKILL` is not set (restorer.c:190 kills only what fails by itself).
* A child that dies during an injected call is reaped by the wait inside
  `inject_syscall`; restorer.c:198 then signals its pid once more, though 208-209
  take care not to.
* "already in place" (restorer.c:786) cannot be reached: equal ranges overlap, so
  769 has refused them.
* Check calls a process dumpable whose dump then fails over a descriptor that cannot
  be read or over a mapping that extends past the end of its file.
* An answer cut off in its body leaves the browser's cursor `undefined` for good
  (app.js:549), though "the next tick retries" (552). A restarted backend numbers
  its lines from 1 again, and the browser skips them up to its old cursor.
* `remember()` (directories.py:88) takes no lock, and a registry that cannot be read
  for a moment counts as empty (61): folders are lost from the list.
* Under sudo a dump that times out is reported as an engine that could not be started
  (engine.py:178), and its thread waits as long as the engine does.
* A dump that times out after `-k` has ended its process is answered as failed, and
  its folder is not remembered. It is the same when the engine prints a path that
  does not decode as text (engine.py:170, a ValueError, answered 400), and the answer
  is an error too when the panel may not read the snapshot a root engine wrote (208).
* A restored program that prints bytes which are not text ends the thread that reads
  its output (engine.py:243): no returncode, no `finished_at` and no line in the
  console, and once the pipe is full it blocks.
* The result of PTRACE_TRACEME is ignored (restorer.c:884): if it is refused, the
  program runs from its start instead of from the snapshot, and the engine waits for
  it at 110.
* The probe of Check, and a dump, may take from a process a signal that was sent just
  before they seized it.

## 5. What is proved

Every safety invariant and the one action property the runs check, and that `Dump`
implements `Snapshot`, are theorems: they hold for every value of the constants,
where the runs have small ones.

| module | theorem | property |
|---|---|---|
| `DumpProofs` | `TypeCorrect` | `Dump!TypeOK` |
| | `NoTargetLeftStopped` | `NeverLeftStopped` |
| | `FailureSpares` | `FailedDumpSpares` |
| | `KilledTargetSurvives` | `KilledIsOnDisk` |
| | `SuccessfulDumpIsConsistent` | `SuccessIsConsistent` |
| | `FilesArePrefixes` | `LeavesPrefix` |
| | `DumpImplementsSnapshot` | `ImplementsSnapshot` |
| | `RestoreGetsOneState` | `RestoredIsOneState` |
| `RestoreProofs` | `RestoreTypes` | `Restore!TypeOK` |
| | `ReleaseIsComplete` | `ReleasedIsComplete` |
| | `SiteIsExecutable` | `SiteStaysExecutable` |
| | `NothingIsLeftBehind` | `NothingLeftBehind` |
| `FdTableProofs` | `FdTableTypes` | `FdTable!TypeOK` |
| | `DescriptorsReturn` | `DescriptorsComeBack` |
| | `SharingReturns` | `SharingComesBack` |
| | `ThereIsANumber` | `NumberToSpare` |
| | `NothingIsRefused` | `DumpedIsAccepted` |
| `KernelMapsProofs` | `KernelMapsTypes` | `KernelMaps!TypeOK` |
| | `KernelMapsGetInPlace` | `KernelMapsInPlace` |
| `CheckProofs` | `CheckTypes` | `Check!TypeOK` |
| | `VerdictsAreRight` | `VerdictIsRight` |
| | `SignalsAreKept` | `SignalsKept` |
| | `EveryLineIsSound` | `CommandLineIsSound` |
| `SessionProofs` | `SessionTypes` | `Session!TypeOK` |
| | `OneEngineAtATime` | `OneEngine` |
| | `StopsAreDelivered` | `StopIsDelivered` |
| `ConsoleProofs` | `ConsoleTypes` | `Console!TypeOK` |
| | `LinesAreShownInOrder` | `ShownInOrder` |
| | `NoLineIsSkipped` | `NoneSkipped` |
| | `ClearedLinesStayAway` | `ClearedStaysCleared` |
| `PanelProofs` | `PanelTypes` | `Panel!TypeOK` |
| | `FoldersAreOwn` | `OnlyOwnFolders` |
| | `FoldersAreRemembered` | `RememberedUnlessRaced` |
| | `AnswersHold` | `AnswersAreTrue` |

**The way of the proofs.** Hardly any of these properties is inductive. Each module
has one invariant that is, a conjunction of named parts; TLC has checked each of
them as an invariant of the component's run before it was proved. Then: the initial
states satisfy it, every action keeps each part (a lemma per part, a step per action),
and it implies the properties.

**Assumptions** are those about constants, named, and in the modules that declare
them; TLC evaluates them in every run. Sentinels are no members of the sets they
complement; bounds are natural numbers; a dump has something to gather and something
to stream; kernel mappings are finitely many and each is in the header once; the pools
of mappings and command lines of `Check` hold what `/proc` and getopt can hand over
(a text has a length, seven digits make a number below ten millions).

**`Dump`.** `IInv` adds to the properties:

* `TracerOK` - a seized target and the one engine at work on it name each other.
  Without it a second engine could be the one that detaches or kills.
* `CountersOK` - how many parts are read and flushed in each phase, and which
  value `result` has there. `"closing"` with `result = "OK"` means all of them.
* `FrozenOK` - from the reported stop on, the target is stopped or dead, so its
  cells do not change.
* `HeldOK` - hence every cell read so far equals the target's, now and not only
  when it was read. This is where "single-threaded" is needed.
* `FileOK` - hence what has left the buffer of an engine that owns its file is
  the target, from the fsync on also on the disk, and stays so after the kill.

`OnlyActor` and `InnerSaves` (what any step of an engine does to its phase) keep the
steps of other engines out of it. `KilledIsOnDisk` follows from `FileOK` because the
cells of a dead target do not change. `SuccessIsConsistent` is an action property: by
`CountersOK` only `Reaped` and `Detach` report success, and `FileOK` holds before
them. `FilesArePrefixes` (the page cache, for an engine that owns its path) has an
invariant of its own, `PInv`, since it must hold for threaded targets, where `HeldOK`
does not: an open file holds exactly the
first `flushed` parts, and a cell that was read is never empty.

**The refinement.** `DumpImplementsSnapshot` is about engines each of which has its
file to itself (`Apart`, which says of the command lines what `OwnsPath` says of one):
with two dumps into one name, one of them with `-k`, it is false, which is finding 1. `Apart` is a
hypothesis about the initial state only, since command lines do not change. `SInv`
adds to `IInv` and `PInv` what an engine about to report success has on the disk
(`DeliveredOK`), up to the end of a dump that is waiting for the death it caused; then
`Kill` is `Kills`, or a stutter if the target was dead already, `Reaped` is
`SucceedsWithKill`, a kill of the engine after that is `Crashes` with the copy made, and
each other step of an engine ends the dump as `Succeeds` or `Fails`, or is a stutter.

**`RoundTrip`.** `RestoreGetsOneState` has the same hypothesis. `RIInv` says which
cells a reader can have at each stage: as long as the file was not emptied under it,
what it has is what one engine holds, or the older snapshot, and once it has passed
the size check (324-343) that engine has written everything.

**`Restore`.** `RestoreInv`: what is not yet as in the snapshot is still on the list
of jobs, part by part of the process (`MemoryOK`), and the list keeps the order the code
relies on (`TodoOK`): the move before any area, an area before its payload and its
protection, the site's protection last. `SiteStaysExecutable` needs `SiteOK`: the only
call still to come once the site has its final protection is the one that gave it.
`StageOK` says which state of the child goes with which place in `restorer()`, so
that each failure ends in `KillChild` or in an end without a child.

**`FdTable`.** `ListedOK` and `CopiesOK` describe the table a dump writes; together they
are the conditions `read_fd_table` tests. `ComparedOK` says that sharing was found as
far as kcmp got. `ReopenedOK` is the loop of the child: the entries before the index
are open as recorded, and nothing else is, but for one temporary number. Since entries
ascend and at most as many numbers are taken as entries are done, one at or below the
wanted one is free; the counting is a lemma about finite sets. A sorted table is any
enumeration of the entries in ascending order, since that is all qsort promises.

**`KernelMaps`.** The mappings before the index are in place, the others still lie
within the child's old range (`MovingOK`), and the two ranges are apart, which is what
`Overlap` has refused otherwise.

**`Check`.** `VerdictOK` follows the examination of a process that has not changed, one
part per file of `/proc` it has read. `SignalsOK` ties `seized`, `trap` and `stop` to
the place in `probe_ptrace`: a stop for a signal is possible only before the interrupt
was asked for, and so only for a signal that was undelivered by then. `Attachable` is what
the probe adds to the files: a refusal of an unchanged process is one a dump would meet. `ReasonsOK` bounds the reasons
that can come together. `LineOK` is the invariant of the getopt loop.

**`Session`.** Only the engine of the current session can be at work (`BehindOK`), and
what `restore()` saw under the lock stays true until it starts its own (`LockOK`).
`SignalledOK` follows a signal from `stop()` through forks, releases and crashes.

**`Console`.** The book holds the last lines of its run without a gap (`BookOK`), and
the cursor of every poll and answer under way covers only lines shown, in that answer
or lost (`SkippedOK`), whichever is received first.

**`Panel`.** Every folder in the registry, or in the hands of a request that will write
it there, is one a dump succeeded in (`OwnedOK`); two requests that are saving have
both been noted as overlapping, and else what was remembered is in the next save
(`KeptOK`); `MadeOK` says, for each place of a request and its engine, whose file it is
that the request is about to answer for, and that a process its engine has ended comes
with a complete file, up to the answer.

**What the proofs corrected.**

* `RememberedUnlessRaced` held for the two requests of the run and not for three: a
  request that finds its folder already in the registry loses it to a save that began
  before. `RememberLooks` now notes that overlap, and the property excuses it.
* `VerdictIsRight` was false of `-m Check -p 1 -h`, which prints the usage and exits
  with 0, the status of a dumpable process, without having looked at it. No command
  line of the run had a `-h` behind a complete Check. The end of `parse_arg` and the end
  of an examination are different places now, and the run has that line.
* `Sorted` chose one enumeration, which hid that any ascending one will do.

**Model-checked only.** Liveness under fairness (`EventuallyReleased`, `RestoreSettles`,
`EndIsRecorded`, `StopEnds`, `CatchesUp`, `EveryRequestAnswered`): the proof system does
not reach ENABLED, and so not what fairness gives. The three properties of section 4,
which are false.

## 6. What is left out, and why

* Signals that reach a *dumped* process: every stop in `Dump` is the interrupt's
  stop. `Check` has the two kinds of stop for the same four calls.
* The byte level of the file: parts are whole; a partly written part counts as
  not written. Offsets, sizes and overflow checks of `read_snapshot_metadata` on a
  file that no dump wrote are one nondeterministic outcome in `Restore`.
* `Restore` takes the site of injection to lie outside the child's own vdso and
  the snapshot to have kernel mappings recorded; where these move to is the
  subject of `KernelMaps`. Which of its calls fails is left open (`outcome`).
* `FdTable`: the forbidden flags, the path pool, and an `O_PATH` descriptor's
  lseek. Any call of `open_snapshot_fds` may fail (`ChildExits`).
* `Check`: counting children, and the printing of reports. A sweep of all of
  `/proc` is the examination of one process without the probe.
* Reuse of pids and process groups: `stop()` in `Session` meets an empty group,
  never a stranger's; the frontend submits the pid it had selected (app.js:495), and
  whether it is still the same process nobody can tell.
* `Session` counts `sudo` and the engine behind it as one process, and lets `sudo kill`
  through. A descendant of the program that keeps the pipe open for ever keeps the
  end of the session from being recorded: the fairness of `Streamed` assumes there is
  none once the program is gone.
* `Panel`: normalisation of paths, a restart of the backend (the registry is its
  only lasting state), the process list and the listing of snapshots, which change
  nothing, and the caveats and levels of eligibility, which render what Check said.
* Text: parsing of `/proc` files and of JSON, the messages, the frontend's rendering.
* The test programs and test suites: read for what they say of the program.

## 7. The plan

Written: all modules of section 2. Every safety property a run checks is a theorem, so
what remains is to say and to prove more about the parts that meet:

1. `Session`: the steps of the engine there (`Forks`, `Releases`, `GivesUp`) as an
   abstraction of `Restore`, the way `Snapshot` is one of `Dump`.
2. `FdTable` and `Restore`: that the flags `Restore` gives back are those of the
   descriptors `FdTable` has opened.
3. The safety halves of the other liveness properties, as `StopIsDelivered` is one of
   `StopEnds`: that a request of `Panel` that waits always has an engine that can end
   or a timeout that can expire, and that a stopped target of `Dump` always has an
   engine with an enabled step.
