------------------------------- MODULE Panel --------------------------------
(***************************************************************************)
(* Dump requests of the panel and the folders their snapshots land in: the *)
(* handlers of app.py, check() and dump() of engine.py, directories.py and *)
(* snapshot.py.  Flask serves every request in a thread of its own and     *)
(* nothing but the restore session is locked, so requests meet in the      *)
(* registry file, in a snapshot of the same name and in the process they   *)
(* trace.  An engine is another program: the panel waits for it, for so    *)
(* long, and then ends it, which it can only do as root.                   *)
(***************************************************************************)
EXTENDS Integers

CONSTANTS
    Requests,       \* threads, one per request
    Processes,      \* processes a dump may be asked of
    Folders,        \* folders a snapshot may be in, under one and the same name
    Default,        \* SNAPSHOT_DIR
    Nobody,
    MaxUnreadable,  \* bound: reads of the registry that fail
    MaxRemovals     \* bound: folders somebody removes

ASSUME PanelAssumption ==
    /\ Default \in Folders
    /\ Nobody \notin Requests
    /\ MaxUnreadable \in Nat /\ MaxRemovals \in Nat

Calls ==
    [kind : {"dump"}, pid : Processes, kill : BOOLEAN, folder : Folders]
    \cup [kind : {"restore", "delete"}, folder : Folders]

VARIABLES
    sudo,        \* uses_sudo(): the panel is not root itself
    call,        \* what each request asks for
    pc,          \* where its thread stands
    answer,      \* what it was answered
    loaded,      \* the registry as remember() read it
    engine,      \* the engine a request waits for
    tracer,      \* the request whose engine has seized a process
    alive,       \* processes that have not died
    file,        \* the snapshot in a folder: whose it is, and how much of it
    exists,      \* folders that are there
    registry,    \* DIRECTORIES_FILE
    unreadable, removals,
    ender,       \* history: the dump whose -k ended a process
    written,     \* history: folders a successful dump went to
    timedOut,    \* history: requests the panel stopped waiting for
    lost,        \* history: requests whose engine had done its work, but failed to
                 \* say so or could not be made out
    contested,   \* history: requests whose snapshot somebody else touched too
    overlapped,  \* history: requests that had the registry open while another saved it
    unsaved      \* history: requests whose folder could not be saved

requestVars == <<call, pc, answer, loaded>>
engineVars  == <<engine, tracer, alive, ender>>
diskVars    == <<file, exists, registry>>
historyVars == <<written, timedOut, lost, contested, overlapped, unsaved>>
vars == <<sudo, requestVars, engineVars, diskVars, unreadable, removals, historyVars>>

NoFile == [by |-> Nobody, part |-> "none"]

Places  == {"idle", "gate", "dump", "waits", "remember", "load", "save", "header",
            "allowed", "answered"}
Engines == {"none", "checking", "probing", "dumping", "seized", "opened", "saved",
            "ended", "ok", "failed"}

Init ==
    /\ sudo \in BOOLEAN
    /\ call \in [Requests -> Calls]
    /\ pc = [r \in Requests |-> "idle"]
    /\ answer = [r \in Requests |-> "none"]
    /\ loaded = [r \in Requests |-> {}]
    /\ engine = [r \in Requests |-> "none"]
    /\ tracer = [p \in Processes |-> Nobody]
    /\ alive  = [p \in Processes |-> TRUE]
    /\ file   = [f \in Folders |-> NoFile]
    /\ exists = {Default} /\ registry = {}
    /\ unreadable = 0 /\ removals = 0
    /\ ender = [p \in Processes |-> Nobody]
    /\ written = {} /\ timedOut = {} /\ lost = {} /\ contested = {} /\ overlapped = {} /\ unsaved = {}

Folder(r) == call[r].folder

GoTo(r, place) == pc' = [pc EXCEPT ![r] = place] /\ UNCHANGED answer

Answers(r, what) ==
    /\ pc' = [pc EXCEPT ![r] = "answered"]
    /\ answer' = [answer EXCEPT ![r] = what]

-----------------------------------------------------------------------------

(***************************************************************************)
(* The registry.  _load() takes a file it cannot read for an empty one.    *)
(***************************************************************************)
Load(stored) ==
    \/ stored = registry /\ UNCHANGED unreadable
    \/ stored = {} /\ unreadable < MaxUnreadable /\ unreadable' = unreadable + 1

Known(stored) == {Default} \cup (stored \cap exists)

(* require_known(), for restore and delete. *)
RequireKnown(r) ==
    /\ pc[r] = "idle" /\ call[r].kind # "dump"
    /\ \E stored \in {registry, {}} :
        /\ Load(stored)
        /\ IF Folder(r) \in Known(stored) THEN GoTo(r, "allowed") ELSE Answers(r, "error")
    /\ UNCHANGED <<sudo, call, loaded, engineVars, diskVars, removals, historyVars>>

Savers == {q \in Requests : pc[q] = "save"}

(* remember(): known() reads the file once, and the list to append to is    *)
(* read again.  What is found there may be lost to a save that is under way.*)
RememberLooks(r) ==
    /\ pc[r] = "remember"
    /\ \E stored \in {registry, {}} :
        /\ Load(stored)
        /\ \/ /\ Folder(r) \in Known(stored)
              /\ overlapped' = IF Savers = {} THEN overlapped ELSE overlapped \cup {r}
              /\ GoTo(r, "header")
           \/ /\ Folder(r) \notin Known(stored)
              /\ GoTo(r, "load")
              /\ UNCHANGED overlapped
    /\ UNCHANGED <<sudo, call, loaded, engineVars, diskVars, removals, written, timedOut, lost,
                   contested, unsaved>>

RememberLoads(r) ==
    /\ pc[r] = "load"
    /\ \E stored \in {registry, {}} :
        Load(stored) /\ loaded' = [loaded EXCEPT ![r] = stored]
    /\ overlapped' = IF Savers = {} THEN overlapped ELSE overlapped \cup Savers \cup {r}
    /\ GoTo(r, "save")
    /\ UNCHANGED <<sudo, call, engineVars, diskVars, removals, written, timedOut, lost,
                   contested, unsaved>>

Mut_RememberSaves(r) ==
    /\ pc[r] = "save"
    /\ registry' = {Folder(r)}
    /\ loaded' = [loaded EXCEPT ![r] = {}]
    /\ GoTo(r, "header")
    /\ UNCHANGED <<sudo, call, engineVars, file, exists, unreadable, removals, historyVars>>

(* Written aside and moved over. *)
RememberSaves(r) ==
    /\ pc[r] = "save"
    /\ registry' = loaded[r] \cup {Folder(r)}
    /\ loaded' = [loaded EXCEPT ![r] = {}]
    /\ GoTo(r, "header")
    /\ UNCHANGED <<sudo, call, engineVars, file, exists, unreadable, removals, historyVars>>

(* The dump is answered as if nothing was wrong, only the console tells. *)
RememberFails(r) ==
    /\ pc[r] = "save"
    /\ unsaved' = unsaved \cup {r}
    /\ loaded' = [loaded EXCEPT ![r] = {}]
    /\ GoTo(r, "header")
    /\ UNCHANGED <<sudo, call, engineVars, diskVars, unreadable, removals,
                   written, timedOut, lost, contested, overlapped>>

-----------------------------------------------------------------------------

(***************************************************************************)
(* A dump request: the folder, the eligibility check, the dump, the folder *)
(* again, and the header of the new snapshot.                              *)
(***************************************************************************)
Launches(r, what, place) ==
    /\ engine' = [engine EXCEPT ![r] = what]
    /\ GoTo(r, place)

DumpCalled(r) ==
    /\ pc[r] = "idle" /\ call[r].kind = "dump"
    /\ exists' = exists \cup {Folder(r)}
    /\ Launches(r, "checking", "gate")
    /\ UNCHANGED <<sudo, call, loaded, tracer, alive, ender, file, registry, unreadable,
                   removals, historyVars>>

(* The folder cannot be created, the pid is no good, or there is no engine  *)
(* to start.                                                                *)
DumpRefused(r) ==
    /\ pc[r] = "idle" /\ call[r].kind = "dump"
    /\ Answers(r, "error")
    /\ UNCHANGED <<sudo, call, loaded, engineVars, diskVars, unreadable, removals, historyVars>>

Dumpable(r) ==
    /\ pc[r] = "gate" /\ engine[r] = "ok"
    /\ Launches(r, "dumping", "dump")
    /\ UNCHANGED <<sudo, call, loaded, tracer, alive, ender, diskVars, unreadable, removals,
                   historyVars>>

(* The name is only looked at now, and the engine may be gone by now. *)
DumpNotStarted(r) ==
    /\ pc[r] = "gate" /\ engine[r] = "ok"
    /\ engine' = [engine EXCEPT ![r] = "none"]
    /\ Answers(r, "error")
    /\ UNCHANGED <<sudo, call, loaded, tracer, alive, ender, diskVars, unreadable, removals,
                   historyVars>>

Dumped(r) ==
    /\ pc[r] = "dump" /\ engine[r] = "ok"
    /\ Launches(r, "none", "remember")
    /\ written' = written \cup {Folder(r)}
    /\ UNCHANGED <<sudo, call, loaded, tracer, alive, ender, diskVars, unreadable, removals,
                   timedOut, lost, contested, overlapped, unsaved>>

Mut_EngineRefused(r) ==
    /\ pc[r] \in {"gate", "dump"} /\ engine[r] = "failed"
    /\ engine' = [engine EXCEPT ![r] = "none"]
    /\ IF pc[r] = "dump" THEN GoTo(r, "remember") ELSE Answers(r, "error")
    /\ UNCHANGED <<sudo, call, loaded, tracer, alive, ender, diskVars, unreadable, removals,
                   historyVars>>

EngineRefused(r) ==
    /\ pc[r] \in {"gate", "dump"} /\ engine[r] = "failed"
    /\ engine' = [engine EXCEPT ![r] = "none"]
    /\ Answers(r, "error")
    /\ UNCHANGED <<sudo, call, loaded, tracer, alive, ender, diskVars, unreadable, removals,
                   historyVars>>

(* Output of the engine that does not decode as text raises, whatever the   *)
(* engine has done by then, and is answered like a bad request.             *)
Garbled(r) ==
    /\ pc[r] \in {"gate", "dump"} /\ engine[r] \in {"ok", "failed"}
    /\ engine' = [engine EXCEPT ![r] = "none"]
    /\ lost' = lost \cup {r}
    /\ Answers(r, "error")
    /\ UNCHANGED <<sudo, call, loaded, tracer, alive, ender, diskVars, unreadable, removals,
                   written, timedOut, contested, overlapped, unsaved>>

Released(r) == [p \in Processes |-> IF tracer[p] = r THEN Nobody ELSE tracer[p]]

(* subprocess.run() kills what it started and waits for it: the kernel lets *)
(* go of the process that was traced.                                       *)
Mut_TimesOut(r) ==
    /\ pc[r] \in {"gate", "dump"}
    /\ ~sudo
    /\ timedOut' = timedOut \cup {r}
    /\ Answers(r, "error")
    /\ UNCHANGED <<sudo, call, loaded, engineVars, diskVars, unreadable, removals,
                   written, lost, contested, overlapped, unsaved>>

Mut_TimesOutWaiting(r) ==
    /\ pc[r] \in {"gate", "dump"}
    /\ ~sudo
    /\ timedOut' = timedOut \cup {r}
    /\ GoTo(r, "waits")
    /\ UNCHANGED <<sudo, call, loaded, engineVars, diskVars, unreadable, removals,
                   written, lost, contested, overlapped, unsaved>>

TimesOut(r) ==
    /\ pc[r] \in {"gate", "dump"}
    /\ ~sudo
    /\ timedOut' = timedOut \cup {r}
    /\ engine' = [engine EXCEPT ![r] = "none"]
    /\ tracer' = Released(r)
    /\ Answers(r, "error")
    /\ UNCHANGED <<sudo, call, loaded, alive, ender, diskVars, unreadable, removals,
                   written, lost, contested, overlapped, unsaved>>

(* A panel that is not root may not signal sudo: kill() raises, and leaving *)
(* the with statement of Popen waits until the engine ends by itself.       *)
TimesOutUnderSudo(r) ==
    /\ pc[r] \in {"gate", "dump"}
    /\ sudo
    /\ timedOut' = timedOut \cup {r}
    /\ GoTo(r, "waits")
    /\ UNCHANGED <<sudo, call, loaded, engineVars, diskVars, unreadable, removals,
                   written, lost, contested, overlapped, unsaved>>

Waited(r) ==
    /\ pc[r] = "waits" /\ engine[r] \in {"ok", "failed"}
    /\ engine' = [engine EXCEPT ![r] = "none"]
    /\ Answers(r, "error")
    /\ UNCHANGED <<sudo, call, loaded, tracer, alive, ender, diskVars, unreadable, removals,
                   historyVars>>

(* The header is written first, so most of a file may be missing. *)
HeaderRead(r) ==
    /\ pc[r] = "header"
    /\ file[Folder(r)].part # "none"
    /\ Answers(r, "ok")
    /\ UNCHANGED <<sudo, call, loaded, engineVars, diskVars, unreadable, removals, historyVars>>

(* It may be missing or unfinished, and the panel may not be allowed to read*)
(* a file that an engine run as root has written.                           *)
HeaderUnread(r) ==
    /\ pc[r] = "header"
    /\ lost' = lost \cup {r}
    /\ Answers(r, "error")
    /\ UNCHANGED <<sudo, call, loaded, engineVars, diskVars, unreadable, removals,
                   written, timedOut, contested, overlapped, unsaved>>

-----------------------------------------------------------------------------

(* Others that have to do with the snapshot r opens or removes. *)
OthersIn(r) ==
    {q \in Requests \ {r} : /\ pc[q] # "idle"
                            /\ call[q].kind # "restore" /\ Folder(q) = Folder(r)}

Contests(r) ==
    contested' = IF OthersIn(r) = {} THEN contested
                                     ELSE contested \cup OthersIn(r) \cup {r}

RestoreStarts(r) ==
    /\ pc[r] = "allowed" /\ call[r].kind = "restore"
    /\ \E what \in {"ok", "error"} : Answers(r, what)
    /\ UNCHANGED <<sudo, call, loaded, engineVars, diskVars, unreadable, removals, historyVars>>

Delete(r) ==
    /\ pc[r] = "allowed" /\ call[r].kind = "delete"
    /\ file' = [file EXCEPT ![Folder(r)] = NoFile]
    /\ Answers(r, IF file[Folder(r)].part = "none" THEN "error" ELSE "ok")
    /\ Contests(r)
    /\ UNCHANGED <<sudo, call, loaded, engineVars, exists, registry, unreadable, removals,
                   written, timedOut, lost, overlapped, unsaved>>

-----------------------------------------------------------------------------

(***************************************************************************)
(* The engine, as far as the panel can tell: it seizes one process, which  *)
(* it shares with no other tracer, and a dump writes a file in place.      *)
(***************************************************************************)
EngineGoes(r, where) == engine' = [engine EXCEPT ![r] = where]

Seizes(r) ==
    LET p == call[r].pid IN
    /\ engine[r] \in {"checking", "dumping"}
    /\ alive[p] /\ tracer[p] = Nobody
    /\ tracer' = [tracer EXCEPT ![p] = r]
    /\ EngineGoes(r, IF engine[r] = "checking" THEN "probing" ELSE "seized")
    /\ UNCHANGED <<sudo, requestVars, alive, ender, diskVars, unreadable, removals, historyVars>>

(* A traced process is reported blocked, and so is one the engine refuses   *)
(* for any other reason; a dump that fails leaves the file as it is.        *)
EngineFails(r) ==
    /\ engine[r] \notin {"none", "ended", "ok", "failed"}
    /\ EngineGoes(r, "failed")
    /\ tracer' = Released(r)
    /\ UNCHANGED <<sudo, requestVars, alive, ender, diskVars, unreadable, removals, historyVars>>

Probed(r) ==
    /\ engine[r] = "probing" /\ alive[call[r].pid]
    /\ EngineGoes(r, "ok")
    /\ tracer' = Released(r)
    /\ UNCHANGED <<sudo, requestVars, alive, ender, diskVars, unreadable, removals, historyVars>>

Opens(r) ==
    /\ engine[r] = "seized"
    /\ Folder(r) \in exists
    /\ file' = [file EXCEPT ![Folder(r)] = [by |-> r, part |-> "some"]]
    /\ EngineGoes(r, "opened")
    /\ Contests(r)
    /\ UNCHANGED <<sudo, requestVars, tracer, alive, ender, exists, registry, unreadable,
                   removals, written, timedOut, lost, overlapped, unsaved>>

(* Only the file that is still under its name is the one being written. *)
Saves(r) ==
    /\ engine[r] = "opened"
    /\ file' = IF file[Folder(r)].by = r THEN [file EXCEPT ![Folder(r)].part = "complete"]
                                         ELSE file
    /\ EngineGoes(r, "saved")
    /\ UNCHANGED <<sudo, requestVars, tracer, alive, ender, exists, registry, unreadable,
                   removals, historyVars>>

Mut_EndsIt(r) ==
    LET p == call[r].pid IN
    /\ engine[r] = "opened" /\ call[r].kill
    /\ alive' = [alive EXCEPT ![p] = FALSE]
    /\ ender' = IF alive[p] THEN [ender EXCEPT ![p] = r] ELSE ender
    /\ EngineGoes(r, "ended")
    /\ tracer' = Released(r)
    /\ UNCHANGED <<sudo, requestVars, diskVars, unreadable, removals, historyVars>>

EndsIt(r) ==
    LET p == call[r].pid IN
    /\ engine[r] = "saved" /\ call[r].kill
    /\ alive' = [alive EXCEPT ![p] = FALSE]
    /\ ender' = IF alive[p] THEN [ender EXCEPT ![p] = r] ELSE ender
    /\ EngineGoes(r, "ended")
    /\ tracer' = Released(r)
    /\ UNCHANGED <<sudo, requestVars, diskVars, unreadable, removals, historyVars>>

(* The engine has waited for the process it killed and exits with success,  *)
(* unless somebody ends it just then.                                       *)
Reports(r) ==
    /\ engine[r] = "ended"
    /\ \/ EngineGoes(r, "ok") /\ UNCHANGED lost
       \/ EngineGoes(r, "failed") /\ lost' = lost \cup {r}
    /\ UNCHANGED <<sudo, requestVars, tracer, alive, ender, diskVars, unreadable, removals,
                   written, timedOut, contested, overlapped, unsaved>>

LetsGo(r) ==
    /\ engine[r] = "saved" /\ ~call[r].kill /\ alive[call[r].pid]
    /\ EngineGoes(r, "ok")
    /\ tracer' = Released(r)
    /\ UNCHANGED <<sudo, requestVars, alive, ender, diskVars, unreadable, removals, historyVars>>

Dies(p) ==
    /\ alive[p]
    /\ alive' = [alive EXCEPT ![p] = FALSE]
    /\ UNCHANGED <<sudo, requestVars, engine, tracer, ender, diskVars, unreadable, removals,
                   historyVars>>

(* Somebody removes a folder with what is in it. *)
FolderRemoved(f) ==
    /\ f \in exists \ {Default} /\ removals < MaxRemovals
    /\ removals' = removals + 1
    /\ exists' = exists \ {f}
    /\ file' = [file EXCEPT ![f] = NoFile]
    /\ contested' = contested \cup {q \in Requests : Folder(q) = f /\ pc[q] # "idle"}
    /\ UNCHANGED <<sudo, requestVars, engineVars, registry, unreadable, written, timedOut, lost,
                   overlapped, unsaved>>

-----------------------------------------------------------------------------

Serves(r) ==
    \/ RequireKnown(r) \/ RestoreStarts(r) \/ Delete(r)
    \/ DumpCalled(r) \/ DumpRefused(r) \/ Dumpable(r) \/ DumpNotStarted(r)
    \/ Dumped(r) \/ EngineRefused(r) \/ Garbled(r)
    \/ TimesOut(r) \/ TimesOutUnderSudo(r) \/ Waited(r)
    \/ RememberLooks(r) \/ RememberLoads(r) \/ RememberSaves(r) \/ RememberFails(r)
    \/ HeaderRead(r) \/ HeaderUnread(r)

EngineSteps(r) ==
    \/ Seizes(r) \/ Probed(r) \/ Opens(r) \/ Saves(r) \/ EndsIt(r) \/ Reports(r)
    \/ LetsGo(r) \/ EngineFails(r)

Next ==
    \/ \E r \in Requests : Serves(r) \/ EngineSteps(r)
    \/ \E p \in Processes : Dies(p)
    \/ \E f \in Folders : FolderRemoved(f)

(* Threads of the server run, and timers expire; nothing is said of the     *)
(* engine, which may hang.                                                  *)
Spec == Init /\ [][Next]_vars /\ \A r \in Requests : WF_vars(Serves(r))

-----------------------------------------------------------------------------

(* Types; an engine is only there while a request waits for it, one that    *)
(* is told the panel gave up on it included, and only such an engine holds  *)
(* a process.                                                               *)
TypeOK ==
    /\ sudo \in BOOLEAN
    /\ call \in [Requests -> Calls]
    /\ pc \in [Requests -> Places]
    /\ answer \in [Requests -> {"none", "ok", "error"}]
    /\ loaded \in [Requests -> SUBSET Folders]
    /\ engine \in [Requests -> Engines]
    /\ tracer \in [Processes -> Requests \cup {Nobody}]
    /\ alive \in [Processes -> BOOLEAN]
    /\ file \in [Folders -> [by : Requests \cup {Nobody}, part : {"none", "some", "complete"}]]
    /\ exists \subseteq Folders /\ registry \subseteq Folders
    /\ unreadable \in 0 .. MaxUnreadable /\ removals \in 0 .. MaxRemovals
    /\ ender \in [Processes -> Requests \cup {Nobody}]
    /\ written \subseteq Folders
    /\ timedOut \cup lost \cup contested \cup overlapped \cup unsaved \subseteq Requests
    /\ \A r \in Requests : engine[r] # "none" <=> pc[r] \in {"gate", "dump", "waits"}
    /\ \A p \in Processes :
        tracer[p] # Nobody => engine[tracer[p]] \in {"probing", "seized", "opened", "saved"}

(* directories.py:5-7, "Restore and delete only accept folders from this    *)
(* list: the API never reaches into a folder it did not write to itself":   *)
(* whatever requests, failed dumps and timeouts came before, a request is   *)
(* let into the default folder or into one a dump of the panel succeeded in.*)
OnlyOwnFolders ==
    \A r \in Requests :
        (pc[r] = "allowed" \/ (call[r].kind # "dump" /\ answer[r] = "ok"))
        => Folder(r) \in written \cup {Default}

(* directories.py:3-5: once a dump is answered its folder is remembered, so *)
(* that its snapshot can be listed, restored and deleted, whatever dumps    *)
(* came after it.  Not so when two requests had the registry open at a time *)
(* (one of the folders is lost, or the folder the second found there), when *)
(* it could not be saved, or when one read of it failed (the next save      *)
(* drops every folder but one).                                             *)
RememberedUnlessRaced ==
    \A r \in Requests :
        (/\ call[r].kind = "dump" /\ pc[r] \in {"header", "answered"}
         /\ Folder(r) \in written /\ r \notin timedOut /\ answer[r] # "error"
         /\ r \notin overlapped \cup unsaved
         /\ unreadable = 0)
        => Folder(r) \in registry \cup {Default}

(* What a dump is answered is true (engine.py:150-154: with kill the engine *)
(* ends the process once the snapshot is on disk, "A failed dump leaves the *)
(* process running"): success means that the snapshot is whole, the dump's  *)
(* own, and that the process is gone if asked; a process the dump ended has *)
(* its whole snapshot whatever was answered; and failure means that the     *)
(* dump did not end it, unless the panel timed out or what the engine had   *)
(* to say of it got lost.  None of it when another dump or a deletion used  *)
(* the same file.                                                           *)
AnswersAreTrue ==
    \A r \in Requests :
        LET ended == \E p \in Processes : ender[p] = r IN
        (call[r].kind = "dump" /\ pc[r] = "answered" /\ r \notin contested) =>
            /\ answer[r] = "ok" \/ ended => file[Folder(r)] = [by |-> r, part |-> "complete"]
            /\ answer[r] = "ok" /\ call[r].kill => ~alive[call[r].pid]
            /\ answer[r] = "error" /\ ended => r \in timedOut \cup lost

(* Every request is answered though engines may hang, because they are      *)
(* killed after the timeout; a panel that uses sudo cannot kill them, and   *)
(* then a thread waits for as long as its engine hangs.                     *)
EveryRequestAnswered ==
    \A r \in Requests :
        <>(pc[r] = "answered" \/ [](sudo /\ engine[r] \notin {"none", "ok", "failed"}))
=============================================================================
