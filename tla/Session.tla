------------------------------ MODULE Session -------------------------------
(***************************************************************************)
(* Restore sessions of the panel: restore(), stop() and session() of       *)
(* engine.py, called by request threads of the API, with one streaming     *)
(* thread per session.  A session is an engine process and the program it  *)
(* brings back, which share one process group and one output pipe.         *)
(***************************************************************************)
EXTENDS Integers

CONSTANTS
    Requests,     \* threads that serve API requests, one after the other
    MaxSessions,  \* bound: how many engines are ever started
    Crashes,      \* whether an engine may be killed from elsewhere
    Undecodable,  \* bound: sessions whose output may hold bytes that are not text
    Nobody        \* holds no lock

Sessions == 1 .. MaxSessions

ASSUME SessionsAssumption == MaxSessions \in Nat \ {0} /\ Crashes \in BOOLEAN
ASSUME OutputAssumption   == Undecodable \subseteq Sessions
ASSUME NobodyAssumption   == Nobody \notin Requests

VARIABLES
    lock,      \* _session_lock
    current,   \* _session, 0 for None
    started,   \* how many sessions there have been
    pc,        \* where each request stands
    of,        \* the session a stop has looked up
    engine,    \* none, running, dead (not waited for yet), reaped
    program,   \* none, building (stopped, traced), running, dead
    heeds,     \* FALSE once the program has a handler for SIGTERM
    pending,   \* signals sent to the two and not yet delivered
    finished,  \* sessions whose streaming thread noted returncode and finished_at
    broken,    \* sessions whose streaming thread died on their output
    stopped,   \* history: sessions some stop() has answered for
    swallowed  \* history: sessions whose child lost a signal to its tracer

NoSignal == [engine |-> "no", program |-> "no"]

requestVars == <<lock, pc, of>>
processVars == <<engine, program, heeds, pending, swallowed>>
streamVars  == <<finished, broken>>
vars == <<requestVars, current, started, processVars, streamVars, stopped>>

Init ==
    /\ lock = Nobody /\ current = 0 /\ started = 0
    /\ pc = [r \in Requests |-> "idle"]
    /\ of = [r \in Requests |-> 0]
    /\ engine   = [s \in Sessions |-> "none"]
    /\ program  = [s \in Sessions |-> "none"]
    /\ heeds    = [s \in Sessions |-> TRUE]
    /\ pending  = [s \in Sessions |-> NoSignal]
    /\ finished = {} /\ broken = {} /\ stopped = {} /\ swallowed = {}

GoTo(r, place) == pc' = [pc EXCEPT ![r] = place] /\ UNCHANGED of

Returns(r) == pc' = [pc EXCEPT ![r] = "idle"] /\ of' = [of EXCEPT ![r] = 0]

(* Popen.poll: a process that ended is waited for, whoever asks. *)
Poll(s) == engine' = [engine EXCEPT ![s] = IF @ = "dead" THEN "reaped" ELSE @]

Running(s) == engine[s] = "running"

-----------------------------------------------------------------------------

(***************************************************************************)
(* restore(): looking at the old session and starting the new one happen   *)
(* under the lock.                                                         *)
(***************************************************************************)
Mut_RestoreCalled(r) ==
    /\ pc[r] = "idle"
    /\ GoTo(r, "checking")
    /\ UNCHANGED <<lock, current, started, processVars, streamVars, stopped>>

RestoreCalled(r) ==
    /\ pc[r] = "idle"
    /\ lock = Nobody
    /\ lock' = r
    /\ GoTo(r, "checking")
    /\ UNCHANGED <<current, started, processVars, streamVars, stopped>>

RestoreRefused(r) ==
    /\ pc[r] = "checking"
    /\ current # 0 /\ Running(current)
    /\ Returns(r)
    /\ lock' = Nobody
    /\ UNCHANGED <<current, started, processVars, streamVars, stopped>>

NoneRunning(r) ==
    /\ pc[r] = "checking"
    /\ IF current = 0 THEN UNCHANGED engine ELSE ~Running(current) /\ Poll(current)
    /\ GoTo(r, "launching")
    /\ UNCHANGED <<lock, current, started, program, heeds, pending, swallowed,
                   streamVars, stopped>>

Popen(r) ==
    /\ pc[r] = "launching"
    /\ started < MaxSessions
    /\ started' = started + 1
    /\ current' = started'
    /\ engine'   = [engine EXCEPT ![started'] = "running"]
    /\ lock' = Nobody
    /\ Returns(r)
    /\ UNCHANGED <<program, heeds, pending, swallowed, streamVars, stopped>>

Mut_PopenFails(r) ==
    /\ pc[r] = "launching"
    /\ lock' = Nobody
    /\ current' = started + 1
    /\ Returns(r)
    /\ UNCHANGED <<started, processVars, streamVars, stopped>>

PopenFails(r) ==
    /\ pc[r] = "launching"
    /\ lock' = Nobody
    /\ Returns(r)
    /\ UNCHANGED <<current, started, processVars, streamVars, stopped>>

-----------------------------------------------------------------------------

(***************************************************************************)
(* stop(): only the lookup is under the lock.                              *)
(***************************************************************************)
StopCalled(r) ==
    /\ pc[r] = "idle"
    /\ lock = Nobody
    /\ of' = [of EXCEPT ![r] = current]
    /\ pc' = [pc EXCEPT ![r] = "examining"]
    /\ UNCHANGED <<lock, current, started, processVars, streamVars, stopped>>

Examine(r) ==
    /\ pc[r] = "examining"
    /\ IF of[r] # 0 /\ Running(of[r])
       THEN GoTo(r, "terminating") /\ UNCHANGED engine
       ELSE /\ Returns(r)
            /\ IF of[r] = 0 THEN UNCHANGED engine ELSE Poll(of[r])
    /\ UNCHANGED <<lock, current, started, program, heeds, pending, swallowed,
                   streamVars, stopped>>

(* A group lasts as long as one of its processes, an unreaped one included. *)
GroupEmpty(s) == engine[s] = "reaped" /\ program[s] \notin {"building", "running"}

Alive(s) == program[s] \in {"building", "running"}

(* A signal for the group reaches all that is alive in it; SIGKILL prevails. *)
Mut_Sent(s, number) ==
    [pending EXCEPT ![s].engine = IF Running(s) /\ @ # "KILL" THEN number ELSE @]

Sent(s, number) ==
    [pending EXCEPT ![s].engine  = IF Running(s) /\ @ # "KILL" THEN number ELSE @,
                    ![s].program = IF Alive(s)   /\ @ # "KILL" THEN number ELSE @]

Terminate(r) ==
    /\ pc[r] = "terminating"
    /\ ~GroupEmpty(of[r])
    /\ pending' = Sent(of[r], "TERM")
    /\ GoTo(r, "waiting")
    /\ UNCHANGED <<lock, current, started, engine, program, heeds, swallowed,
                   streamVars, stopped>>

(* Without a group killpg raises, while kill(1) behind sudo fails unseen. *)
NoGroup(r) ==
    /\ pc[r] \in {"terminating", "killing"}
    /\ GroupEmpty(of[r])
    /\ \/ pc[r] = "terminating" /\ GoTo(r, "waiting")
       \/ Returns(r)
    /\ UNCHANGED <<lock, current, started, processVars, streamVars, stopped>>

(* process.wait(timeout=5) waits for the engine, not for its program. *)
Waited(r) ==
    /\ pc[r] = "waiting"
    /\ ~Running(of[r])
    /\ Poll(of[r])
    /\ stopped' = stopped \cup {of[r]}
    /\ Returns(r)
    /\ UNCHANGED <<lock, current, started, program, heeds, pending, swallowed, streamVars>>

WaitTimesOut(r) ==
    /\ pc[r] = "waiting"
    /\ Running(of[r])
    /\ GoTo(r, "killing")
    /\ UNCHANGED <<lock, current, started, processVars, streamVars, stopped>>

Kill(r) ==
    /\ pc[r] = "killing"
    /\ ~GroupEmpty(of[r])
    /\ pending' = Sent(of[r], "KILL")
    /\ Poll(of[r])
    /\ stopped' = stopped \cup {of[r]}
    /\ Returns(r)
    /\ UNCHANGED <<lock, current, started, program, heeds, swallowed, streamVars>>

(* session(): describe() polls as well. *)
Describe ==
    /\ lock = Nobody /\ current # 0 /\ engine[current] = "dead"
    /\ Poll(current)
    /\ UNCHANGED <<requestVars, current, started, program, heeds, pending, swallowed,
                   streamVars, stopped>>

-----------------------------------------------------------------------------

(***************************************************************************)
(* The streaming thread reads until the pipe has no writer left, waits for *)
(* the engine and notes how the session ended.  The engine writes to the   *)
(* pipe as long as it runs, the program until it ends or closes its output.*)
(***************************************************************************)
Streaming(s) == s \in (1 .. started) \ (finished \cup broken)

Mut_Streamed(s) ==
    /\ Streaming(s)
    /\ engine[s] = "dead"
    /\ Poll(s)
    /\ finished' = finished \cup {s}
    /\ UNCHANGED <<requestVars, current, started, program, heeds, pending, swallowed,
                   broken, stopped>>

Streamed(s) ==
    /\ Streaming(s)
    /\ ~Running(s)
    /\ Poll(s)
    /\ finished' = finished \cup {s}
    /\ UNCHANGED <<requestVars, current, started, program, heeds, pending, swallowed,
                   broken, stopped>>

(* The pipe is read as text: bytes that do not decode end the thread.       *)
StreamBreaks(s) ==
    /\ s \in Undecodable /\ Streaming(s)
    /\ broken' = broken \cup {s}
    /\ UNCHANGED <<requestVars, current, started, processVars, finished, stopped>>

-----------------------------------------------------------------------------

(***************************************************************************)
(* The engine and its program; Restore has the engine's side in detail.    *)
(***************************************************************************)
Processes == UNCHANGED <<requestVars, current, started, streamVars, stopped>>

(* fork() with a signal pending starts over and delivers that first. *)
Forks(s) ==
    /\ Running(s) /\ program[s] = "none" /\ pending[s].engine = "no"
    /\ program' = [program EXCEPT ![s] = "building"]
    /\ UNCHANGED <<engine, heeds, pending, swallowed>> /\ Processes

Releases(s) ==
    /\ Running(s) /\ program[s] = "building"
    /\ program' = [program EXCEPT ![s] = "running"]
    /\ UNCHANGED <<engine, heeds, pending, swallowed>> /\ Processes

(* The restore fails and takes its child along. *)
GivesUp(s) ==
    /\ Running(s) /\ program[s] \in {"none", "building"}
    /\ engine'  = [engine EXCEPT ![s] = "dead"]
    /\ program' = [program EXCEPT ![s] = IF @ = "none" THEN "none" ELSE "dead"]
    /\ pending' = [pending EXCEPT ![s] = NoSignal]
    /\ UNCHANGED <<heeds, swallowed>> /\ Processes

ProgramEnds(s) ==
    /\ program[s] = "running"
    /\ program' = [program EXCEPT ![s] = "dead"]
    /\ pending' = [pending EXCEPT ![s].program = "no"]
    /\ UNCHANGED <<engine, heeds, swallowed>> /\ Processes

(* A fresh program dies of SIGTERM, until it asks for something else. *)
Handles(s) ==
    /\ program[s] = "running" /\ heeds[s] /\ pending[s].program = "no"
    /\ heeds' = [heeds EXCEPT ![s] = FALSE]
    /\ UNCHANGED <<engine, program, pending, swallowed>> /\ Processes

EngineEnds(s) ==
    /\ Running(s) /\ program[s] = "dead"
    /\ engine' = [engine EXCEPT ![s] = "dead"]
    /\ pending' = [pending EXCEPT ![s].engine = "no"]
    /\ UNCHANGED <<program, heeds, swallowed>> /\ Processes

(* An engine that dies lets go of a child it was still building. *)
EngineDies(s) ==
    /\ Running(s)
    /\ pending[s].engine # "no" \/ Crashes
    /\ engine'  = [engine EXCEPT ![s] = "dead"]
    /\ program' = [program EXCEPT ![s] = IF @ = "building" THEN "running" ELSE @]
    /\ pending' = [pending EXCEPT ![s].engine = "no"]
    /\ UNCHANGED <<heeds, swallowed>> /\ Processes

(* SIGTERM stops a traced child, and inject_syscall never passes it on. *)
ChildStops(s) ==
    /\ program[s] = "building" /\ pending[s].program = "TERM"
    /\ pending' = [pending EXCEPT ![s].program = "no"]
    /\ swallowed' = swallowed \cup {s}
    /\ UNCHANGED <<engine, program, heeds>> /\ Processes

ProgramSignalled(s) ==
    /\ pending[s].program # "no"
    /\ program[s] = "running" \/ (program[s] = "building" /\ pending[s].program = "KILL")
    /\ pending' = [pending EXCEPT ![s].program = "no"]
    /\ program' = IF pending[s].program = "KILL" \/ heeds[s]
                  THEN [program EXCEPT ![s] = "dead"] ELSE program
    /\ UNCHANGED <<engine, heeds, swallowed>> /\ Processes

-----------------------------------------------------------------------------

Answers(r) ==
    \/ RestoreRefused(r) \/ NoneRunning(r) \/ Popen(r) \/ PopenFails(r)
    \/ Examine(r) \/ Terminate(r) \/ NoGroup(r) \/ Waited(r) \/ WaitTimesOut(r) \/ Kill(r)

Next ==
    \/ \E r \in Requests : RestoreCalled(r) \/ StopCalled(r) \/ Answers(r)
    \/ Describe
    \/ \E s \in Sessions :
         \/ Streamed(s) \/ StreamBreaks(s)
         \/ Forks(s) \/ Releases(s) \/ GivesUp(s) \/ ProgramEnds(s) \/ Handles(s)
         \/ EngineEnds(s) \/ EngineDies(s) \/ ChildStops(s) \/ ProgramSignalled(s)

Spec == Init /\ [][Next]_vars

(* Threads run, signals are delivered, an engine notices that its child is  *)
(* dead, and the pipe ends with the two that write to it.  That a program   *)
(* ends, or that anybody calls stop, is not assumed.                        *)
FairSpec ==
    /\ Spec
    /\ \A r \in Requests : WF_vars(Answers(r))
    /\ \A s \in Sessions :
         /\ WF_vars(Streamed(s) /\ ~Alive(s))
         /\ WF_vars(EngineEnds(s))
         /\ WF_vars(EngineDies(s) /\ pending[s].engine # "no")
         /\ WF_vars(ProgramSignalled(s))

-----------------------------------------------------------------------------

TypeOK ==
    /\ lock \in Requests \cup {Nobody}
    /\ started \in 0 .. MaxSessions
    /\ current \in 0 .. started
    /\ pc \in [Requests -> {"idle", "checking", "launching", "examining", "terminating",
                            "waiting", "killing"}]
    /\ of \in [Requests -> 0 .. started]
    /\ engine \in [Sessions -> {"none", "running", "dead", "reaped"}]
    /\ program \in [Sessions -> {"none", "building", "running", "dead"}]
    /\ heeds \in [Sessions -> BOOLEAN]
    /\ pending \in [Sessions -> [engine  : {"no", "TERM", "KILL"},
                                 program : {"no", "TERM", "KILL"}]]
    /\ {finished, broken, stopped, swallowed} \subseteq SUBSET (1 .. started)

(***************************************************************************)
(* "refusing to run two of them at once" (engine.py:265): at any time one  *)
(* engine at most is at work, however many restores are asked for.         *)
(***************************************************************************)
OneEngine == \A s, t \in Sessions : Running(s) /\ Running(t) => s = t

(***************************************************************************)
(* "Only one session can run at a time" (Ksnap-backend/docs/README.md:143) *)
(* read for the processes behind the sessions: no two of them have one     *)
(* that lives on, signals on their way apart.                              *)
(***************************************************************************)
OnlyOneRuns ==
    \A s, t \in Sessions :
        (\A u \in {s, t} :
            Running(u) \/ (Alive(u) /\ pending[u].program = "no" /\ u \notin swallowed))
        => s = t

(***************************************************************************)
(* "Terminate the running restore session" (engine.py:321): when stop()    *)
(* has answered, the engine is gone or about to go, and so is the program, *)
(* unless it handles SIGTERM or lost the signal to the engine tracing it:  *)
(* no fork, release or crash in between lets one of the two slip through.  *)
(***************************************************************************)
StopIsDelivered ==
    \A s \in stopped :
        /\ Running(s) => pending[s].engine # "no"
        /\ Alive(s) /\ heeds[s] /\ s \notin swallowed => pending[s].program # "no"

(***************************************************************************)
(* A session whose processes are gone gets its returncode and its line in  *)
(* the console (engine.py:241-261), whoever waits for the engine first,    *)
(* unless its output was not text and took the streaming thread along.     *)
(***************************************************************************)
EndIsRecorded ==
    \A s \in Sessions :
        (engine[s] = "reaped" /\ ~Alive(s)) ~> s \in finished \cup broken

(***************************************************************************)
(* "Terminate the running restore session" (engine.py:321): after stop()   *)
(* has answered, the program goes, unless it handles SIGTERM or lost the   *)
(* signal to the engine that was tracing it.                               *)
(***************************************************************************)
StopEnds ==
    \A s \in Sessions :
        s \in stopped \ swallowed ~> ~Alive(s) \/ ~heeds[s]
=============================================================================
