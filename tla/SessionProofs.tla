---------------------------- MODULE SessionProofs ----------------------------
(***************************************************************************)
(* What holds of restore sessions for any number of request threads and of *)
(* sessions, whether or not engines are killed from elsewhere.             *)
(*                                                                         *)
(* The inductive invariant SessionInv has five parts: TypeOK; LockOK, the  *)
(* lock and what its holder may count on; BehindOK, which engines can be   *)
(* at work, and which have yet to be started; SignalledOK and StoppedOK,   *)
(* where the signals of a stop() that waits, or has answered, have got to. *)
(***************************************************************************)
EXTENDS Session, TLAPS

(* restore() looks and starts under the lock, and what it saw stays true. *)
LockOK ==
    /\ \A r \in Requests : pc[r] \in {"checking", "launching"} <=> lock = r
    /\ \A r \in Requests : pc[r] = "launching" => \A s \in Sessions : ~Running(s)

(* Only the engine of the current session can be at work. *)
BehindOK ==
    /\ \A s \in Sessions : Running(s) => s = current
    /\ \A s \in Sessions : engine[s] = "none" <=> s > started
    /\ \A s \in Sessions : engine[s] = "none" => program[s] = "none"

(* The signal has reached, or will reach, all of session s there is. *)
Signalled(s) ==
    /\ Running(s) /\ program[s] = "none" => pending[s].engine # "no"
    /\ Alive(s) /\ heeds[s] /\ s \notin swallowed => pending[s].program # "no"

SignalledOK ==
    /\ \A r \in Requests : pc[r] \in {"terminating", "waiting", "killing"} => of[r] # 0
    /\ \A r \in Requests : pc[r] \in {"waiting", "killing"} => Signalled(of[r])

StoppedOK ==
    \A s \in stopped : Signalled(s) /\ (Running(s) => pending[s].engine # "no")

SessionInv ==
    TypeOK /\ LockOK /\ BehindOK /\ SignalledOK /\ StoppedOK

------------------------------------------------------------------------------

(* A signal for the group (engine.py, _signal_group) leaves every session  *)
(* with a signal it can have.                                              *)
LEMMA SentType ==
    ASSUME TypeOK, NEW s \in Sessions, NEW number \in {"TERM", "KILL"}
    PROVE  Sent(s, number) \in [Sessions -> [engine  : {"no", "TERM", "KILL"},
                                           program : {"no", "TERM", "KILL"}]]
<1>1. pending[s] \in [engine : {"no", "TERM", "KILL"}, program : {"no", "TERM", "KILL"}]
  BY DEF TypeOK
<1>2. [[pending[s] EXCEPT !.engine = IF Running(s) /\ @ # "KILL" THEN number ELSE @]
          EXCEPT !.program = IF Alive(s) /\ @ # "KILL" THEN number ELSE @]
      \in [engine : {"no", "TERM", "KILL"}, program : {"no", "TERM", "KILL"}]
  BY <1>1
<1>3. QED
  BY <1>1, <1>2 DEF TypeOK, Sent

(* No handler, streaming thread or process takes the panel's session state *)
(* out of its types: above all, stop() (engine.py:320) only ever acts on a *)
(* session it has seen.                                                    *)
LEMMA TypeStep ==
    ASSUME TypeOK, LockOK, BehindOK, SignalledOK, [Next]_vars
    PROVE  TypeOK'
<1> USE SessionsAssumption, NobodyAssumption
    DEF Sessions, requestVars, processVars, streamVars, GoTo, Returns, Poll, Running,
        TypeOK, LockOK, BehindOK, SignalledOK, NoSignal, Sent, Alive
<1>1. CASE UNCHANGED vars
  BY <1>1 DEF vars
<1>2. ASSUME NEW r \in Requests, RestoreCalled(r)
     PROVE  TypeOK'
  BY <1>2 DEF RestoreCalled
<1>3. ASSUME NEW r \in Requests, StopCalled(r)
     PROVE  TypeOK'
  BY <1>3 DEF StopCalled
<1>4. ASSUME NEW r \in Requests, RestoreRefused(r)
     PROVE  TypeOK'
  BY <1>4 DEF RestoreRefused
<1>5. ASSUME NEW r \in Requests, NoneRunning(r)
     PROVE  TypeOK'
  BY <1>5 DEF NoneRunning
<1>6. ASSUME NEW r \in Requests, Popen(r)
     PROVE  TypeOK'
  BY <1>6 DEF Popen
<1>7. ASSUME NEW r \in Requests, PopenFails(r)
     PROVE  TypeOK'
  BY <1>7 DEF PopenFails
<1>8. ASSUME NEW r \in Requests, Examine(r)
     PROVE  TypeOK'
  <2>1. of[r] \in 0 .. started /\ of[r] \in 0 .. MaxSessions
    OBVIOUS
  <2>2. pc' \in [Requests -> {"idle", "checking", "launching", "examining", "terminating",
                              "waiting", "killing"}]
    BY <1>8 DEF Examine
  <2>3. of' \in [Requests -> 0 .. started]
    <3>1. of' = of \/ of' = [of EXCEPT ![r] = 0]
      BY <1>8 DEF Examine
    <3>2. QED
      BY <3>1
  <2>4. engine' \in [Sessions -> {"none", "running", "dead", "reaped"}]
    <3>1. engine' = engine \/ (of[r] # 0 /\ Poll(of[r]))
      BY <1>8, Zenon DEF Examine
    <3>2. of[r] # 0 => of[r] \in Sessions
      BY <2>1
    <3>3. CASE engine' = engine
      BY <3>3
    <3>4. CASE of[r] \in Sessions /\ Poll(of[r])
      BY <3>4
    <3>5. QED
      BY <3>1, <3>2, <3>3, <3>4
  <2>5. UNCHANGED <<lock, current, started, program, heeds, pending, swallowed,
                    streamVars, stopped>>
    BY <1>8 DEF Examine
  <2>6. QED
    BY <2>2, <2>3, <2>4, <2>5
<1>9. ASSUME NEW r \in Requests, Terminate(r)
     PROVE  TypeOK'
  <2>1. of[r] \in Sessions
    BY <1>9 DEF Terminate
  <2>2. pending' \in [Sessions -> [engine  : {"no", "TERM", "KILL"},
                                 program : {"no", "TERM", "KILL"}]]
    BY <1>9, <2>1, SentType DEF Terminate
  <2>3. QED
    BY <1>9, <2>2 DEF Terminate
<1>10. ASSUME NEW r \in Requests, NoGroup(r)
     PROVE  TypeOK'
  <2>1. CASE pc' = [pc EXCEPT ![r] = "waiting"] /\ of' = of
    BY <1>10, <2>1 DEF NoGroup
  <2>2. CASE pc' = [pc EXCEPT ![r] = "idle"] /\ of' = [of EXCEPT ![r] = 0]
    BY <1>10, <2>2 DEF NoGroup
  <2>3. QED
    BY <1>10, <2>1, <2>2 DEF NoGroup
<1>11. ASSUME NEW r \in Requests, Waited(r)
     PROVE  TypeOK'
  BY <1>11 DEF Waited
<1>12. ASSUME NEW r \in Requests, WaitTimesOut(r)
     PROVE  TypeOK'
  BY <1>12 DEF WaitTimesOut
<1>13. ASSUME NEW r \in Requests, Kill(r)
     PROVE  TypeOK'
  <2>1. of[r] \in Sessions /\ of[r] \in 1 .. started
    BY <1>13 DEF Kill
  <2>2. pending' \in [Sessions -> [engine  : {"no", "TERM", "KILL"},
                                 program : {"no", "TERM", "KILL"}]]
    BY <1>13, <2>1, SentType DEF Kill
  <2>3. stopped' \subseteq 1 .. started
    BY <1>13, <2>1 DEF Kill
  <2>4. /\ pc' = [pc EXCEPT ![r] = "idle"] /\ of' = [of EXCEPT ![r] = 0]
        /\ engine' = [engine EXCEPT ![of[r]] = IF @ = "dead" THEN "reaped" ELSE @]
        /\ UNCHANGED <<lock, current, started, program, heeds, swallowed, streamVars>>
    BY <1>13 DEF Kill
  <2>5. QED
    BY <2>1, <2>2, <2>3, <2>4
<1>14. CASE Describe
  BY <1>14 DEF Describe
<1>15. ASSUME NEW s \in Sessions, Streamed(s)
     PROVE  TypeOK'
  BY <1>15 DEF Streamed, Streaming
<1>16. ASSUME NEW s \in Sessions, Forks(s)
     PROVE  TypeOK'
  BY <1>16 DEF Forks, Processes
<1>17. ASSUME NEW s \in Sessions, Releases(s)
     PROVE  TypeOK'
  BY <1>17 DEF Releases, Processes
<1>18. ASSUME NEW s \in Sessions, GivesUp(s)
     PROVE  TypeOK'
  BY <1>18 DEF GivesUp, Processes
<1>19. ASSUME NEW s \in Sessions, ProgramEnds(s)
     PROVE  TypeOK'
  BY <1>19 DEF ProgramEnds, Processes
<1>20. ASSUME NEW s \in Sessions, Handles(s)
     PROVE  TypeOK'
  BY <1>20 DEF Handles, Processes
<1>21. ASSUME NEW s \in Sessions, EngineEnds(s)
     PROVE  TypeOK'
  BY <1>21 DEF EngineEnds, Processes
<1>22. ASSUME NEW s \in Sessions, EngineDies(s)
     PROVE  TypeOK'
  BY <1>22 DEF EngineDies, Processes
<1>23. ASSUME NEW s \in Sessions, ChildStops(s)
     PROVE  TypeOK'
  <2>1. s \in 1 .. started
    BY <1>23 DEF ChildStops
  <2>2. swallowed' \subseteq 1 .. started
    BY <1>23, <2>1 DEF ChildStops
  <2>3. /\ pending' = [pending EXCEPT ![s].program = "no"]
        /\ UNCHANGED <<requestVars, current, started, engine, program, heeds, streamVars, stopped>>
    BY <1>23 DEF ChildStops, Processes
  <2>4. pending' \in [Sessions -> [engine  : {"no", "TERM", "KILL"},
                                 program : {"no", "TERM", "KILL"}]]
    BY <2>1, <2>3
  <2>5. QED
    BY <2>2, <2>3, <2>4
<1>24. ASSUME NEW s \in Sessions, ProgramSignalled(s)
     PROVE  TypeOK'
  BY <1>24 DEF ProgramSignalled, Processes
<1>25. ASSUME NEW s \in Sessions, StreamBreaks(s)
     PROVE  TypeOK'
  BY <1>25 DEF StreamBreaks, Streaming
<1>26. QED
  BY <1>1, <1>2, <1>3, <1>4, <1>5, <1>6, <1>7, <1>8, <1>9, <1>10, <1>11, <1>12,
     <1>13, <1>14, <1>15, <1>16, <1>17, <1>18, <1>19, <1>20, <1>21, <1>22, <1>23, <1>24, <1>25 DEF Next, Answers

(* restore() (engine.py:277) keeps _session_lock from looking at the old   *)
(* session until the new engine is there: nobody else can start one.       *)
LEMMA LockStep ==
    ASSUME TypeOK, LockOK, BehindOK, [Next]_vars
    PROVE  LockOK'
<1> USE SessionsAssumption, NobodyAssumption
    DEF Sessions, requestVars, processVars, streamVars, GoTo, Returns, Poll, Running,
        TypeOK, LockOK, BehindOK
<1>1. CASE UNCHANGED vars
  BY <1>1 DEF vars
<1>2. ASSUME NEW r \in Requests, RestoreCalled(r)
     PROVE  LockOK'
  BY <1>2 DEF RestoreCalled
<1>3. ASSUME NEW r \in Requests, StopCalled(r)
     PROVE  LockOK'
  BY <1>3 DEF StopCalled
<1>4. ASSUME NEW r \in Requests, RestoreRefused(r)
     PROVE  LockOK'
  BY <1>4 DEF RestoreRefused
<1>5. ASSUME NEW r \in Requests, NoneRunning(r)
     PROVE  LockOK'
  BY <1>5 DEF NoneRunning
<1>6. ASSUME NEW r \in Requests, Popen(r)
     PROVE  LockOK'
  BY <1>6 DEF Popen
<1>7. ASSUME NEW r \in Requests, PopenFails(r)
     PROVE  LockOK'
  BY <1>7 DEF PopenFails
<1>8. ASSUME NEW r \in Requests, Examine(r)
     PROVE  LockOK'
  BY <1>8 DEF Examine
<1>9. ASSUME NEW r \in Requests, Terminate(r)
     PROVE  LockOK'
  BY <1>9 DEF Terminate
<1>10. ASSUME NEW r \in Requests, NoGroup(r)
     PROVE  LockOK'
  BY <1>10 DEF NoGroup
<1>11. ASSUME NEW r \in Requests, Waited(r)
     PROVE  LockOK'
  BY <1>11 DEF Waited
<1>12. ASSUME NEW r \in Requests, WaitTimesOut(r)
     PROVE  LockOK'
  BY <1>12 DEF WaitTimesOut
<1>13. ASSUME NEW r \in Requests, Kill(r)
     PROVE  LockOK'
  BY <1>13 DEF Kill
<1>14. CASE Describe
  BY <1>14 DEF Describe
<1>15. ASSUME NEW s \in Sessions, Streamed(s)
     PROVE  LockOK'
  BY <1>15 DEF Streamed, Streaming
<1>16. ASSUME NEW s \in Sessions, Forks(s)
     PROVE  LockOK'
  BY <1>16 DEF Forks, Processes
<1>17. ASSUME NEW s \in Sessions, Releases(s)
     PROVE  LockOK'
  BY <1>17 DEF Releases, Processes
<1>18. ASSUME NEW s \in Sessions, GivesUp(s)
     PROVE  LockOK'
  BY <1>18 DEF GivesUp, Processes
<1>19. ASSUME NEW s \in Sessions, ProgramEnds(s)
     PROVE  LockOK'
  BY <1>19 DEF ProgramEnds, Processes
<1>20. ASSUME NEW s \in Sessions, Handles(s)
     PROVE  LockOK'
  BY <1>20 DEF Handles, Processes
<1>21. ASSUME NEW s \in Sessions, EngineEnds(s)
     PROVE  LockOK'
  BY <1>21 DEF EngineEnds, Processes
<1>22. ASSUME NEW s \in Sessions, EngineDies(s)
     PROVE  LockOK'
  BY <1>22 DEF EngineDies, Processes
<1>23. ASSUME NEW s \in Sessions, ChildStops(s)
     PROVE  LockOK'
  BY <1>23 DEF ChildStops, Processes
<1>24. ASSUME NEW s \in Sessions, ProgramSignalled(s)
     PROVE  LockOK'
  BY <1>24 DEF ProgramSignalled, Processes
<1>25. ASSUME NEW s \in Sessions, StreamBreaks(s)
     PROVE  LockOK'
  BY <1>25 DEF StreamBreaks, Streaming
<1>26. QED
  BY <1>1, <1>2, <1>3, <1>4, <1>5, <1>6, <1>7, <1>8, <1>9, <1>10, <1>11, <1>12,
     <1>13, <1>14, <1>15, <1>16, <1>17, <1>18, <1>19, <1>20, <1>21, <1>22, <1>23, <1>24, <1>25 DEF Next, Answers

(* Popen (engine.py:288) is the only way to a running engine, and what it  *)
(* starts is the current session from the moment it runs.                  *)
LEMMA BehindStep ==
    ASSUME TypeOK, LockOK, BehindOK, SignalledOK, [Next]_vars
    PROVE  BehindOK'
<1> USE SessionsAssumption, NobodyAssumption
    DEF Sessions, requestVars, processVars, streamVars, GoTo, Returns, Poll, Running,
        TypeOK, LockOK, BehindOK, SignalledOK
<1>1. CASE UNCHANGED vars
  BY <1>1 DEF vars
<1>2. ASSUME NEW r \in Requests, RestoreCalled(r)
     PROVE  BehindOK'
  BY <1>2 DEF RestoreCalled
<1>3. ASSUME NEW r \in Requests, StopCalled(r)
     PROVE  BehindOK'
  BY <1>3 DEF StopCalled
<1>4. ASSUME NEW r \in Requests, RestoreRefused(r)
     PROVE  BehindOK'
  BY <1>4 DEF RestoreRefused
<1>5. ASSUME NEW r \in Requests, NoneRunning(r)
     PROVE  BehindOK'
  BY <1>5 DEF NoneRunning
<1>6. ASSUME NEW r \in Requests, Popen(r)
     PROVE  BehindOK'
  BY <1>6 DEF Popen
<1>7. ASSUME NEW r \in Requests, PopenFails(r)
     PROVE  BehindOK'
  BY <1>7 DEF PopenFails
<1>8. ASSUME NEW r \in Requests, Examine(r)
     PROVE  BehindOK'
  BY <1>8 DEF Examine
<1>9. ASSUME NEW r \in Requests, Terminate(r)
     PROVE  BehindOK'
  BY <1>9 DEF Terminate
<1>10. ASSUME NEW r \in Requests, NoGroup(r)
     PROVE  BehindOK'
  BY <1>10 DEF NoGroup
<1>11. ASSUME NEW r \in Requests, Waited(r)
     PROVE  BehindOK'
  BY <1>11 DEF Waited
<1>12. ASSUME NEW r \in Requests, WaitTimesOut(r)
     PROVE  BehindOK'
  BY <1>12 DEF WaitTimesOut
<1>13. ASSUME NEW r \in Requests, Kill(r)
     PROVE  BehindOK'
  BY <1>13 DEF Kill
<1>14. CASE Describe
  BY <1>14 DEF Describe
<1>15. ASSUME NEW s \in Sessions, Streamed(s)
     PROVE  BehindOK'
  BY <1>15 DEF Streamed, Streaming
<1>16. ASSUME NEW s \in Sessions, Forks(s)
     PROVE  BehindOK'
  BY <1>16 DEF Forks, Processes
<1>17. ASSUME NEW s \in Sessions, Releases(s)
     PROVE  BehindOK'
  BY <1>17 DEF Releases, Processes
<1>18. ASSUME NEW s \in Sessions, GivesUp(s)
     PROVE  BehindOK'
  BY <1>18 DEF GivesUp, Processes
<1>19. ASSUME NEW s \in Sessions, ProgramEnds(s)
     PROVE  BehindOK'
  BY <1>19 DEF ProgramEnds, Processes
<1>20. ASSUME NEW s \in Sessions, Handles(s)
     PROVE  BehindOK'
  BY <1>20 DEF Handles, Processes
<1>21. ASSUME NEW s \in Sessions, EngineEnds(s)
     PROVE  BehindOK'
  BY <1>21 DEF EngineEnds, Processes
<1>22. ASSUME NEW s \in Sessions, EngineDies(s)
     PROVE  BehindOK'
  BY <1>22 DEF EngineDies, Processes
<1>23. ASSUME NEW s \in Sessions, ChildStops(s)
     PROVE  BehindOK'
  BY <1>23 DEF ChildStops, Processes
<1>24. ASSUME NEW s \in Sessions, ProgramSignalled(s)
     PROVE  BehindOK'
  BY <1>24 DEF ProgramSignalled, Processes
<1>25. ASSUME NEW s \in Sessions, StreamBreaks(s)
     PROVE  BehindOK'
  BY <1>25 DEF StreamBreaks, Streaming
<1>26. QED
  BY <1>1, <1>2, <1>3, <1>4, <1>5, <1>6, <1>7, <1>8, <1>9, <1>10, <1>11, <1>12,
     <1>13, <1>14, <1>15, <1>16, <1>17, <1>18, <1>19, <1>20, <1>21, <1>22, <1>23, <1>24, <1>25 DEF Next, Answers

(* A stop() that waits (engine.py:331) has its signal where it should be:  *)
(* fork() does not get past it, and neither a release nor a crash of the   *)
(* engine loses the program's.                                             *)
LEMMA SignalledStep ==
    ASSUME TypeOK, BehindOK, SignalledOK, [Next]_vars
    PROVE  SignalledOK'
<1> USE SessionsAssumption, NobodyAssumption
    DEF Sessions, requestVars, processVars, streamVars, GoTo, Returns, Poll, Running,
        TypeOK, BehindOK, SignalledOK, Signalled, Alive, NoSignal, Sent, GroupEmpty
<1>1. CASE UNCHANGED vars
  BY <1>1 DEF vars
<1>2. ASSUME NEW r \in Requests, RestoreCalled(r)
     PROVE  SignalledOK'
  BY <1>2 DEF RestoreCalled
<1>3. ASSUME NEW r \in Requests, StopCalled(r)
     PROVE  SignalledOK'
  BY <1>3 DEF StopCalled
<1>4. ASSUME NEW r \in Requests, RestoreRefused(r)
     PROVE  SignalledOK'
  BY <1>4 DEF RestoreRefused
<1>5. ASSUME NEW r \in Requests, NoneRunning(r)
     PROVE  SignalledOK'
  BY <1>5 DEF NoneRunning
<1>6. ASSUME NEW r \in Requests, Popen(r)
     PROVE  SignalledOK'
  BY <1>6 DEF Popen
<1>7. ASSUME NEW r \in Requests, PopenFails(r)
     PROVE  SignalledOK'
  BY <1>7 DEF PopenFails
<1>8. ASSUME NEW r \in Requests, Examine(r)
     PROVE  SignalledOK'
  <2>1. /\ UNCHANGED <<program, heeds, pending, swallowed>>
        /\ \A s \in Sessions : Running(s)' => Running(s)
    BY <1>8 DEF Examine
  <2>2. CASE pc' = [pc EXCEPT ![r] = "terminating"] /\ of' = of /\ of[r] # 0
    BY <2>1, <2>2
  <2>3. CASE pc' = [pc EXCEPT ![r] = "idle"] /\ of' = [of EXCEPT ![r] = 0]
    BY <2>1, <2>3
  <2>4. QED
    BY <1>8, <2>2, <2>3 DEF Examine
<1>9. ASSUME NEW r \in Requests, Terminate(r)
     PROVE  SignalledOK'
  BY <1>9 DEF Terminate
<1>10. ASSUME NEW r \in Requests, NoGroup(r)
     PROVE  SignalledOK'
  <2>1. CASE pc[r] = "terminating" /\ pc' = [pc EXCEPT ![r] = "waiting"] /\ of' = of
    BY <1>10, <2>1 DEF NoGroup
  <2>2. CASE pc' = [pc EXCEPT ![r] = "idle"] /\ of' = [of EXCEPT ![r] = 0]
    BY <1>10, <2>2 DEF NoGroup
  <2>3. QED
    BY <1>10, <2>1, <2>2 DEF NoGroup
<1>11. ASSUME NEW r \in Requests, Waited(r)
     PROVE  SignalledOK'
  BY <1>11 DEF Waited
<1>12. ASSUME NEW r \in Requests, WaitTimesOut(r)
     PROVE  SignalledOK'
  BY <1>12 DEF WaitTimesOut
<1>13. ASSUME NEW r \in Requests, Kill(r)
     PROVE  SignalledOK'
  BY <1>13 DEF Kill
<1>14. CASE Describe
  BY <1>14 DEF Describe
<1>15. ASSUME NEW s \in Sessions, Streamed(s)
     PROVE  SignalledOK'
  BY <1>15 DEF Streamed, Streaming
<1>16. ASSUME NEW s \in Sessions, Forks(s)
     PROVE  SignalledOK'
  BY <1>16 DEF Forks, Processes
<1>17. ASSUME NEW s \in Sessions, Releases(s)
     PROVE  SignalledOK'
  BY <1>17 DEF Releases, Processes
<1>18. ASSUME NEW s \in Sessions, GivesUp(s)
     PROVE  SignalledOK'
  BY <1>18 DEF GivesUp, Processes
<1>19. ASSUME NEW s \in Sessions, ProgramEnds(s)
     PROVE  SignalledOK'
  BY <1>19 DEF ProgramEnds, Processes
<1>20. ASSUME NEW s \in Sessions, Handles(s)
     PROVE  SignalledOK'
  BY <1>20 DEF Handles, Processes
<1>21. ASSUME NEW s \in Sessions, EngineEnds(s)
     PROVE  SignalledOK'
  BY <1>21 DEF EngineEnds, Processes
<1>22. ASSUME NEW s \in Sessions, EngineDies(s)
     PROVE  SignalledOK'
  BY <1>22 DEF EngineDies, Processes
<1>23. ASSUME NEW s \in Sessions, ChildStops(s)
     PROVE  SignalledOK'
  BY <1>23 DEF ChildStops, Processes
<1>24. ASSUME NEW s \in Sessions, ProgramSignalled(s)
     PROVE  SignalledOK'
  BY <1>24 DEF ProgramSignalled, Processes
<1>25. ASSUME NEW s \in Sessions, StreamBreaks(s)
     PROVE  SignalledOK'
  BY <1>25 DEF StreamBreaks, Streaming
<1>26. QED
  BY <1>1, <1>2, <1>3, <1>4, <1>5, <1>6, <1>7, <1>8, <1>9, <1>10, <1>11, <1>12,
     <1>13, <1>14, <1>15, <1>16, <1>17, <1>18, <1>19, <1>20, <1>21, <1>22, <1>23, <1>24, <1>25 DEF Next, Answers

(* What stop() has answered for (engine.py:332-340) stays signalled.       *)
LEMMA StoppedStep ==
    ASSUME TypeOK, BehindOK, SignalledOK, StoppedOK, [Next]_vars
    PROVE  StoppedOK'
<1> USE SessionsAssumption, NobodyAssumption
    DEF Sessions, requestVars, processVars, streamVars, GoTo, Returns, Poll, Running,
        TypeOK, BehindOK, SignalledOK, Signalled, Alive, NoSignal, Sent, GroupEmpty, StoppedOK
<1>1. CASE UNCHANGED vars
  BY <1>1 DEF vars
<1>2. ASSUME NEW r \in Requests, RestoreCalled(r)
     PROVE  StoppedOK'
  BY <1>2 DEF RestoreCalled
<1>3. ASSUME NEW r \in Requests, StopCalled(r)
     PROVE  StoppedOK'
  BY <1>3 DEF StopCalled
<1>4. ASSUME NEW r \in Requests, RestoreRefused(r)
     PROVE  StoppedOK'
  BY <1>4 DEF RestoreRefused
<1>5. ASSUME NEW r \in Requests, NoneRunning(r)
     PROVE  StoppedOK'
  BY <1>5 DEF NoneRunning
<1>6. ASSUME NEW r \in Requests, Popen(r)
     PROVE  StoppedOK'
  BY <1>6 DEF Popen
<1>7. ASSUME NEW r \in Requests, PopenFails(r)
     PROVE  StoppedOK'
  BY <1>7 DEF PopenFails
<1>8. ASSUME NEW r \in Requests, Examine(r)
     PROVE  StoppedOK'
  BY <1>8 DEF Examine
<1>9. ASSUME NEW r \in Requests, Terminate(r)
     PROVE  StoppedOK'
  BY <1>9 DEF Terminate
<1>10. ASSUME NEW r \in Requests, NoGroup(r)
     PROVE  StoppedOK'
  BY <1>10 DEF NoGroup
<1>11. ASSUME NEW r \in Requests, Waited(r)
     PROVE  StoppedOK'
  BY <1>11 DEF Waited
<1>12. ASSUME NEW r \in Requests, WaitTimesOut(r)
     PROVE  StoppedOK'
  BY <1>12 DEF WaitTimesOut
<1>13. ASSUME NEW r \in Requests, Kill(r)
     PROVE  StoppedOK'
  BY <1>13 DEF Kill
<1>14. CASE Describe
  BY <1>14 DEF Describe
<1>15. ASSUME NEW s \in Sessions, Streamed(s)
     PROVE  StoppedOK'
  BY <1>15 DEF Streamed, Streaming
<1>16. ASSUME NEW s \in Sessions, Forks(s)
     PROVE  StoppedOK'
  BY <1>16 DEF Forks, Processes
<1>17. ASSUME NEW s \in Sessions, Releases(s)
     PROVE  StoppedOK'
  BY <1>17 DEF Releases, Processes
<1>18. ASSUME NEW s \in Sessions, GivesUp(s)
     PROVE  StoppedOK'
  BY <1>18 DEF GivesUp, Processes
<1>19. ASSUME NEW s \in Sessions, ProgramEnds(s)
     PROVE  StoppedOK'
  BY <1>19 DEF ProgramEnds, Processes
<1>20. ASSUME NEW s \in Sessions, Handles(s)
     PROVE  StoppedOK'
  BY <1>20 DEF Handles, Processes
<1>21. ASSUME NEW s \in Sessions, EngineEnds(s)
     PROVE  StoppedOK'
  BY <1>21 DEF EngineEnds, Processes
<1>22. ASSUME NEW s \in Sessions, EngineDies(s)
     PROVE  StoppedOK'
  BY <1>22 DEF EngineDies, Processes
<1>23. ASSUME NEW s \in Sessions, ChildStops(s)
     PROVE  StoppedOK'
  BY <1>23 DEF ChildStops, Processes
<1>24. ASSUME NEW s \in Sessions, ProgramSignalled(s)
     PROVE  StoppedOK'
  BY <1>24 DEF ProgramSignalled, Processes
<1>25. ASSUME NEW s \in Sessions, StreamBreaks(s)
     PROVE  StoppedOK'
  BY <1>25 DEF StreamBreaks, Streaming
<1>26. QED
  BY <1>1, <1>2, <1>3, <1>4, <1>5, <1>6, <1>7, <1>8, <1>9, <1>10, <1>11, <1>12,
     <1>13, <1>14, <1>15, <1>16, <1>17, <1>18, <1>19, <1>20, <1>21, <1>22, <1>23, <1>24, <1>25 DEF Next, Answers

-----------------------------------------------------------------------------

(* The panel comes up without a session.                                   *)
LEMMA SessionInit == Init => SessionInv
BY SessionsAssumption, NobodyAssumption
   DEF Init, SessionInv, TypeOK, LockOK, BehindOK, SignalledOK, StoppedOK,
       Sessions, NoSignal, Running

(* All of it together, for every step of a thread or a process.            *)
LEMMA SessionStep == SessionInv /\ [Next]_vars => SessionInv'
BY TypeStep, LockStep, BehindStep, SignalledStep, StoppedStep DEF SessionInv

(* engine.py keeps SessionInv.                                             *)
THEOREM SessionInvariant == Spec => []SessionInv
BY SessionInit, SessionStep, PTL DEF Spec

(* _session, the lock and what is known of the processes have their types, *)
(* and a request never refers to a session that was not started.           *)
THEOREM SessionTypes == Spec => []TypeOK
<1>1. SessionInv => TypeOK
  BY DEF SessionInv
<1>2. QED
  BY <1>1, SessionInvariant, PTL

(* "refusing to run two of them at once" (engine.py:265), for any number   *)
(* of requests: a running engine is the current session's.                 *)
THEOREM OneEngineAtATime == Spec => []OneEngine
<1>1. SessionInv => OneEngine
  BY DEF SessionInv, BehindOK, OneEngine
<1>2. QED
  BY <1>1, SessionInvariant, PTL

(* stop() (engine.py:320-340) answers only with a signal on its way to     *)
(* everything of the session that is left and would heed it, whatever the  *)
(* engine was doing: the part of StopEnds that needs no fairness.          *)
THEOREM StopsAreDelivered == Spec => []StopIsDelivered
<1>1. SessionInv => StopIsDelivered
  BY DEF SessionInv, StoppedOK, Signalled, StopIsDelivered
<1>2. QED
  BY <1>1, SessionInvariant, PTL

=============================================================================
