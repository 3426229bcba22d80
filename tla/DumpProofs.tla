----------------------------- MODULE DumpProofs -----------------------------
(***************************************************************************)
(* What holds of Dump, and of RoundTrip, which adds the restores that read *)
(* its files, for any number of engines, targets, files, cells, readers.   *)
(*                                                                         *)
(* The inductive invariant IInv has six parts.  TypeOK; TracerOK, which    *)
(* ties each seized target to the one engine at work on it; CountersOK,    *)
(* how far an engine has come in each phase; FrozenOK, a target does not   *)
(* run while it is being saved; HeldOK, every cell an engine has read is   *)
(* the one the frozen target still has; and FileOK, what an engine has     *)
(* written has reached its file, and its disk once it may kill.  The shape *)
(* of unfinished files needs an invariant of its own, PInv: it holds for   *)
(* threaded targets too, whose cells are not frozen.  The second half has  *)
(* what the steps of a dump amount to and what a restore gets to read of   *)
(* them.                                                                   *)
(***************************************************************************)
EXTENDS RoundTrip, TLAPS

Active == Phases \ {"start", "done", "crashed"}
Saving == Active \ {"seized", "waiting", "detaching"}

TracerOK ==
    /\ \A t \in Targets : tracer[t] # NoEngine =>
         Target(tracer[t]) = t /\ pc[tracer[t]] \in Active
    /\ \A e \in Engines : pc[e] \in Active => tracer[Target(e)] = e
    /\ \A t \in Targets : stopped[t] => alive[t] /\ tracer[t] # NoEngine

Counters(e) ==
    /\ pc[e] \in {"start", "seized", "waiting"} => at[e] = 0
    /\ pc[e] = "collecting" => at[e] < Collected
    /\ pc[e] = "opening" => at[e] = Collected
    /\ pc[e] \in {"start", "seized", "waiting", "collecting", "opening"} => flushed[e] = 0
    /\ pc[e] \in {"start", "seized", "waiting", "collecting", "opening", "writing"} =>
         result[e] = "ERROR"
    /\ pc[e] \in {"flushing", "syncing"} => at[e] = Last
    /\ pc[e] = "syncing" \/ (pc[e] = "closing" /\ result[e] = "OK") =>
         at[e] = Last /\ flushed[e] = Last
    /\ pc[e] \in {"flushing", "syncing", "killing", "reaping"} => result[e] = "OK"
    /\ pc[e] \in {"writing", "flushing", "syncing", "closing"} => flushed[e] <= at[e]

CountersOK == \A e \in Engines : Counters(e)

(* Engine e is saving its target, or has saved it and is about to let it go. *)
Holds(e) == pc[e] \in Saving \/ (pc[e] = "detaching" /\ result[e] = "OK")

FrozenOK ==
    \A e \in Engines : Holds(e) => stopped[Target(e)] \/ ~alive[Target(e)]

(* The cells engine e has read by now. *)
HasRead(e) ==
    {i \in Cells :
        \/ pc[e] \in {"collecting", "opening"} /\ i <= at[e]
        \/ pc[e] \in {"writing", "flushing", "syncing", "closing"}
             /\ (i <= Collected \/ i <= at[e])}

HeldOK ==
    \A e \in Engines : Target(e) \notin Threaded =>
        \A i \in HasRead(e) : held[e][i] = [of |-> Target(e), val |-> mem[Target(e)][i]]

(* The engines that alone write their file and dump a single thread. *)
Clear(e) == OwnsPath(e) /\ Target(e) \notin Threaded

Saved(e) == disk[Path(e)] = Image(Target(e)) /\ cache[Path(e)] = Image(Target(e))

Filed(e) ==
    /\ pc[e] \in {"writing", "flushing", "syncing", "closing"} =>
         \A i \in 1 .. flushed[e] : cache[Path(e)][i] = held[e][i]
    /\ pc[e] \in {"killing", "reaping"} => Saved(e)
    /\ pc[e] \in {"closing", "detaching"} /\ result[e] = "OK" => Saved(e)

Ended(t, e) ==
    /\ t = Target(e) /\ ~alive[t]
    /\ pc[e] \in {"reaping", "done", "crashed"} /\ result[e] = "OK"
    /\ Clear(e) => Saved(e)

FileOK ==
    /\ \A e \in Engines : Clear(e) => Filed(e)
    /\ \A t \in Targets, e \in Engines : killer[t] = e => Ended(t, e)

IInv == TypeOK /\ TracerOK /\ CountersOK /\ FrozenOK /\ HeldOK /\ FileOK

-----------------------------------------------------------------------------

(* There is at least one gathered part, and one streamed after it. *)
LEMMA CellFacts ==
    /\ Last \in Nat /\ Collected \in 1 .. Last /\ Collected < Last
    /\ Cells = 1 .. Last
    /\ Collected \in Nat
BY CellsAssumption DEF Last, Cells

(* dump() starts in a well typed state. *)
LEMMA InitType == Init => TypeOK
BY CellsAssumption, WritesAssumption, NoneAssumption
DEF Init, TypeOK, Phases, EmptyFile, OldSnapshot, NothingHeld, Stored, Last, Cells

(* A target's image is a complete file. *)
LEMMA ImageType ==
    ASSUME TypeOK, NEW t \in Targets
    PROVE  Image(t) \in [Cells -> Stored]
BY DEF TypeOK, Image, Stored

(* The config of an engine names a target and a file. *)
LEMMA TargetType ==
    ASSUME TypeOK, NEW e \in Engines
    PROVE  Target(e) \in Targets /\ Path(e) \in Paths
BY DEF TypeOK, Target, Path

(* Every step, one by one, keeps the types. *)
LEMMA NextType == TypeOK /\ [Next]_vars => TypeOK'
<1>. SUFFICES ASSUME TypeOK, [Next]_vars PROVE TypeOK'
  OBVIOUS
<1>. USE CellFacts, CellsAssumption, WritesAssumption, NoneAssumption
<1>1. ASSUME NEW e \in Engines, Refused(e) PROVE TypeOK'
  BY <1>1 DEF Refused, TypeOK, Phases, GoTo, targetVars, fileVars
<1>2. ASSUME NEW e \in Engines, Seize(e) PROVE TypeOK'
  BY <1>2 DEF Seize, TypeOK, Phases, GoTo, targetVars, fileVars
<1>3. ASSUME NEW e \in Engines, Interrupt(e) PROVE TypeOK'
  BY <1>3 DEF Interrupt, TypeOK, Phases, GoTo, targetVars, fileVars
<1>4. ASSUME NEW e \in Engines, Waited(e) PROVE TypeOK'
  BY <1>4 DEF Waited, TypeOK, Phases, GoTo, targetVars, fileVars
<1>5. ASSUME NEW e \in Engines, Collect(e) PROVE TypeOK'
  <2>1. Image(Target(e)) \in [Cells -> Stored]
    BY ImageType, TargetType
  <2>2. at[e] + 1 \in Cells /\ at' \in [Engines -> 0 .. Last]
    BY <1>5 DEF Collect, TypeOK
  <2>3. held' \in [Engines -> [Cells -> Stored \cup {Nothing}]]
    BY <1>5, <2>1, <2>2 DEF Collect, TypeOK
  <2>4. pc' \in [Engines -> Phases]
    BY <1>5 DEF Collect, GoTo, TypeOK, Phases
  <2>. QED BY <1>5, <2>2, <2>3, <2>4 DEF Collect, TypeOK, targetVars, fileVars
<1>6. ASSUME NEW e \in Engines, CollectFails(e) PROVE TypeOK'
  BY <1>6 DEF CollectFails, TypeOK, Phases, GoTo, targetVars, fileVars
<1>7. ASSUME NEW e \in Engines, Open(e) PROVE TypeOK'
  BY <1>7 DEF Open, TypeOK, Phases, GoTo, EmptyFile, Path, Cells, Last, targetVars, fileVars
<1>8. ASSUME NEW e \in Engines, OpenFails(e) PROVE TypeOK'
  BY <1>8 DEF OpenFails, TypeOK, Phases, GoTo, targetVars, fileVars
<1>9. ASSUME NEW e \in Engines, WritePart(e) PROVE TypeOK'
  <2>1. Image(Target(e)) \in [Cells -> Stored]
    BY ImageType, TargetType
  <2>2. at[e] + 1 \in Cells /\ at' \in [Engines -> 0 .. Last]
    BY <1>9 DEF WritePart, TypeOK
  <2>3. held' \in [Engines -> [Cells -> Stored \cup {Nothing}]]
    BY <1>9, <2>1, <2>2 DEF WritePart, TypeOK
  <2>. QED BY <1>9, <2>2, <2>3 DEF WritePart, TypeOK, targetVars, fileVars
<1>10. ASSUME NEW e \in Engines, WriteFails(e) PROVE TypeOK'
  BY <1>10 DEF WriteFails, TypeOK, Phases, GoTo, targetVars, fileVars
<1>11. ASSUME NEW e \in Engines, PayloadDone(e) PROVE TypeOK'
  BY <1>11 DEF PayloadDone, TypeOK, Phases, GoTo, targetVars, fileVars
<1>12. ASSUME NEW e \in Engines, Flush(e) PROVE TypeOK'
  BY <1>12 DEF Flush, TypeOK, Phases, GoTo, Push, Written, Path, Last, targetVars, fileVars
<1>13. ASSUME NEW e \in Engines, Fsync(e) PROVE TypeOK'
  BY <1>13 DEF Fsync, TypeOK, Phases, GoTo, Path, targetVars, fileVars
<1>14. ASSUME NEW e \in Engines, SyncFails(e) PROVE TypeOK'
  BY <1>14 DEF SyncFails, TypeOK, Phases, GoTo, targetVars, fileVars
<1>15. ASSUME NEW e \in Engines, Close(e) PROVE TypeOK'
  BY <1>15 DEF Close, TypeOK, Phases, GoTo, Push, Written, Path, Epilogue, Last, targetVars, fileVars
<1>16. ASSUME NEW e \in Engines, CloseFails(e) PROVE TypeOK'
  BY <1>16 DEF CloseFails, TypeOK, Phases, GoTo, Epilogue, targetVars, fileVars
<1>17. ASSUME NEW e \in Engines, Kill(e) PROVE TypeOK'
  BY <1>17 DEF Kill, TypeOK, Phases, GoTo, targetVars, fileVars
<1>17a. ASSUME NEW e \in Engines, Reaped(e) PROVE TypeOK'
  BY <1>17a DEF Reaped, TypeOK, Phases, GoTo, fileVars
<1>18. ASSUME NEW e \in Engines, KillFails(e) PROVE TypeOK'
  BY <1>18 DEF KillFails, TypeOK, Phases, GoTo, targetVars, fileVars
<1>19. ASSUME NEW e \in Engines, Detach(e) PROVE TypeOK'
  BY <1>19 DEF Detach, TypeOK, Phases, GoTo, targetVars, fileVars
<1>20. ASSUME NEW e \in Engines, Spill(e) PROVE TypeOK'
  <2>1. flushed[e] + 1 \in 0 .. Last /\ Path(e) \in Paths
    <3>1. flushed[e] \in 0 .. Last /\ at[e] \in 0 .. Last /\ flushed[e] < at[e]
      BY <1>20 DEF Spill, TypeOK
    <3>. QED BY <3>1, TargetType
  <2>2. Written(e, flushed[e] + 1) \in [Cells -> Stored \cup {Nothing}]
    BY <2>1 DEF Written, TypeOK
  <2>. QED BY <1>20, <2>1, <2>2 DEF Spill, Push, TypeOK, targetVars, fileVars
<1>21. ASSUME NEW e \in Engines, EngineDies(e) PROVE TypeOK'
  BY <1>21 DEF EngineDies, TypeOK, Phases, GoTo, targetVars, fileVars
<1>22. ASSUME NEW t \in Targets, EntersStop(t) PROVE TypeOK'
  BY <1>22 DEF EntersStop, TypeOK, Phases, engineVars, fileVars, Cells
<1>23. ASSUME NEW t \in Targets, Computes(t) PROVE TypeOK'
  BY <1>23 DEF Computes, TypeOK, Phases, engineVars, fileVars, Cells
<1>24. ASSUME NEW t \in Targets, DiesAlone(t) PROVE TypeOK'
  BY <1>24 DEF DiesAlone, TypeOK, Phases, engineVars, fileVars, Cells
<1>25. ASSUME NEW p \in Paths, Writeback(p) PROVE TypeOK'
  BY <1>25 DEF Writeback, TypeOK, engineVars, targetVars
<1>26. CASE UNCHANGED vars
  BY <1>26 DEF vars, engineVars, targetVars, fileVars, TypeOK
<1>. QED BY <1>1, <1>2, <1>3, <1>4, <1>5, <1>6, <1>7, <1>8, <1>9, <1>10, <1>11, <1>12, <1>13, <1>14, <1>15, <1>16, <1>17, <1>17a, <1>18, <1>19, <1>20, <1>21, <1>22, <1>23, <1>24, <1>25, <1>26 DEF Next, EngineStep

-----------------------------------------------------------------------------
(***************************************************************************)
(* Most steps of an engine move it on while it holds its target, and       *)
(* touch nothing of any target.                                            *)
(***************************************************************************)
Inner(e) ==
    \/ Interrupt(e) \/ Waited(e) \/ Collect(e) \/ CollectFails(e) \/ Open(e)
    \/ OpenFails(e) \/ WritePart(e) \/ WriteFails(e) \/ Spill(e) \/ PayloadDone(e)
    \/ Flush(e) \/ Fsync(e) \/ SyncFails(e) \/ Close(e) \/ CloseFails(e) \/ KillFails(e)

Advances(e) ==
    /\ {pc[e], pc'[e]} \subseteq Active \ {"reaping"}
    /\ \A f \in Engines \ {e} : pc'[f] = pc[f]
    /\ UNCHANGED <<config, alive, stopped, tracer, killer, mem>>

(* Such a step leaves every target alone. *)
LEMMA InnerAdvances ==
    ASSUME TypeOK, NEW e \in Engines, Inner(e)
    PROVE  Advances(e)
<1>. USE DEF Advances, Active, Phases, GoTo, TypeOK, targetVars
<1>1. CASE Interrupt(e)  BY <1>1 DEF Interrupt
<1>2. CASE Waited(e)  BY <1>2 DEF Waited
<1>3. CASE Collect(e)  BY <1>3 DEF Collect
<1>4. CASE CollectFails(e)  BY <1>4 DEF CollectFails
<1>5. CASE Open(e)  BY <1>5 DEF Open
<1>6. CASE OpenFails(e)  BY <1>6 DEF OpenFails
<1>7. CASE WritePart(e)  BY <1>7 DEF WritePart
<1>8. CASE WriteFails(e)  BY <1>8 DEF WriteFails
<1>9. CASE Spill(e)  BY <1>9 DEF Spill
<1>10. CASE PayloadDone(e)  BY <1>10 DEF PayloadDone
<1>11. CASE Flush(e)  BY <1>11 DEF Flush
<1>12. CASE Fsync(e)  BY <1>12 DEF Fsync
<1>13. CASE SyncFails(e)  BY <1>13 DEF SyncFails
<1>14. CASE Close(e)  BY <1>14 DEF Close, Epilogue
<1>15. CASE CloseFails(e)  BY <1>15 DEF CloseFails, Epilogue
<1>16. CASE KillFails(e)  BY <1>16 DEF KillFails
<1>. QED BY <1>1, <1>2, <1>3, <1>4, <1>5, <1>6, <1>7, <1>8, <1>9, <1>10, <1>11, <1>12, <1>13, <1>14, <1>15, <1>16 DEF Inner

(* A target is seized by the one engine that works on it. *)
LEMMA TracerStep ==
    ASSUME TypeOK, TracerOK, [Next]_vars
    PROVE  TracerOK'
<1>0. /\ tracer \in [Targets -> Engines \cup {NoEngine}] /\ pc \in [Engines -> Phases]
      /\ stopped \in [Targets -> BOOLEAN] /\ alive \in [Targets -> BOOLEAN]
      /\ \A e \in Engines : Target(e) \in Targets
  BY TargetType DEF TypeOK
<1>. USE <1>0, NoneAssumption DEF TracerOK, Target, GoTo
<1>1. ASSUME NEW e \in Engines, Inner(e) PROVE TracerOK'
  <2>1. Advances(e)
    BY <1>1, InnerAdvances
  <2>2. \A f \in Engines : pc[f] \in Active <=> pc'[f] \in Active
    BY <2>1 DEF Advances
  <2>. QED BY <2>1, <2>2 DEF Advances
<1>2. ASSUME NEW e \in Engines, Refused(e) PROVE TracerOK'
  BY <1>2 DEF Refused, targetVars, Active, Phases
<1>3. ASSUME NEW e \in Engines, Seize(e) PROVE TracerOK'
  BY <1>3 DEF Seize, Active, Phases
<1>3a. ASSUME NEW e \in Engines, Kill(e) PROVE TracerOK'
  <2>1. \A f \in Engines : pc[f] \in Active <=> pc'[f] \in Active
    BY <1>3a DEF Kill, Active, Phases
  <2>2. \A t \in Targets : stopped'[t] => stopped[t] /\ t # Target(e) /\ alive'[t] = alive[t]
    BY <1>3a DEF Kill
  <2>. QED BY <1>3a, <2>1, <2>2 DEF Kill
<1>4. ASSUME NEW e \in Engines, Reaped(e) PROVE TracerOK'
  <2>1. pc[e] \in Active /\ pc'[e] \notin Active
    BY <1>4 DEF Reaped, Active, Phases
  <2>2. \A f \in Engines \ {e} : pc'[f] = pc[f]
    BY <1>4 DEF Reaped
  <2>3. tracer[Target(e)] = e /\ tracer'[Target(e)] = NoEngine
    BY <1>4, <2>1 DEF Reaped
  <2>4. \A t \in Targets \ {Target(e)} : tracer'[t] = tracer[t]
    BY <1>4 DEF Reaped
  <2>5. \A t \in Targets : stopped'[t] => stopped[t] /\ t # Target(e) /\ alive'[t] = alive[t]
    BY <1>4 DEF Reaped
  <2>6. config' = config
    BY <1>4 DEF Reaped
  <2>. QED BY <2>1, <2>2, <2>3, <2>4, <2>5, <2>6
<1>5. ASSUME NEW e \in Engines, Detach(e) PROVE TracerOK'
  <2>1. pc[e] \in Active /\ pc'[e] \notin Active
    BY <1>5 DEF Detach, Active, Phases
  <2>2. \A f \in Engines \ {e} : pc'[f] = pc[f]
    BY <1>5 DEF Detach
  <2>3. tracer[Target(e)] = e /\ tracer'[Target(e)] = NoEngine
    BY <1>5, <2>1 DEF Detach
  <2>4. \A t \in Targets \ {Target(e)} : tracer'[t] = tracer[t]
    BY <1>5 DEF Detach
  <2>5. \A t \in Targets : stopped'[t] => stopped[t] /\ t # Target(e) /\ alive'[t] = alive[t]
    BY <1>5 DEF Detach
  <2>6. config' = config
    BY <1>5 DEF Detach
  <2>. QED BY <2>1, <2>2, <2>3, <2>4, <2>5, <2>6
<1>6. ASSUME NEW e \in Engines, EngineDies(e) PROVE TracerOK'
  <2>1. pc[e] \in Active /\ pc'[e] \notin Active
    BY <1>6 DEF EngineDies, Active, Phases
  <2>2. \A f \in Engines \ {e} : pc'[f] = pc[f]
    BY <1>6 DEF EngineDies
  <2>3. \A t \in Targets : tracer'[t] = IF tracer[t] = e THEN NoEngine ELSE tracer[t]
    BY <1>6 DEF EngineDies
  <2>4. \A t \in Targets : stopped'[t] => stopped[t] /\ tracer[t] # e
    BY <1>6 DEF EngineDies
  <2>5. config' = config /\ alive' = alive
    BY <1>6 DEF EngineDies
  <2>. QED BY <2>1, <2>2, <2>3, <2>4, <2>5
<1>7. ASSUME NEW t \in Targets, EntersStop(t) PROVE TracerOK'
  BY <1>7 DEF EntersStop, engineVars
<1>8. ASSUME NEW t \in Targets, Computes(t) PROVE TracerOK'
  BY <1>8 DEF Computes, engineVars
<1>9. ASSUME NEW t \in Targets, DiesAlone(t) PROVE TracerOK'
  BY <1>9 DEF DiesAlone, engineVars
<1>10. ASSUME NEW p \in Paths, Writeback(p) PROVE TracerOK'
  BY <1>10 DEF Writeback, engineVars, targetVars
<1>11. CASE UNCHANGED vars
  BY <1>11 DEF vars, engineVars, targetVars
<1>. QED BY <1>1, <1>2, <1>3, <1>3a, <1>4, <1>5, <1>6, <1>7, <1>8, <1>9, <1>10, <1>11 DEF Next, EngineStep, Inner

-----------------------------------------------------------------------------
(* A step of an engine leaves the counters and buffers of the others alone. *)
Local(e) ==
    \A f \in Engines \ {e} :
        /\ pc'[f] = pc[f] /\ at'[f] = at[f] /\ flushed'[f] = flushed[f]
        /\ result'[f] = result[f] /\ held'[f] = held[f]

AnyStep(e) == EngineStep(e) \/ Spill(e) \/ EngineDies(e)

(* Every step of an engine is local in that sense. *)
LEMMA OnlyActor ==
    ASSUME TypeOK, NEW e \in Engines, AnyStep(e)
    PROVE  Local(e) /\ config' = config
<1>. USE DEF Local, GoTo, Push
<1>1. CASE Refused(e)  BY <1>1 DEF Refused
<1>2. CASE Seize(e)  BY <1>2 DEF Seize
<1>3. CASE Kill(e)  BY <1>3 DEF Kill
<1>3a. CASE Reaped(e)  BY <1>3a DEF Reaped
<1>4. CASE Detach(e)  BY <1>4 DEF Detach
<1>5. CASE EngineDies(e)  BY <1>5 DEF EngineDies
<1>6. CASE Interrupt(e)  BY <1>6 DEF Interrupt
<1>7. CASE Waited(e)  BY <1>7 DEF Waited
<1>8. CASE Collect(e)
  <2>1. \A f \in Engines \ {e} : held'[f] = held[f]
    BY <1>8 DEF Collect, TypeOK
  <2>2. \A f \in Engines \ {e} : pc'[f] = pc[f] /\ at'[f] = at[f]
    BY <1>8 DEF Collect
  <2>3. result' = result /\ flushed' = flushed /\ config' = config
    BY <1>8 DEF Collect
  <2>. QED BY <2>1, <2>2, <2>3
<1>9. CASE CollectFails(e)  BY <1>9 DEF CollectFails
<1>10. CASE Open(e)  BY <1>10 DEF Open
<1>11. CASE OpenFails(e)  BY <1>11 DEF OpenFails
<1>12. CASE WritePart(e)  BY <1>12 DEF WritePart
<1>13. CASE WriteFails(e)  BY <1>13 DEF WriteFails
<1>14. CASE Spill(e)  BY <1>14 DEF Spill
<1>15. CASE PayloadDone(e)  BY <1>15 DEF PayloadDone
<1>16. CASE Flush(e)  BY <1>16 DEF Flush
<1>17. CASE Fsync(e)  BY <1>17 DEF Fsync
<1>18. CASE SyncFails(e)  BY <1>18 DEF SyncFails
<1>19. CASE Close(e)  BY <1>19 DEF Close
<1>20. CASE CloseFails(e)  BY <1>20 DEF CloseFails
<1>21. CASE KillFails(e)  BY <1>21 DEF KillFails
<1>. QED BY <1>1, <1>2, <1>3, <1>3a, <1>4, <1>5, <1>6, <1>7, <1>8, <1>9, <1>10, <1>11, <1>12, <1>13, <1>14, <1>15, <1>16, <1>17, <1>18, <1>19, <1>20, <1>21 DEF AnyStep, EngineStep

(* How far the counters have come fits the phase. *)
LEMMA CountersStep ==
    ASSUME TypeOK, CountersOK, [Next]_vars
    PROVE  CountersOK'
<1>0. /\ pc \in [Engines -> Phases] /\ result \in [Engines -> {"OK", "ERROR"}]
      /\ at \in [Engines -> 0 .. Last] /\ flushed \in [Engines -> 0 .. Last]
  BY DEF TypeOK
<1>1. ASSUME NEW e \in Engines, AnyStep(e) PROVE CountersOK'
  <2>. USE <1>0, CellFacts DEF CountersOK, Counters, GoTo
  <2>0. SUFFICES Counters(e)'
    BY <1>1, OnlyActor DEF Local
  <2>1. CASE Refused(e)  BY <2>1 DEF Refused
  <2>2. CASE Seize(e)  BY <2>2 DEF Seize
  <2>3. CASE Kill(e)  BY <2>3 DEF Kill
  <2>3a. CASE Reaped(e)  BY <2>3a DEF Reaped
  <2>4. CASE Detach(e)  BY <2>4 DEF Detach
  <2>5. CASE EngineDies(e)  BY <2>5 DEF EngineDies
  <2>6. CASE Interrupt(e)  BY <2>6 DEF Interrupt
  <2>7. CASE Waited(e)  BY <2>7 DEF Waited
  <2>8. CASE Collect(e)  BY <2>8 DEF Collect
  <2>9. CASE CollectFails(e)  BY <2>9 DEF CollectFails
  <2>10. CASE Open(e)  BY <2>10 DEF Open
  <2>11. CASE OpenFails(e)  BY <2>11 DEF OpenFails
  <2>12. CASE WritePart(e)  BY <2>12 DEF WritePart
  <2>13. CASE WriteFails(e)  BY <2>13 DEF WriteFails
  <2>14. CASE Spill(e)  BY <2>14 DEF Spill, Push
  <2>15. CASE PayloadDone(e)  BY <2>15 DEF PayloadDone
  <2>16. CASE Flush(e)  BY <2>16 DEF Flush, Push
  <2>17. CASE Fsync(e)  BY <2>17 DEF Fsync
  <2>18. CASE SyncFails(e)  BY <2>18 DEF SyncFails
  <2>19. CASE Close(e)  BY <2>19 DEF Close, Epilogue, Push
  <2>20. CASE CloseFails(e)  BY <2>20 DEF CloseFails, Epilogue
  <2>21. CASE KillFails(e)  BY <2>21 DEF KillFails
  <2>. QED BY <1>1, <2>1, <2>2, <2>3, <2>3a, <2>4, <2>5, <2>6, <2>7, <2>8, <2>9, <2>10, <2>11, <2>12, <2>13, <2>14, <2>15, <2>16, <2>17, <2>18, <2>19, <2>20, <2>21 DEF AnyStep, EngineStep
<1>2. ASSUME NEW t \in Targets, EntersStop(t) \/ Computes(t) \/ DiesAlone(t)
      PROVE  CountersOK'
  BY <1>2 DEF EntersStop, Computes, DiesAlone, engineVars, CountersOK, Counters
<1>3. ASSUME NEW p \in Paths, Writeback(p) PROVE CountersOK'
  BY <1>3 DEF Writeback, engineVars, CountersOK, Counters
<1>4. CASE UNCHANGED vars
  BY <1>4 DEF vars, engineVars, CountersOK, Counters
<1>. QED BY <1>1, <1>2, <1>3, <1>4 DEF Next, AnyStep

-----------------------------------------------------------------------------
(* Two engines at work have two different targets. *)
LEMMA OwnTarget ==
    ASSUME TracerOK, NEW e \in Engines, NEW f \in Engines \ {e},
           pc[e] \in Active, pc[f] \in Active
    PROVE  Target(e) # Target(f)
BY DEF TracerOK

(* Only waitpid reporting a stop begins the saving. *)
LEMMA InnerSaves ==
    ASSUME TypeOK, CountersOK, NEW e \in Engines, Inner(e), Holds(e)'
    PROVE  Holds(e) \/ stopped[Target(e)]
<1>0. pc \in [Engines -> Phases] /\ result \in [Engines -> {"OK", "ERROR"}] /\ Counters(e)
  BY DEF TypeOK, CountersOK
<1>. USE <1>0 DEF Holds, Saving, Active, Phases, GoTo, Counters
<1>1. CASE Interrupt(e)  BY <1>1 DEF Interrupt
<1>2. CASE Waited(e)  BY <1>2 DEF Waited
<1>3. CASE Collect(e)  BY <1>3 DEF Collect
<1>4. CASE CollectFails(e)  BY <1>4 DEF CollectFails
<1>5. CASE Open(e)  BY <1>5 DEF Open
<1>6. CASE OpenFails(e)  BY <1>6 DEF OpenFails
<1>7. CASE WritePart(e)  BY <1>7 DEF WritePart
<1>8. CASE WriteFails(e)  BY <1>8 DEF WriteFails
<1>9. CASE Spill(e)  BY <1>9 DEF Spill
<1>10. CASE PayloadDone(e)  BY <1>10 DEF PayloadDone
<1>11. CASE Flush(e)  BY <1>11 DEF Flush
<1>12. CASE Fsync(e)  BY <1>12 DEF Fsync
<1>13. CASE SyncFails(e)  BY <1>13 DEF SyncFails
<1>14. CASE Close(e)  BY <1>14 DEF Close, Epilogue
<1>15. CASE CloseFails(e)  BY <1>15 DEF CloseFails, Epilogue
<1>16. CASE KillFails(e)  BY <1>16 DEF KillFails
<1>. QED BY <1>1, <1>2, <1>3, <1>4, <1>5, <1>6, <1>7, <1>8, <1>9, <1>10, <1>11, <1>12, <1>13, <1>14, <1>15, <1>16 DEF Inner

(* A target stays in its stop, or dead, while it is held. *)
LEMMA FrozenStep ==
    ASSUME TypeOK, TracerOK, CountersOK, FrozenOK, [Next]_vars
    PROVE  FrozenOK'
<1>0. /\ pc \in [Engines -> Phases] /\ result \in [Engines -> {"OK", "ERROR"}]
      /\ stopped \in [Targets -> BOOLEAN] /\ alive \in [Targets -> BOOLEAN]
      /\ \A e \in Engines : Target(e) \in Targets
      /\ \A e \in Engines : Holds(e) => pc[e] \in Active
  BY TargetType DEF TypeOK, Saving, Holds, Active, Phases
<1>. USE <1>0 DEF FrozenOK, Target, GoTo
<1>1. ASSUME NEW e \in Engines, Inner(e) PROVE FrozenOK'
  <2>1. Holds(e)' => Holds(e) \/ stopped[Target(e)]
    BY <1>1, InnerSaves
  <2>2. \A f \in Engines \ {e} : Holds(f)' <=> Holds(f)
    BY <1>1, OnlyActor DEF Inner, AnyStep, EngineStep, Local, Holds
  <2>. QED BY <1>1, <2>1, <2>2, InnerAdvances DEF Advances
<1>2. ASSUME NEW e \in Engines, Refused(e) \/ Seize(e) PROVE FrozenOK'
  <2>1. \A f \in Engines : Holds(f)' => Holds(f)
    BY <1>2 DEF Refused, Seize, Holds, Saving, Active, Phases
  <2>2. config' = config /\ alive' = alive /\ stopped' = stopped
    BY <1>2 DEF Refused, Seize, targetVars
  <2>. QED BY <2>1, <2>2
<1>3. ASSUME NEW e \in Engines, Kill(e) \/ Reaped(e) \/ Detach(e) PROVE FrozenOK'
  <2>1. pc[e] \in Active /\ (~Holds(e)' \/ ~alive'[Target(e)])
    BY <1>3 DEF Kill, Reaped, Detach, Active, Saving, Holds, Phases
  <2>2. \A f \in Engines \ {e} : Holds(f)' <=> Holds(f)
    BY <1>3, OnlyActor DEF AnyStep, EngineStep, Local, Holds
  <2>3. \A t \in Targets \ {Target(e)} : stopped'[t] = stopped[t] /\ alive'[t] = alive[t]
    BY <1>3 DEF Kill, Reaped, Detach
  <2>4. config' = config
    BY <1>3 DEF Kill, Reaped, Detach
  <2>. QED BY <2>1, <2>2, <2>3, <2>4, OwnTarget
<1>4. ASSUME NEW e \in Engines, EngineDies(e) PROVE FrozenOK'
  <2>1. ~Holds(e)' /\ \A f \in Engines \ {e} : Holds(f)' <=> Holds(f)
    BY <1>4, OnlyActor DEF AnyStep, Local, EngineDies, Saving, Active, Holds
  <2>2. \A t \in Targets : tracer[t] # e => stopped'[t] = stopped[t]
    BY <1>4 DEF EngineDies
  <2>3. config' = config /\ alive' = alive
    BY <1>4 DEF EngineDies
  <2>. QED BY <2>1, <2>2, <2>3 DEF TracerOK
<1>5. ASSUME NEW t \in Targets, EntersStop(t) \/ Computes(t) \/ DiesAlone(t)
      PROVE  FrozenOK'
  BY <1>5 DEF EntersStop, Computes, DiesAlone, engineVars, Holds
<1>6. ASSUME NEW p \in Paths, Writeback(p) PROVE FrozenOK'
  BY <1>6 DEF Writeback, engineVars, targetVars, Holds
<1>7. CASE UNCHANGED vars
  BY <1>7 DEF vars, engineVars, targetVars, Holds
<1>. QED BY <1>1, <1>2, <1>3, <1>4, <1>5, <1>6, <1>7 DEF Next, EngineStep, Inner

-----------------------------------------------------------------------------
(* The command line does not change. *)
LEMMA ConfigFixed == [Next]_vars => config' = config
BY DEF Next, EngineStep, vars, Refused, Seize, Interrupt, Waited, Collect, CollectFails,
     Open, OpenFails, WritePart, WriteFails, Spill, PayloadDone, Flush, Fsync, SyncFails,
     Close, CloseFails, Kill, KillFails, Reaped, Detach, EngineDies, EntersStop, Computes,
     DiesAlone, Writeback

(* An engine writes nothing into a target. *)
LEMMA MemoryUntouched ==
    ASSUME NEW e \in Engines, AnyStep(e)
    PROVE  mem' = mem
BY DEF AnyStep, EngineStep, targetVars, Refused, Seize, Interrupt, Waited, Collect,
   CollectFails, Open, OpenFails, WritePart, WriteFails, Spill, PayloadDone, Flush, Fsync,
   SyncFails, Close, CloseFails, Kill, KillFails, Reaped, Detach, EngineDies

(* No cell of a single-threaded target changes while it is being saved. *)
LEMMA FrozenMemory ==
    ASSUME TypeOK, FrozenOK, [Next]_vars,
           NEW e \in Engines, Target(e) \notin Threaded, Holds(e)
    PROVE  mem'[Target(e)] = mem[Target(e)]
<1>0. Target(e) \in Targets /\ mem \in [Targets -> [Cells -> 0 .. MaxWrites]]
  BY TargetType DEF TypeOK
<1>1. ASSUME NEW f \in Engines, AnyStep(f) PROVE mem' = mem
  BY <1>1, MemoryUntouched
<1>2. ASSUME NEW t \in Targets, Computes(t) PROVE t # Target(e)
  BY <1>2 DEF Computes, FrozenOK
<1>3. ASSUME NEW t \in Targets, Computes(t) PROVE mem'[Target(e)] = mem[Target(e)]
  BY <1>0, <1>2, <1>3 DEF Computes
<1>4. ASSUME NEW t \in Targets, EntersStop(t) \/ DiesAlone(t) PROVE mem' = mem
  BY <1>4 DEF EntersStop, DiesAlone
<1>5. ASSUME NEW p \in Paths, Writeback(p) PROVE mem' = mem
  BY <1>5 DEF Writeback, targetVars
<1>6. CASE UNCHANGED vars
  BY <1>6 DEF vars, targetVars
<1>. QED BY <1>1, <1>3, <1>4, <1>5, <1>6 DEF Next, AnyStep

(* Steps that read no cell add nothing to what an engine has read. *)
LEMMA ReadsLess ==
    ASSUME TypeOK, CountersOK, NEW e \in Engines, AnyStep(e), ~Collect(e), ~WritePart(e)
    PROVE  HasRead(e)' \subseteq HasRead(e) /\ held' = held
<1>0. pc \in [Engines -> Phases] /\ at \in [Engines -> 0 .. Last] /\ Counters(e)
  BY DEF TypeOK, CountersOK
<1>. USE <1>0, CellFacts DEF HasRead, GoTo
<1>1. CASE Refused(e)  BY <1>1 DEF Refused
<1>2. CASE Seize(e)  BY <1>2 DEF Seize
<1>3. CASE Kill(e)  BY <1>3 DEF Kill
<1>3a. CASE Reaped(e)  BY <1>3a DEF Reaped
<1>4. CASE Detach(e)  BY <1>4 DEF Detach
<1>5. CASE EngineDies(e)  BY <1>5 DEF EngineDies
<1>6. CASE Interrupt(e)  BY <1>6 DEF Interrupt
<1>7. CASE Waited(e)  BY <1>7 DEF Waited, Counters
<1>8. CASE CollectFails(e)  BY <1>8 DEF CollectFails
<1>9. CASE Open(e)  BY <1>9 DEF Open, Counters
<1>10. CASE OpenFails(e)  BY <1>10 DEF OpenFails
<1>11. CASE WriteFails(e)  BY <1>11 DEF WriteFails
<1>12. CASE Spill(e)  BY <1>12 DEF Spill, Push
<1>13. CASE PayloadDone(e)  BY <1>13 DEF PayloadDone
<1>14. CASE Flush(e)  BY <1>14 DEF Flush, Push
<1>15. CASE Fsync(e)  BY <1>15 DEF Fsync
<1>16. CASE SyncFails(e)  BY <1>16 DEF SyncFails
<1>17. CASE Close(e)  BY <1>17 DEF Close, Epilogue, Push
<1>18. CASE CloseFails(e)  BY <1>18 DEF CloseFails, Epilogue
<1>19. CASE KillFails(e)  BY <1>19 DEF KillFails
<1>. QED BY <1>1, <1>2, <1>3, <1>3a, <1>4, <1>5, <1>6, <1>7, <1>8, <1>9, <1>10, <1>11, <1>12, <1>13, <1>14, <1>15, <1>16, <1>17, <1>18, <1>19 DEF AnyStep, EngineStep

(* What was read from a frozen target is still what it holds. *)
LEMMA HeldStep ==
    ASSUME TypeOK, CountersOK, FrozenOK, HeldOK, [Next]_vars
    PROVE  HeldOK'
<1>0. /\ pc \in [Engines -> Phases] /\ at \in [Engines -> 0 .. Last]
      /\ held \in [Engines -> [Cells -> Stored \cup {Nothing}]]
      /\ \A e \in Engines : Target(e) \in Targets
      /\ \A e \in Engines : HasRead(e) # {} => Holds(e)
  BY TargetType DEF TypeOK, HasRead, Holds, Saving, Active, Phases
<1>1. SUFFICES ASSUME NEW e \in Engines, (Target(e) \notin Threaded)',
                      NEW i \in HasRead(e)'
               PROVE  held'[e][i] = [of |-> Target(e)', val |-> mem'[Target(e)'][i]]
  BY DEF HeldOK
<1>2. config' = config
  BY ConfigFixed
<1>3. Target(e)' = Target(e) /\ Target(e) \notin Threaded
  BY <1>1, <1>2 DEF Target
<1>4. ASSUME i \in HasRead(e), held'[e][i] = held[e][i]
      PROVE  held'[e][i] = [of |-> Target(e)', val |-> mem'[Target(e)'][i]]
  BY <1>0, <1>3, <1>4, FrozenMemory DEF HeldOK
<1>5. ASSUME AnyStep(e), ~Collect(e), ~WritePart(e)
      PROVE  i \in HasRead(e) /\ held'[e][i] = held[e][i]
  BY <1>5, ReadsLess
<1>6. ASSUME Collect(e) \/ WritePart(e)
      PROVE  \/ i \in HasRead(e) /\ held'[e][i] = held[e][i]
             \/ held'[e][i] = Image(Target(e))[i] /\ mem' = mem
  <2>1. CASE Collect(e)
    <3>1. i \in 1 .. at[e] + 1 /\ i \in Cells
      BY <1>0, <2>1, CellFacts DEF Collect, GoTo, HasRead
    <3>2. held'[e][i] = IF i = at[e] + 1 THEN Image(Target(e))[i] ELSE held[e][i]
      BY <1>0, <2>1, <3>1 DEF Collect
    <3>3. i # at[e] + 1 => i \in HasRead(e)
      BY <1>0, <2>1, <3>1 DEF Collect, HasRead
    <3>. QED BY <2>1, <3>2, <3>3 DEF Collect, targetVars
  <2>2. CASE WritePart(e)
    <3>1. i \in Cells /\ (i <= Collected \/ i <= at[e] + 1)
      BY <1>0, <2>2, CellFacts DEF WritePart, HasRead
    <3>2. held'[e][i] = IF i = at[e] + 1 /\ i > Collected THEN Image(Target(e))[i]
                                                         ELSE held[e][i]
      BY <1>0, <2>2, <3>1, CellFacts DEF WritePart
    <3>3. (i = at[e] + 1 /\ i > Collected) \/ i \in HasRead(e)
      BY <1>0, <2>2, <3>1, CellFacts DEF WritePart, HasRead
    <3>. QED BY <2>2, <3>2, <3>3 DEF WritePart, targetVars
  <2>. QED BY <1>6, <2>1, <2>2
<1>6a. ASSUME held'[e][i] = Image(Target(e))[i], mem' = mem
       PROVE  held'[e][i] = [of |-> Target(e)', val |-> mem'[Target(e)'][i]]
  BY <1>3, <1>6a DEF Image, HasRead
<1>7. ASSUME NEW f \in Engines \ {e}, AnyStep(f)
      PROVE  i \in HasRead(e) /\ held'[e][i] = held[e][i]
  BY <1>7, OnlyActor DEF Local, HasRead
<1>8. ASSUME NEW t \in Targets, EntersStop(t) \/ Computes(t) \/ DiesAlone(t)
      PROVE  i \in HasRead(e) /\ held'[e][i] = held[e][i]
  BY <1>8 DEF EntersStop, Computes, DiesAlone, engineVars, HasRead
<1>9. ASSUME NEW p \in Paths, Writeback(p)
      PROVE  i \in HasRead(e) /\ held'[e][i] = held[e][i]
  BY <1>9 DEF Writeback, engineVars, HasRead
<1>10. ASSUME UNCHANGED vars
      PROVE  i \in HasRead(e) /\ held'[e][i] = held[e][i]
  BY <1>10 DEF vars, engineVars, HasRead
<1>. QED BY <1>4, <1>5, <1>6, <1>6a, <1>7, <1>8, <1>9, <1>10 DEF Next, AnyStep

-----------------------------------------------------------------------------
(* Nobody else writes a file an engine owns. *)
LEMMA OthersFile ==
    ASSUME TypeOK, NEW e \in Engines, OwnsPath(e), NEW f \in Engines \ {e}, AnyStep(f)
    PROVE  cache'[Path(e)] = cache[Path(e)] /\ disk'[Path(e)] = disk[Path(e)]
<1>1. Path(f) # Path(e) /\ Path(e) \in Paths
  BY TargetType DEF OwnsPath
<1>2. cache' = cache \/ \E x : cache' = [cache EXCEPT ![Path(f)] = x]
  BY DEF AnyStep, EngineStep, Push, fileVars, Refused, Seize, Interrupt, Waited, Collect,
     CollectFails, Open, OpenFails, WritePart, WriteFails, Spill, PayloadDone, Flush, Fsync,
     SyncFails, Close, CloseFails, Kill, KillFails, Reaped, Detach, EngineDies
<1>3. disk' = disk \/ \E x : disk' = [disk EXCEPT ![Path(f)] = x]
  BY DEF AnyStep, EngineStep, Push, fileVars, Refused, Seize, Interrupt, Waited, Collect,
     CollectFails, Open, OpenFails, WritePart, WriteFails, Spill, PayloadDone, Flush, Fsync,
     SyncFails, Close, CloseFails, Kill, KillFails, Reaped, Detach, EngineDies
<1>. QED BY <1>1, <1>2, <1>3 DEF TypeOK

(* An engine that has everything in its file has its target there. *)
LEMMA WholeFile ==
    ASSUME TypeOK, HeldOK, NEW e \in Engines, Clear(e), Filed(e),
           pc[e] \in {"flushing", "syncing", "closing"}, at[e] = Last, flushed[e] = Last
    PROVE  cache[Path(e)] = Image(Target(e))
<1>1. ASSUME NEW i \in Cells PROVE cache[Path(e)][i] = Image(Target(e))[i]
  <2>1. i \in 1 .. Last /\ cache[Path(e)][i] = held[e][i]
    BY CellFacts DEF Filed
  <2>2. i \in HasRead(e)
    BY <2>1, CellFacts DEF HasRead
  <2>3. held[e][i] = [of |-> Target(e), val |-> mem[Target(e)][i]]
    BY <2>2 DEF HeldOK, Clear
  <2>. QED BY <2>1, <2>3 DEF Image
<1>2. cache[Path(e)] \in [Cells -> Stored \cup {Nothing}] /\ Image(Target(e)) \in [Cells -> Stored]
  BY TargetType, ImageType DEF TypeOK
<1>. QED BY <1>1, <1>2

(* The file of an engine after one of its own steps. *)
LEMMA OwnFile ==
    ASSUME TypeOK, TracerOK, CountersOK, FrozenOK, HeldOK, NEW e \in Engines, Clear(e), Filed(e),
           AnyStep(e), mem' = mem
    PROVE  Filed(e)'
<1>0. /\ pc \in [Engines -> Phases] /\ at \in [Engines -> 0 .. Last]
      /\ flushed \in [Engines -> 0 .. Last]
      /\ held \in [Engines -> [Cells -> Stored \cup {Nothing}]]
      /\ result \in [Engines -> {"OK", "ERROR"}]
      /\ cache \in [Paths -> [Cells -> Stored \cup {Nothing}]]
      /\ disk \in [Paths -> [Cells -> Stored \cup {Nothing}]]
      /\ Path(e) \in Paths /\ Counters(e)
      /\ Path(e)' = Path(e) /\ Image(Target(e))' = Image(Target(e))
  BY TargetType, OnlyActor DEF TypeOK, CountersOK, Path, Target, Image
<1>. USE <1>0, CellFacts DEF GoTo
<1>1. CASE Refused(e) \/ Seize(e) \/ Interrupt(e) \/ Waited(e) \/ Collect(e) \/ CollectFails(e)
           \/ OpenFails(e) \/ KillFails(e) \/ Reaped(e) \/ Detach(e) \/ EngineDies(e)
  <2>1. /\ pc'[e] \notin {"writing", "flushing", "syncing", "closing", "killing", "reaping"}
        /\ pc'[e] = "detaching" => result'[e] = "ERROR"
    BY <1>1 DEF Refused, Seize, Interrupt, Waited, Collect, CollectFails, OpenFails, KillFails,
       Reaped, Detach, EngineDies, Counters
  <2>. QED BY <2>1 DEF Filed
<1>1a. CASE Kill(e)
  BY <1>1a DEF Kill, Filed, Saved, fileVars
<1>2. CASE Open(e)
  BY <1>2 DEF Open, Filed, Counters
<1>3. CASE WritePart(e)
  <2>1. \A i \in 1 .. flushed[e] : held'[e][i] = held[e][i]
    BY <1>3 DEF WritePart, Counters
  <2>. QED BY <1>3, <2>1 DEF WritePart, Filed, Counters, fileVars
<1>4. CASE WriteFails(e) \/ PayloadDone(e) \/ SyncFails(e)
  BY <1>4 DEF WriteFails, PayloadDone, SyncFails, Filed, Counters, fileVars
<1>5. CASE Spill(e)
  <2>1. /\ flushed'[e] = flushed[e] + 1 /\ flushed[e] + 1 \in Cells
        /\ \A i \in 1 .. flushed[e] + 1 : cache'[Path(e)][i] = held[e][i]
    <3>1. flushed'[e] = flushed[e] + 1 /\ flushed[e] + 1 \in Cells
      BY <1>5 DEF Spill, Push
    <3>2. cache'[Path(e)] = Written(e, flushed[e] + 1)
      BY <1>5 DEF Spill, Push
    <3>3. \A i \in 1 .. flushed[e] : cache[Path(e)][i] = held[e][i]
      BY <1>5 DEF Spill, Filed
    <3>4. ASSUME NEW i \in 1 .. flushed[e] + 1 PROVE cache'[Path(e)][i] = held[e][i]
      <4>1. i \in Cells /\ (i \in 1 .. flushed[e] \/ (flushed[e] < i /\ i <= flushed[e] + 1))
        BY <3>1
      <4>. QED BY <3>2, <3>3, <4>1 DEF Written
    <3>. QED BY <3>1, <3>4
  <2>. QED BY <1>5, <2>1 DEF Spill, Filed
<1>6. CASE Flush(e)
  <2>1. flushed'[e] = Last /\ cache'[Path(e)] = Written(e, Last)
    BY <1>6 DEF Flush, Push, Counters
  <2>2. \A i \in 1 .. Last : cache'[Path(e)][i] = held[e][i]
    <3>1. \A i \in 1 .. flushed[e] : cache[Path(e)][i] = held[e][i]
      BY <1>6 DEF Flush, Filed
    <3>. QED BY <2>1, <3>1 DEF Written
  <2>3. pc'[e] = "syncing" /\ held' = held
    BY <1>6 DEF Flush
  <2>. QED BY <2>1, <2>2, <2>3 DEF Filed
<1>7. CASE Fsync(e)
  <2>1. cache[Path(e)] = Image(Target(e))
    BY <1>7, WholeFile DEF Fsync, Counters
  <2>. QED BY <1>7, <2>1 DEF Fsync, Filed, Saved
<1>8. CASE Close(e)
  <2>1. CASE result[e] = "OK"
    <3>1. Written(e, at[e]) = cache[Path(e)]
      BY <1>8, <2>1 DEF Close, Counters, Written
    <3>. QED BY <1>8, <2>1, <3>1 DEF Close, Push, Epilogue, Filed, Saved
  <2>2. CASE result[e] # "OK"
    BY <1>8, <2>2 DEF Close, Epilogue, Filed
  <2>. QED BY <2>1, <2>2
<1>9. CASE CloseFails(e)
  BY <1>9 DEF CloseFails, Epilogue, Filed
<1>. QED BY <1>1, <1>1a, <1>2, <1>3, <1>4, <1>5, <1>6, <1>7, <1>8, <1>9 DEF AnyStep, EngineStep

(* The file follows what has left the buffer, whoever takes the step. *)
LEMMA FiledStep ==
    ASSUME TypeOK, TracerOK, CountersOK, FrozenOK, HeldOK, FileOK, [Next]_vars,
           NEW e \in Engines, Clear(e)'
    PROVE  Filed(e)'
<1>1. /\ Clear(e) /\ Filed(e)
      /\ Path(e)' = Path(e) /\ Target(e)' = Target(e)
      /\ Path(e) \in Paths
  BY ConfigFixed, TargetType DEF Clear, OwnsPath, Path, Target, FileOK
<1>2. Holds(e) => Image(Target(e))' = Image(Target(e))
  BY <1>1, FrozenMemory DEF Image, Clear
<1>3. ASSUME pc'[e] = pc[e], flushed'[e] = flushed[e], held'[e] = held[e],
             result'[e] = result[e], cache'[Path(e)] = cache[Path(e)],
             disk'[Path(e)] = disk[Path(e)] \/ disk'[Path(e)] = cache[Path(e)]
      PROVE  Filed(e)'
  <2>1. /\ pc[e] \in {"closing", "killing", "reaping"} => Holds(e)
        /\ pc[e] = "detaching" /\ result[e] = "OK" => Holds(e)
    BY DEF Holds, Saving, Active, Phases
  <2>. QED BY <1>1, <1>2, <1>3, <2>1 DEF Filed, Saved
<1>4. CASE AnyStep(e)
  BY <1>1, <1>4, OwnFile, MemoryUntouched
<1>5. ASSUME NEW f \in Engines \ {e}, AnyStep(f) PROVE Filed(e)'
  BY <1>1, <1>3, <1>5, OnlyActor, OthersFile DEF Local, Clear
<1>6. ASSUME NEW t \in Targets, EntersStop(t) \/ Computes(t) \/ DiesAlone(t)
      PROVE  Filed(e)'
  BY <1>3, <1>6 DEF EntersStop, Computes, DiesAlone, engineVars, fileVars
<1>7. ASSUME NEW p \in Paths, Writeback(p) PROVE Filed(e)'
  BY <1>1, <1>3, <1>7 DEF Writeback, engineVars, TypeOK
<1>8. CASE UNCHANGED vars
  BY <1>3, <1>8 DEF vars, engineVars, fileVars
<1>. QED BY <1>4, <1>5, <1>6, <1>7, <1>8 DEF Next, AnyStep

(* A target an engine has ended was saved, and stays saved. *)
LEMMA EndedStep ==
    ASSUME TypeOK, TracerOK, CountersOK, FrozenOK, HeldOK, FileOK, [Next]_vars,
           NEW t \in Targets, NEW e \in Engines, killer'[t] = e
    PROVE  Ended(t, e)'
<1>1. /\ Path(e)' = Path(e) /\ Target(e)' = Target(e) /\ (Clear(e)' <=> Clear(e))
      /\ Path(e) \in Paths /\ Target(e) \in Targets
      /\ killer \in [Targets -> Engines \cup {NoEngine}]
      /\ pc \in [Engines -> Phases] /\ alive \in [Targets -> BOOLEAN]
      /\ NoEngine \notin Engines
  BY ConfigFixed, TargetType, NoneAssumption DEF Clear, OwnsPath, Path, Target, TypeOK
(* Once ended, nothing about it changes any more. *)
<1>2. ASSUME Ended(t, e), ~alive'[t], pc'[e] = pc[e], result'[e] = result[e],
             mem'[t] = mem[t],
             Clear(e) => \/ /\ cache'[Path(e)] = cache[Path(e)]
                          /\ disk'[Path(e)] = disk[Path(e)]
                       \/ /\ cache'[Path(e)] = cache[Path(e)]
                          /\ disk'[Path(e)] = cache[Path(e)]
      PROVE  Ended(t, e)'
  BY <1>1, <1>2 DEF Ended, Saved, Image
<1>3. CASE AnyStep(e)
  <2>1. CASE Ended(t, e)
    <3>1. Reaped(e) \/ EngineDies(e)
      BY <1>3, <2>1 DEF Ended, AnyStep, EngineStep, Refused, Seize, Interrupt, Waited, Collect,
         CollectFails, Open, OpenFails, WritePart, WriteFails, Spill, PayloadDone, Flush, Fsync,
         SyncFails, Close, CloseFails, Kill, KillFails, Detach
    <3>2. pc'[e] \in {"done", "crashed"} /\ UNCHANGED <<alive, result, mem, cache, disk>>
      BY <1>1, <3>1 DEF Reaped, EngineDies, GoTo, fileVars
    <3>. QED BY <1>1, <2>1, <3>2 DEF Ended, Saved, Image
  <2>2. CASE ~Ended(t, e)
    <3>1. killer[t] # e
      BY <2>2 DEF FileOK
    <3>2. killer' = killer \/ (Kill(e) /\ killer' = [killer EXCEPT ![Target(e)] = e])
      BY <1>3 DEF AnyStep, EngineStep, targetVars, Refused, Seize, Interrupt, Waited, Collect,
         CollectFails, Open, OpenFails, WritePart, WriteFails, Spill, PayloadDone, Flush, Fsync,
         SyncFails, Close, CloseFails, Kill, KillFails, Reaped, Detach, EngineDies
    <3>3. Kill(e) /\ t = Target(e)
      BY <1>1, <3>1, <3>2
    <3>4. ~alive'[t] /\ pc'[e] = "reaping" /\ result'[e] = "OK"
      BY <1>1, <3>3 DEF Kill, GoTo, CountersOK, Counters
    <3>5. Clear(e) => Saved(e)
      BY <3>3 DEF Kill, FileOK, Filed
    <3>6. Saved(e) => Saved(e)'
      BY <1>1, <3>3 DEF Kill, Saved, Image, fileVars
    <3>. QED BY <1>1, <3>3, <3>4, <3>5, <3>6 DEF Ended
  <2>. QED BY <2>1, <2>2
<1>4. ASSUME NEW f \in Engines \ {e}, AnyStep(f) PROVE Ended(t, e)'
  <2>1. killer[t] = e
    BY <1>1, <1>4 DEF AnyStep, EngineStep, targetVars, Refused, Seize, Interrupt, Waited, Collect,
       CollectFails, Open, OpenFails, WritePart, WriteFails, Spill, PayloadDone, Flush, Fsync,
       SyncFails, Close, CloseFails, Kill, KillFails, Reaped, Detach, EngineDies
  <2>2. alive' = alive \/ alive' = [alive EXCEPT ![Target(f)] = FALSE]
    BY <1>4 DEF AnyStep, EngineStep, targetVars, Refused, Seize, Interrupt, Waited, Collect,
       CollectFails, Open, OpenFails, WritePart, WriteFails, Spill, PayloadDone, Flush, Fsync,
       SyncFails, Close, CloseFails, Kill, KillFails, Reaped, Detach, EngineDies
  <2>3. Ended(t, e) /\ ~alive'[t]
    BY <1>1, <2>1, <2>2 DEF FileOK, Ended
  <2>. QED BY <1>2, <1>4, <2>3, OnlyActor, OthersFile, MemoryUntouched DEF Local, Clear
<1>5. ASSUME NEW u \in Targets, EntersStop(u) \/ Computes(u) \/ DiesAlone(u)
      PROVE  Ended(t, e)'
  <2>1. killer[t] = e /\ Ended(t, e)
    BY <1>5 DEF EntersStop, Computes, DiesAlone, FileOK
  <2>2. ~alive'[t] /\ mem'[t] = mem[t]
    BY <1>1, <1>5, <2>1 DEF EntersStop, Computes, DiesAlone, Ended, TypeOK
  <2>. QED BY <1>2, <1>5, <2>1, <2>2 DEF EntersStop, Computes, DiesAlone, engineVars, fileVars
<1>6. ASSUME NEW p \in Paths, Writeback(p) PROVE Ended(t, e)'
  <2>1. killer[t] = e /\ Ended(t, e)
    BY <1>6 DEF Writeback, targetVars, FileOK
  <2>2. disk'[Path(e)] = disk[Path(e)] \/ disk'[Path(e)] = cache[Path(e)]
    BY <1>1, <1>6 DEF Writeback, TypeOK
  <2>. QED BY <1>2, <1>6, <2>1, <2>2 DEF Writeback, engineVars, targetVars, Ended
<1>7. CASE UNCHANGED vars
  BY <1>2, <1>7 DEF vars, engineVars, targetVars, fileVars, FileOK, Ended
<1>. QED BY <1>3, <1>4, <1>5, <1>6, <1>7 DEF Next, AnyStep

-----------------------------------------------------------------------------

(* The invariant holds at the start ... *)
LEMMA InitIInv == Init => IInv
<1>. SUFFICES ASSUME Init PROVE IInv
  OBVIOUS
<1>1. TypeOK
  BY InitType
<1>2. TracerOK /\ CountersOK /\ FrozenOK /\ HeldOK /\ FileOK
  BY <1>1, TargetType, CellsAssumption, NoneAssumption
  DEF Init, TracerOK, CountersOK, Counters, FrozenOK, Holds, HeldOK, HasRead, FileOK, Filed,
      Active, Saving, Phases
<1>. QED BY <1>1, <1>2 DEF IInv

(* ... and no step breaks it. *)
LEMMA NextIInv == IInv /\ [Next]_vars => IInv'
<1>. SUFFICES ASSUME IInv, [Next]_vars PROVE IInv'
  OBVIOUS
<1>1. TypeOK /\ TracerOK /\ CountersOK /\ FrozenOK /\ HeldOK /\ FileOK
  BY DEF IInv
<1>2. TypeOK' /\ TracerOK' /\ CountersOK' /\ FrozenOK' /\ HeldOK'
  BY <1>1, NextType, TracerStep, CountersStep, FrozenStep, HeldStep
<1>3. FileOK'
  BY <1>1, FiledStep, EndedStep DEF FileOK
<1>. QED BY <1>2, <1>3 DEF IInv

(* The invariant all the results rest on: who holds which target, how far   *)
(* each engine has come, and what of its target is in its memory, in the    *)
(* file and on the disk at each step of dump() (dumper.c:70-185, 540-671).  *)
THEOREM InductiveInvariant == Spec => []IInv
<1>. QED BY InitIInv, NextIInv, PTL DEF Spec

(* Every variable of dump() keeps to its domain (dumper.c:70-185). *)
THEOREM TypeCorrect == Spec => []TypeOK
<1>1. IInv => TypeOK
  BY DEF IInv
<1>. QED BY <1>1, InductiveInvariant, PTL

(* Whatever fails and whoever is killed, no target is left in a stop that   *)
(* nobody will end (dumper.c:100).                                          *)
THEOREM NoTargetLeftStopped == Spec => []NeverLeftStopped
<1>1. IInv => NeverLeftStopped
  BY DEF IInv, TracerOK, NeverLeftStopped, Active
<1>. QED BY <1>1, InductiveInvariant, PTL

(* A dump reported as failed has not ended its target (dumper.c:162). *)
THEOREM FailureSpares == Spec => []FailedDumpSpares
<1>1. IInv => FailedDumpSpares
  BY DEF IInv, FileOK, Ended, FailedDumpSpares
<1>. QED BY <1>1, InductiveInvariant, PTL

(* What -k ends is on the disk, whole and as it was (dumper.c:160-176,      *)
(* 655-661), for a single-threaded target and a file of its own.            *)
THEOREM KilledTargetSurvives == Spec => []KilledIsOnDisk
<1>1. IInv => KilledIsOnDisk
  BY DEF IInv, FileOK, Ended, Saved, Clear, KilledIsOnDisk
<1>. QED BY <1>1, InductiveInvariant, PTL

(* A dump that ends with success ends on a file that is the state its       *)
(* target has at that very step (dumper.c:152, 647-668), although the parts *)
(* were read one after the other: the invariant keeps the target frozen     *)
(* until the detach and the whole of it in the file.                        *)
THEOREM SuccessfulDumpIsConsistent == Spec => SuccessIsConsistent
<1>1. ASSUME IInv, [Next]_vars, NEW e \in Engines,
             pc[e] # "done", pc'[e] = "done", result'[e] = "OK",
             OwnsPath(e), Target(e) \notin Threaded
      PROVE  cache'[Path(e)] = Image(Target(e))'
  <2>0. /\ TypeOK /\ Counters(e) /\ Filed(e) /\ result \in [Engines -> {"OK", "ERROR"}]
        /\ pc \in [Engines -> Phases]
    BY <1>1 DEF IInv, TypeOK, CountersOK, FileOK, Clear
  <2>1. Reaped(e) \/ Detach(e) \/ Refused(e)
    <3>1. CASE AnyStep(e)
      BY <1>1, <2>0, <3>1 DEF AnyStep, EngineStep, GoTo, Seize, Interrupt, Waited, Collect,
         CollectFails, Open, OpenFails, WritePart, WriteFails, Spill, PayloadDone, Flush,
         Fsync, SyncFails, Close, CloseFails, Kill, KillFails, EngineDies, Epilogue
    <3>2. ASSUME NEW f \in Engines \ {e}, AnyStep(f) PROVE FALSE
      BY <1>1, <2>0, <3>2, OnlyActor DEF Local
    <3>3. ASSUME NEW t \in Targets, EntersStop(t) \/ Computes(t) \/ DiesAlone(t) PROVE FALSE
      BY <1>1, <3>3 DEF EntersStop, Computes, DiesAlone, engineVars
    <3>4. ASSUME NEW p \in Paths, Writeback(p) PROVE FALSE
      BY <1>1, <3>4 DEF Writeback, engineVars
    <3>5. CASE UNCHANGED vars
      BY <1>1, <3>5 DEF vars, engineVars
    <3>. QED BY <1>1, <3>1, <3>2, <3>3, <3>4, <3>5 DEF Next, AnyStep
  <2>2. CASE Refused(e)
    BY <1>1, <2>0, <2>2 DEF Refused, Counters
  <2>3. CASE Reaped(e)
    BY <2>0, <2>3 DEF Reaped, Filed, Saved, Image, Target, Path, fileVars
  <2>4. CASE Detach(e)
    <3>1. result[e] = "OK"
      BY <1>1, <2>0, <2>4 DEF Detach
    <3>2. cache[Path(e)] = Image(Target(e))
      BY <2>0, <2>4, <3>1 DEF Detach, Filed, Saved
    <3>. QED BY <2>4, <3>2 DEF Detach, Image, Target, Path, fileVars
  <2>. QED BY <2>1, <2>2, <2>3, <2>4
<1>2. IInv /\ [Next]_vars =>
        [\A e \in Engines :
           (/\ pc[e] # "done" /\ pc'[e] = "done" /\ result'[e] = "OK"
            /\ OwnsPath(e) /\ Target(e) \notin Threaded)
           => cache'[Path(e)] = Image(Target(e))']_vars
  BY <1>1
<1>. QED BY <1>2, InductiveInvariant, PTL DEF Spec, SuccessIsConsistent

-----------------------------------------------------------------------------
(***************************************************************************)
(* What a dump leaves behind, complete or not, is the beginning of its     *)
(* snapshot.  This needs an invariant of its own, since it holds of the    *)
(* threaded targets as well: ReadOK, every cell an engine has read is      *)
(* there; and PrefixOK, a file that is being written holds the parts that  *)
(* have left the engine's buffer and no other.                             *)
(***************************************************************************)
ReadOK == \A e \in Engines : \A i \in HasRead(e) : held[e][i] # Nothing

Writing(e) == pc[e] \in {"writing", "flushing", "syncing", "closing"}

(* A file holds exactly the first n parts. *)
UpTo(file, n) == \A i \in Cells : file[i] # Nothing <=> i <= n

NoHole(file) == \A i \in Cells \ {Last} : file[i] = Nothing => file[i + 1] = Nothing

PrefixOK ==
    \A e \in Engines : OwnsPath(e) =>
        /\ Writing(e) => UpTo(cache[Path(e)], flushed[e])
        /\ NoHole(cache[Path(e)])

PInv == TypeOK /\ CountersOK /\ ReadOK /\ PrefixOK

(* A file that ends after part n has no hole. *)
LEMMA UpToHasNoHole ==
    ASSUME NEW file, NEW n \in 0 .. Last, UpTo(file, n)
    PROVE  NoHole(file)
<1>. SUFFICES ASSUME NEW i \in Cells \ {Last}, file[i] = Nothing
              PROVE  file[i + 1] = Nothing
  BY DEF NoHole
<1>1. i \in Cells /\ i + 1 \in Cells /\ i \in Int
  BY CellFacts
<1>2. ~(i <= n)
  BY <1>1 DEF UpTo
<1>3. ~(i + 1 <= n)
  BY <1>1, <1>2, CellFacts
<1>. QED BY <1>1, <1>3 DEF UpTo

(* An engine never forgets a cell it has read. *)
LEMMA ReadStep ==
    ASSUME TypeOK, CountersOK, ReadOK, [Next]_vars
    PROVE  ReadOK'
<1>0. /\ pc \in [Engines -> Phases] /\ at \in [Engines -> 0 .. Last]
      /\ held \in [Engines -> [Cells -> Stored \cup {Nothing}]]
      /\ Nothing \notin Stored
  BY NoneAssumption DEF TypeOK
<1>1. SUFFICES ASSUME NEW e \in Engines, NEW i \in HasRead(e)'
               PROVE  held'[e][i] # Nothing
  BY DEF ReadOK
<1>2. ASSUME i \in HasRead(e), held'[e][i] = held[e][i] PROVE held'[e][i] # Nothing
  BY <1>2 DEF ReadOK
<1>3. CASE AnyStep(e) /\ ~Collect(e) /\ ~WritePart(e)
  BY <1>2, <1>3, ReadsLess
<1>4. ASSUME Collect(e) \/ WritePart(e) PROVE held'[e][i] # Nothing
  <2>0. Image(Target(e)) \in [Cells -> Stored] /\ i \in Cells
    BY ImageType, TargetType DEF HasRead
  <2>1. CASE Collect(e)
    <3>1. i \in 1 .. at[e] + 1 /\ i \in Cells
      BY <1>0, <2>1, CellFacts DEF Collect, GoTo, HasRead
    <3>2. held'[e][i] = IF i = at[e] + 1 THEN Image(Target(e))[i] ELSE held[e][i]
      BY <1>0, <2>1, <3>1 DEF Collect
    <3>3. i # at[e] + 1 => i \in HasRead(e)
      BY <1>0, <2>1, <3>1 DEF Collect, HasRead
    <3>. QED BY <1>0, <2>0, <3>2, <3>3 DEF ReadOK
  <2>2. CASE WritePart(e)
    <3>1. i \in Cells /\ (i <= Collected \/ i <= at[e] + 1)
      BY <1>0, <2>2, CellFacts DEF WritePart, HasRead
    <3>2. held'[e][i] = IF i = at[e] + 1 /\ i > Collected THEN Image(Target(e))[i]
                                                         ELSE held[e][i]
      BY <1>0, <2>2, <3>1, CellFacts DEF WritePart
    <3>3. (i = at[e] + 1 /\ i > Collected) \/ i \in HasRead(e)
      BY <1>0, <2>2, <3>1, CellFacts DEF WritePart, HasRead
    <3>. QED BY <1>0, <2>0, <3>2, <3>3 DEF ReadOK
  <2>. QED BY <1>4, <2>1, <2>2
<1>5. ASSUME NEW f \in Engines \ {e}, AnyStep(f) PROVE held'[e][i] # Nothing
  <2>1. i \in HasRead(e) /\ held'[e][i] = held[e][i]
    BY <1>5, OnlyActor DEF Local, HasRead
  <2>. QED BY <1>2, <2>1
<1>6. ASSUME NEW t \in Targets, EntersStop(t) \/ Computes(t) \/ DiesAlone(t)
      PROVE  held'[e][i] # Nothing
  <2>1. i \in HasRead(e) /\ held'[e][i] = held[e][i]
    BY <1>6 DEF EntersStop, Computes, DiesAlone, engineVars, HasRead
  <2>. QED BY <1>2, <2>1
<1>7. ASSUME NEW p \in Paths, Writeback(p) PROVE held'[e][i] # Nothing
  <2>1. i \in HasRead(e) /\ held'[e][i] = held[e][i]
    BY <1>7 DEF Writeback, engineVars, HasRead
  <2>. QED BY <1>2, <2>1
<1>8. CASE UNCHANGED vars
  <2>1. i \in HasRead(e) /\ held'[e][i] = held[e][i]
    BY <1>8 DEF vars, engineVars, HasRead
  <2>. QED BY <1>2, <2>1
<1>. QED BY <1>3, <1>4, <1>5, <1>6, <1>7, <1>8 DEF Next, AnyStep

(* Writing out the buffer up to part n leaves exactly the parts up to n. *)
LEMMA PushKeepsPrefix ==
    ASSUME TypeOK, ReadOK, NEW e \in Engines, Writing(e), UpTo(cache[Path(e)], flushed[e]),
           NEW n \in flushed[e] .. at[e], Push(e, n)
    PROVE  UpTo(cache'[Path(e)], flushed'[e]) /\ flushed'[e] = n /\ n \in 0 .. Last
<1>0. /\ flushed \in [Engines -> 0 .. Last] /\ at \in [Engines -> 0 .. Last]
      /\ cache \in [Paths -> [Cells -> Stored \cup {Nothing}]] /\ Path(e) \in Paths
  BY TargetType DEF TypeOK
<1>1. n \in 0 .. Last /\ flushed[e] <= n /\ n <= at[e]
  BY <1>0, CellFacts
<1>2. cache'[Path(e)] = Written(e, n) /\ flushed'[e] = n
  BY <1>0 DEF Push
<1>3. ASSUME NEW i \in Cells PROVE Written(e, n)[i] # Nothing <=> i <= n
  <2>0. i \in Int /\ Written(e, n)[i] = IF flushed[e] < i /\ i <= n THEN held[e][i]
                                                                  ELSE cache[Path(e)][i]
    BY CellFacts DEF Written
  <2>1. CASE flushed[e] < i /\ i <= n
    <3>1. i \in HasRead(e)
      BY <1>0, <1>1, <2>0, <2>1 DEF HasRead, Writing
    <3>. QED BY <2>0, <2>1, <3>1 DEF ReadOK
  <2>2. CASE ~(flushed[e] < i /\ i <= n)
    <3>1. i <= n <=> i <= flushed[e]
      BY <1>0, <1>1, <2>0, <2>2
    <3>. QED BY <2>0, <2>2, <3>1 DEF UpTo
  <2>. QED BY <2>1, <2>2
<1>. QED BY <1>1, <1>2, <1>3 DEF UpTo

(* The file of an engine keeps to a prefix under each of its own steps. *)
LEMMA OwnPrefix ==
    ASSUME PInv, NEW e \in Engines, OwnsPath(e), AnyStep(e)
    PROVE  /\ Writing(e)' => UpTo(cache'[Path(e)], flushed'[e])
           /\ NoHole(cache'[Path(e)])
<1>0. /\ TypeOK /\ CountersOK /\ ReadOK /\ Counters(e)
      /\ pc \in [Engines -> Phases] /\ at \in [Engines -> 0 .. Last]
      /\ flushed \in [Engines -> 0 .. Last]
      /\ cache \in [Paths -> [Cells -> Stored \cup {Nothing}]] /\ Path(e) \in Paths
      /\ Writing(e) => UpTo(cache[Path(e)], flushed[e])
      /\ NoHole(cache[Path(e)])
  BY TargetType DEF PInv, TypeOK, CountersOK, PrefixOK
<1>. USE <1>0 DEF GoTo
<1>1. CASE Open(e)
  <2>1. cache'[Path(e)] = EmptyFile /\ flushed'[e] = 0 /\ 0 \in 0 .. Last
    BY <1>1, CellFacts DEF Open, Counters
  <2>2. UpTo(EmptyFile, 0)
    BY CellFacts DEF UpTo, EmptyFile
  <2>. QED BY <2>1, <2>2, UpToHasNoHole
<1>2. ASSUME NEW n \in flushed[e] .. at[e], Writing(e), Push(e, n)
      PROVE  UpTo(cache'[Path(e)], flushed'[e]) /\ NoHole(cache'[Path(e)])
  <2>1. UpTo(cache'[Path(e)], flushed'[e]) /\ flushed'[e] \in 0 .. Last
    BY <1>2, PushKeepsPrefix
  <2>. QED BY <2>1, UpToHasNoHole
<1>3. CASE Spill(e)
  <2>1. flushed[e] + 1 \in flushed[e] .. at[e] /\ Writing(e) /\ Push(e, flushed[e] + 1)
    BY <1>3 DEF Spill, Writing
  <2>. QED BY <1>2, <2>1
<1>4. CASE Flush(e) \/ Close(e)
  <2>1. Writing(e) /\ Push(e, at[e])
    BY <1>4 DEF Flush, Close, Writing
  <2>2. at[e] \in flushed[e] .. at[e]
    BY <2>1, CellFacts DEF Writing, Counters
  <2>. QED BY <1>2, <2>1, <2>2
<1>5. CASE ~Open(e) /\ ~Spill(e) /\ ~Flush(e) /\ ~Close(e)
  <2>1. cache' = cache /\ flushed' = flushed
    BY <1>5 DEF AnyStep, EngineStep, fileVars, Refused, Seize, Interrupt, Waited, Collect,
       CollectFails, OpenFails, WritePart, WriteFails, PayloadDone, Fsync, SyncFails,
       CloseFails, Kill, KillFails, Reaped, Detach, EngineDies
  <2>2. Writing(e)' => Writing(e)
    BY <1>5 DEF Writing, AnyStep, EngineStep, Epilogue, Refused, Seize, Interrupt, Waited,
       Collect, CollectFails, OpenFails, WritePart, WriteFails, PayloadDone, Fsync, SyncFails,
       CloseFails, Kill, KillFails, Reaped, Detach, EngineDies
  <2>. QED BY <2>1, <2>2
<1>. QED BY <1>1, <1>3, <1>4, <1>5

(* A step of anybody else leaves the file and its writer as they were. *)
LEMMA PrefixStep ==
    ASSUME PInv, [Next]_vars
    PROVE  PrefixOK'
<1>. SUFFICES ASSUME NEW e \in Engines, OwnsPath(e)'
              PROVE  /\ Writing(e)' => UpTo(cache'[Path(e)'], flushed'[e])
                     /\ NoHole(cache'[Path(e)'])
  BY DEF PrefixOK, UpTo, NoHole
<1>1. OwnsPath(e) /\ Path(e)' = Path(e) /\ TypeOK /\ Path(e) \in Paths
  BY ConfigFixed, TargetType DEF OwnsPath, Path, PInv
<1>2. ASSUME pc'[e] = pc[e], flushed'[e] = flushed[e], cache'[Path(e)] = cache[Path(e)]
      PROVE  /\ Writing(e)' => UpTo(cache'[Path(e)'], flushed'[e])
             /\ NoHole(cache'[Path(e)'])
  BY <1>1, <1>2 DEF Writing, PInv, PrefixOK
<1>3. CASE AnyStep(e)
  BY <1>1, <1>3, OwnPrefix
<1>4. ASSUME NEW f \in Engines \ {e}, AnyStep(f)
      PROVE  pc'[e] = pc[e] /\ flushed'[e] = flushed[e] /\ cache'[Path(e)] = cache[Path(e)]
  BY <1>1, <1>4, OnlyActor, OthersFile DEF Local
<1>5. ASSUME NEW t \in Targets, EntersStop(t) \/ Computes(t) \/ DiesAlone(t)
      PROVE  pc'[e] = pc[e] /\ flushed'[e] = flushed[e] /\ cache'[Path(e)] = cache[Path(e)]
  BY <1>5 DEF EntersStop, Computes, DiesAlone, engineVars, fileVars
<1>6. ASSUME NEW p \in Paths, Writeback(p)
      PROVE  pc'[e] = pc[e] /\ flushed'[e] = flushed[e] /\ cache'[Path(e)] = cache[Path(e)]
  BY <1>6 DEF Writeback, engineVars
<1>7. ASSUME UNCHANGED vars
      PROVE  pc'[e] = pc[e] /\ flushed'[e] = flushed[e] /\ cache'[Path(e)] = cache[Path(e)]
  BY <1>7 DEF vars, engineVars, fileVars
<1>. QED BY <1>2, <1>3, <1>4, <1>5, <1>6, <1>7 DEF Next, AnyStep

(* Every file starts out empty or complete. *)
LEMMA InitPInv == Init => PInv
<1>. SUFFICES ASSUME Init PROVE PInv
  OBVIOUS
<1>1. TypeOK /\ CountersOK
  BY InitIInv DEF IInv
<1>2. ReadOK
  BY DEF Init, ReadOK, HasRead
<1>3. UpTo(EmptyFile, 0) /\ UpTo(OldSnapshot, Last) /\ 0 \in 0 .. Last /\ Last \in 0 .. Last
  BY CellFacts, NoneAssumption, WritesAssumption DEF UpTo, EmptyFile, OldSnapshot, Stored
<1>4. PrefixOK
  BY <1>1, <1>3, UpToHasNoHole, TargetType DEF Init, PrefixOK, Writing
<1>. QED BY <1>1, <1>2, <1>4 DEF PInv

(* A dump whose path is its own and that fails, or is killed, at any step   *)
(* leaves the beginning of its snapshot in the page cache and never one     *)
(* with a hole (dumper.c:638-668), which the size checks of the restore     *)
(* recognise (restorer.c:324-343).  Nothing is said of the disk.            *)
THEOREM FilesArePrefixes == Spec => []LeavesPrefix
<1>1. PInv /\ [Next]_vars => PInv'
  BY NextType, CountersStep, ReadStep, PrefixStep DEF PInv
<1>2. PInv => LeavesPrefix
  BY DEF PInv, PrefixOK, NoHole, LeavesPrefix
<1>. QED BY <1>1, <1>2, InitPInv, PTL DEF Spec

-----------------------------------------------------------------------------

(***************************************************************************)
(* The refinement of Snapshot, and the reader of RoundTrip.                *)
(*                                                                         *)
(* Both results are about dumps that are not given one another's files:    *)
(* two dumps of one name do mix their parts (the run dump_shared).         *)
(*                                                                         *)
(* The invariant of the refinement, SInv, adds to the invariants above     *)
(* what a dump that is about to report success has on the disk,            *)
(* DeliveredOK: FileOK says it of single-threaded targets, where the file  *)
(* is the frozen target; a threaded target still gets a whole file.        *)
(***************************************************************************)

Apart == \A e \in Engines : OwnsPath(e)

(* Engine e has its payload written and synced, and nothing has failed since. *)
Succeeding(e) ==
    pc[e] \in {"closing", "killing", "reaping", "detaching", "done"} /\ result[e] = "OK"

(* Engine e owes its snapshot, whatever becomes of it. *)
Owes(e) == Succeeding(e) \/ killer[Target(e)] = e

Delivered(e) ==
    /\ Owes(e) => disk[Path(e)] = cache[Path(e)] /\ UpTo(cache[Path(e)], Last)
    /\ pc[e] \in {"killing", "reaping"} => config[e].kill
    /\ pc[e] = "reaping" => ~alive[Target(e)]
    /\ pc[e] = "detaching" /\ result[e] = "OK" => ~config[e].kill

DeliveredOK == \A e \in Engines : Delivered(e)

SInv == Apart /\ IInv /\ PInv /\ DeliveredOK

-----------------------------------------------------------------------------

(* Who owns a file does not change: the command lines do not. *)
LEMMA StaysApart == Apart /\ [Next]_vars => Apart'
BY ConfigFixed DEF Apart, OwnsPath, Path

(* An engine has ended its target only behind its kill(). *)
LEMMA NotYet ==
    ASSUME IInv, NEW e \in Engines, pc[e] \notin {"reaping", "done", "crashed"}
    PROVE  killer[Target(e)] # e
<1>1. Target(e) \in Targets
  BY TargetType DEF IInv
<1>. QED BY <1>1 DEF IInv, FileOK, Ended

(* Nobody else ends a target in its place, and a dead target stays dead. *)
LEMMA KillerStays ==
    ASSUME IInv, [Next]_vars, NEW e \in Engines, pc'[e] = pc[e]
    PROVE  /\ killer'[Target(e)] = e <=> killer[Target(e)] = e
           /\ ~alive[Target(e)] => ~alive'[Target(e)]
<1>1. /\ Target(e) \in Targets /\ TypeOK
      /\ killer[Target(e)] = e => ~alive[Target(e)]
  BY TargetType DEF IInv, FileOK, Ended
<1>2. ASSUME NEW f \in Engines, AnyStep(f), ~Kill(f) PROVE killer' = killer /\ alive' = alive
  BY <1>2 DEF AnyStep, EngineStep, targetVars, Refused, Seize, Interrupt, Waited, Collect,
     CollectFails, Open, OpenFails, WritePart, WriteFails, Spill, PayloadDone, Flush, Fsync,
     SyncFails, Close, CloseFails, KillFails, Reaped, Detach, EngineDies
<1>3. ASSUME NEW f \in Engines, Kill(f)
      PROVE  /\ f # e /\ alive' = [alive EXCEPT ![Target(f)] = FALSE]
             /\ killer' = IF alive[Target(f)] THEN [killer EXCEPT ![Target(f)] = f] ELSE killer
  <2>1. pc'[f] = "reaping" /\ pc[f] = "killing"
    BY <1>1, <1>3 DEF Kill, GoTo, TypeOK
  <2>. QED BY <1>3, <2>1 DEF Kill
<1>4. ASSUME NEW f \in Engines, Kill(f)
      PROVE  /\ killer'[Target(e)] = e <=> killer[Target(e)] = e
             /\ ~alive[Target(e)] => ~alive'[Target(e)]
  <2>1. alive'[Target(e)] => alive[Target(e)]
    BY <1>1, <1>3, <1>4 DEF TypeOK
  <2>2. CASE Target(f) = Target(e)
    BY <1>1, <1>3, <1>4, <2>1, <2>2, NoneAssumption DEF TypeOK
  <2>3. CASE Target(f) # Target(e)
    BY <1>1, <1>3, <1>4, <2>1, <2>3 DEF TypeOK
  <2>. QED BY <2>1, <2>2, <2>3
<1>5. ASSUME NEW t \in Targets, EntersStop(t) \/ Computes(t) \/ DiesAlone(t)
      PROVE  /\ killer' = killer
             /\ ~alive[Target(e)] => ~alive'[Target(e)]
  BY <1>1, <1>5 DEF EntersStop, Computes, DiesAlone, TypeOK
<1>6. ASSUME NEW p \in Paths, Writeback(p) PROVE killer' = killer /\ alive' = alive
  BY <1>6 DEF Writeback, targetVars
<1>7. CASE UNCHANGED vars
  BY <1>7 DEF vars, targetVars
<1>. QED BY <1>2, <1>4, <1>5, <1>6, <1>7 DEF Next, AnyStep

(* What an engine has delivered after one of its own steps. *)
LEMMA OwnDelivery ==
    ASSUME SInv, NEW e \in Engines, AnyStep(e)
    PROVE  Delivered(e)'
<1>0. /\ TypeOK /\ Counters(e) /\ Delivered(e) /\ OwnsPath(e)
      /\ Writing(e) => UpTo(cache[Path(e)], flushed[e])
      /\ pc \in [Engines -> Phases] /\ result \in [Engines -> {"OK", "ERROR"}]
      /\ flushed \in [Engines -> 0 .. Last] /\ at \in [Engines -> 0 .. Last]
      /\ cache \in [Paths -> [Cells -> Stored \cup {Nothing}]]
      /\ disk \in [Paths -> [Cells -> Stored \cup {Nothing}]]
      /\ Path(e) \in Paths /\ Path(e)' = Path(e) /\ config' = config
  BY TargetType, OnlyActor
  DEF SInv, IInv, PInv, PrefixOK, CountersOK, DeliveredOK, Apart, TypeOK, Path
<1>0a. IInv /\ Target(e) \in Targets
  BY <1>0, TargetType DEF SInv
<1>. USE <1>0, <1>0a DEF GoTo
<1>1. CASE Refused(e) \/ Seize(e) \/ Interrupt(e) \/ Waited(e) \/ Collect(e) \/ CollectFails(e)
           \/ Open(e) \/ OpenFails(e) \/ WritePart(e) \/ WriteFails(e) \/ Spill(e)
           \/ PayloadDone(e) \/ Flush(e) \/ SyncFails(e) \/ CloseFails(e) \/ KillFails(e)
  <2>1. ~Succeeding(e)' /\ pc'[e] \notin {"killing", "reaping"} /\ (pc'[e] = "detaching" => result'[e] # "OK")
    BY <1>1 DEF Succeeding, Counters, Epilogue, Push, Refused, Seize, Interrupt, Waited, Collect,
       CollectFails, Open, OpenFails, WritePart, WriteFails, Spill, PayloadDone, Flush,
       SyncFails, CloseFails, KillFails
  <2>2. ~Owes(e)'
    <3>1. killer' = killer /\ pc[e] \notin {"reaping", "done", "crashed"}
      BY <1>1 DEF Refused, Seize, Interrupt, Waited, Collect, CollectFails, Open, OpenFails,
         WritePart, WriteFails, Spill, PayloadDone, Flush, SyncFails, CloseFails, KillFails,
         targetVars
    <3>. QED BY <2>1, <3>1, NotYet DEF Owes, Target
  <2>. QED BY <2>1, <2>2 DEF Delivered
<1>1a. CASE EngineDies(e)
  <2>1. pc'[e] = "crashed" /\ killer' = killer /\ cache' = cache /\ disk' = disk
    BY <1>1a DEF EngineDies, fileVars
  <2>. QED BY <2>1 DEF Owes, Succeeding, Delivered, UpTo, Target
<1>2. CASE Fsync(e)
  <2>1. UpTo(cache[Path(e)], Last)
    BY <1>2 DEF Fsync, Counters, Writing
  <2>. QED BY <1>2, <2>1 DEF Fsync, Delivered, UpTo
<1>3. CASE Close(e)
  <2>1. CASE result[e] = "OK"
    <3>1. Written(e, at[e]) = cache[Path(e)]
      BY <1>3, <2>1, CellFacts DEF Close, Counters, Written
    <3>2. cache' = cache /\ disk' = disk /\ Succeeding(e)
      BY <1>3, <2>1, <3>1 DEF Close, Push, Succeeding
    <3>. QED BY <1>3, <2>1, <3>2 DEF Close, Epilogue, Delivered, Owes, UpTo
  <2>2. CASE result[e] # "OK"
    BY <1>3, <2>2, NotYet DEF Close, Epilogue, Delivered, Owes, Succeeding, Target, targetVars
  <2>. QED BY <2>1, <2>2
<1>4. CASE Kill(e)
  BY <1>4 DEF Kill, Counters, Delivered, Owes, Succeeding, UpTo, Target, TypeOK, fileVars
<1>4a. CASE Reaped(e)
  BY <1>4a DEF Reaped, Counters, Delivered, Owes, Succeeding, UpTo, Target, fileVars
<1>5. CASE Detach(e)
  <2>1. /\ pc'[e] = "done" /\ (result'[e] = "OK" => result[e] = "OK")
        /\ disk' = disk /\ cache' = cache /\ killer' = killer
    BY <1>5 DEF Detach, fileVars
  <2>. QED BY <1>5, <2>1 DEF Detach, Delivered, Owes, Succeeding, UpTo, Target
<1>. QED BY <1>1, <1>1a, <1>2, <1>3, <1>4, <1>4a, <1>5 DEF AnyStep, EngineStep

(* What was delivered stays where it is, whoever takes the step. *)
LEMMA DeliveryStep ==
    ASSUME SInv, [Next]_vars
    PROVE  DeliveredOK'
<1>. SUFFICES ASSUME NEW e \in Engines PROVE Delivered(e)'
  BY DEF DeliveredOK
<1>1. /\ TypeOK /\ Delivered(e) /\ OwnsPath(e) /\ config' = config
      /\ Path(e)' = Path(e) /\ Path(e) \in Paths
  BY ConfigFixed, TargetType DEF SInv, IInv, Apart, DeliveredOK, Path
<1>2. ASSUME pc'[e] = pc[e], result'[e] = result[e], cache'[Path(e)] = cache[Path(e)],
             disk'[Path(e)] = disk[Path(e)] \/ disk'[Path(e)] = cache[Path(e)]
      PROVE  Delivered(e)'
  <2>1. /\ killer'[Target(e)] = e <=> killer[Target(e)] = e
        /\ ~alive[Target(e)] => ~alive'[Target(e)]
    BY <1>2, KillerStays DEF SInv
  <2>. QED BY <1>1, <1>2, <2>1 DEF Delivered, Owes, Succeeding, UpTo, Target
<1>3. CASE AnyStep(e)
  BY <1>3, OwnDelivery
<1>4. ASSUME NEW f \in Engines \ {e}, AnyStep(f) PROVE Delivered(e)'
  BY <1>1, <1>2, <1>4, OnlyActor, OthersFile DEF Local
<1>5. ASSUME NEW t \in Targets, EntersStop(t) \/ Computes(t) \/ DiesAlone(t)
      PROVE  Delivered(e)'
  BY <1>2, <1>5 DEF EntersStop, Computes, DiesAlone, engineVars, fileVars
<1>6. ASSUME NEW p \in Paths, Writeback(p) PROVE Delivered(e)'
  BY <1>1, <1>2, <1>6 DEF Writeback, engineVars, TypeOK
<1>7. CASE UNCHANGED vars
  BY <1>2, <1>7 DEF vars, engineVars, fileVars
<1>. QED BY <1>3, <1>4, <1>5, <1>6, <1>7 DEF Next, AnyStep

(* The invariant holds at the start ... *)
LEMMA InitSInv == Init /\ Apart => SInv
<1>1. ASSUME Init, NEW e \in Engines PROVE Delivered(e)
  <2>1. Target(e) \in Targets
    BY <1>1, InitType, TargetType
  <2>2. killer[Target(e)] # e /\ pc[e] = "start"
    BY <1>1, <2>1, NoneAssumption DEF Init
  <2>. QED BY <2>2 DEF Delivered, Owes, Succeeding
<1>. QED BY <1>1, InitIInv, InitPInv DEF SInv, DeliveredOK

(* ... and no step breaks it. *)
LEMMA NextSInv == SInv /\ [Next]_vars => SInv'
<1>. SUFFICES ASSUME SInv, [Next]_vars PROVE SInv'
  OBVIOUS
<1>1. IInv' /\ Apart' /\ DeliveredOK'
  BY NextIInv, StaysApart, DeliveryStep DEF SInv
<1>2. PInv'
  BY NextType, CountersStep, ReadStep, PrefixStep DEF SInv, PInv
<1>. QED BY <1>1, <1>2 DEF SInv
-----------------------------------------------------------------------------
(***************************************************************************)
(* The refinement, one kind of step after the other.                       *)
(***************************************************************************)

(* Nobody else's outcome, and no snapshot that is somebody's, changes. *)
OthersEndings(e) ==
    \A f \in Engines \ {e} : Outcome(f)' = Outcome(f) /\ SavedBy(f)' = SavedBy(f)

(* An engine that stands still has the outcome, and the snapshot, it had. *)
LEMMA StandsStill ==
    ASSUME SInv, [Next]_vars, NEW f \in Engines, ~AnyStep(f),
           pc'[f] = pc[f], result'[f] = result[f]
    PROVE  Outcome(f)' = Outcome(f) /\ SavedBy(f)' = SavedBy(f)
<1>1. /\ TypeOK /\ Delivered(f) /\ OwnsPath(f)
      /\ Path(f)' = Path(f) /\ Path(f) \in Paths
      /\ result \in [Engines -> {"OK", "ERROR"}] /\ pc \in [Engines -> Phases]
  BY ConfigFixed, TargetType DEF SInv, IInv, Apart, DeliveredOK, Path, TypeOK
<1>2. Outcome(f)' = Outcome(f)
  BY DEF Outcome
<1>3. disk'[Path(f)] = disk[Path(f)] \/ disk'[Path(f)] = cache[Path(f)]
  <2>1. ASSUME NEW e \in Engines, AnyStep(e) PROVE disk'[Path(f)] = disk[Path(f)]
    <3>1. f \in Engines \ {e}
      BY <2>1
    <3>. QED BY <1>1, <2>1, <3>1, OthersFile
  <2>2. ASSUME NEW t \in Targets, EntersStop(t) \/ Computes(t) \/ DiesAlone(t)
        PROVE  disk'[Path(f)] = disk[Path(f)]
    BY <2>2 DEF EntersStop, Computes, DiesAlone, fileVars
  <2>3. ASSUME NEW p \in Paths, Writeback(p)
        PROVE  disk'[Path(f)] = disk[Path(f)] \/ disk'[Path(f)] = cache[Path(f)]
    BY <1>1, <2>3 DEF Writeback, TypeOK
  <2>4. CASE UNCHANGED vars
    BY <2>4 DEF vars, fileVars
  <2>. QED BY <2>1, <2>2, <2>3, <2>4 DEF Next, AnyStep
<1>4. Outcome(f) = "OK" \/ killer[Target(f)] = f => Owes(f)
  BY <1>1 DEF Outcome, Owes, Succeeding
<1>5. killer'[Target(f)'] = f <=> killer[Target(f)] = f
  BY KillerStays, ConfigFixed DEF SInv, Target
<1>. QED BY <1>1, <1>2, <1>3, <1>4, <1>5 DEF SavedBy, Delivered

(* A step of an engine is nothing to the outcome of another. *)
LEMMA StepSparesOthers ==
    ASSUME SInv, NEW e \in Engines, AnyStep(e)
    PROVE  OthersEndings(e)
<1>1. TypeOK /\ [Next]_vars
  BY DEF SInv, IInv, AnyStep, Next
<1>2. ASSUME NEW f \in Engines \ {e}
      PROVE  Outcome(f)' = Outcome(f) /\ SavedBy(f)' = SavedBy(f)
  <2>1. pc'[f] = pc[f] /\ result'[f] = result[f] /\ config' = config
    BY <1>1, OnlyActor DEF Local
  <2>2. Outcome(f)' = Outcome(f)
    BY <2>1 DEF Outcome
  <2>3. disk'[Path(f)] = disk[Path(f)]
    <3>1. OwnsPath(f) /\ e \in Engines \ {f}
      BY DEF SInv, Apart
    <3>. QED BY <1>1, <3>1, OthersFile
  <2>4. killer'[Target(f)'] = f <=> killer[Target(f)] = f
    BY <1>1, <2>1, KillerStays DEF SInv, Target
  <2>. QED BY <2>1, <2>2, <2>3, <2>4 DEF SavedBy, Path
<1>. QED BY <1>2 DEF OthersEndings

(* The outcomes and the snapshots, as Snapshot sees them. *)
Outcomes == [e \in Engines |-> Outcome(e)]
AllSaved == [e \in Engines |-> SavedBy(e)]

(* A dump that goes on with its work takes no step of Snapshot. *)
LEMMA InnerStutters ==
    ASSUME SInv, NEW e \in Engines, Inner(e) \/ Seize(e)
    PROVE  /\ Outcomes' = Outcomes /\ AllSaved' = AllSaved
           /\ UNCHANGED <<config, mem, alive, killer>>
<1>1. AnyStep(e) /\ TypeOK
  BY DEF Inner, AnyStep, EngineStep, SInv, IInv
<1>2. UNCHANGED <<config, mem, alive, killer>> /\ Outcome(e) = "running" /\ Outcome(e)' = "running"
  <2>1. CASE Inner(e)
    BY <1>1, <2>1, InnerAdvances DEF Advances, Active, Outcome
  <2>2. CASE Seize(e)
    BY <1>1, <2>2 DEF Seize, GoTo, Outcome, TypeOK
  <2>. QED BY <2>1, <2>2
<1>2a. killer[Target(e)] # e /\ killer'[Target(e)'] # e
  <2>1. pc[e] \notin {"reaping", "done", "crashed"}
    BY <1>1, InnerAdvances DEF Advances, Active, Seize
  <2>. QED BY <1>2, <2>1, NotYet DEF SInv, Target
<1>3. SavedBy(e) = EmptyFile /\ SavedBy(e)' = EmptyFile
  BY <1>2, <1>2a DEF SavedBy, EmptyFile
<1>4. \A f \in Engines : Outcome(f)' = Outcome(f) /\ SavedBy(f)' = SavedBy(f)
  BY <1>1, <1>2, <1>3, StepSparesOthers DEF OthersEndings
<1>. QED BY <1>2, <1>4 DEF Outcomes, AllSaved

(* A step of a dump changes its own outcome and snapshot, and no other. *)
LEMMA EndsAlone ==
    ASSUME SInv, NEW e \in Engines, AnyStep(e)
    PROVE  /\ Outcomes' = [Outcomes EXCEPT ![e] = Outcome(e)']
           /\ AllSaved' = [AllSaved EXCEPT ![e] = SavedBy(e)']
<1>1. \A f \in Engines \ {e} : Outcome(f)' = Outcome(f) /\ SavedBy(f)' = SavedBy(f)
  BY StepSparesOthers DEF OthersEndings
<1>. QED BY <1>1 DEF Outcomes, AllSaved

(* What a dump that is about to report success has on the disk is a copy   *)
(* as Snapshot asks for it.                                                *)
LEMMA DeliveredIsCopy ==
    ASSUME SInv, NEW e \in Engines, pc[e] \in {"killing", "reaping", "detaching"}, result[e] = "OK"
    PROVE  /\ disk[Path(e)] \in [Cells -> Stored]
           /\ Target(e) \notin Threaded => disk[Path(e)] = Image(Target(e))
<1>1. /\ TypeOK /\ Delivered(e) /\ OwnsPath(e) /\ Path(e) \in Paths
      /\ disk[Path(e)] \in [Cells -> Stored \cup {Nothing}]
  BY TargetType DEF SInv, IInv, Apart, DeliveredOK, TypeOK
<1>2. \A i \in Cells : disk[Path(e)][i] # Nothing
  BY <1>1, CellFacts DEF Delivered, Owes, Succeeding, UpTo
<1>3. disk[Path(e)] \in [Cells -> Stored]
  <2>. DEFINE file == disk[Path(e)]
  <2>1. file = [i \in Cells |-> file[i]] /\ \A i \in Cells : file[i] \in Stored
    BY <1>1, <1>2
  <2>. HIDE DEF file
  <2>2. file \in [Cells -> Stored]
    BY <2>1
  <2>. QED BY <2>2 DEF file
<1>4. Target(e) \notin Threaded => disk[Path(e)] = Image(Target(e))
  BY <1>1 DEF SInv, IInv, FileOK, Clear, Filed, Saved
<1>. QED BY <1>3, <1>4

(* The end of a dump, in each of the ways dump() or its process ends. *)
LEMMA EndMaps ==
    ASSUME SInv, NEW e \in Engines,
           Refused(e) \/ Kill(e) \/ Reaped(e) \/ Detach(e) \/ EngineDies(e)
    PROVE  Promise!Next \/ UNCHANGED Promise!vars
<1>0. /\ AnyStep(e) /\ TypeOK /\ Counters(e) /\ Delivered(e) /\ IInv
      /\ pc \in [Engines -> Phases] /\ result \in [Engines -> {"OK", "ERROR"}]
      /\ alive \in [Targets -> BOOLEAN] /\ Target(e) \in Targets
      /\ killer \in [Targets -> Engines \cup {NoEngine}]
  BY TargetType
  DEF AnyStep, EngineStep, SInv, IInv, CountersOK, DeliveredOK, TypeOK
<1>1. Outcome(e) = "running" /\ Outcomes[e] = "running"
  BY <1>0 DEF Outcome, Outcomes, Refused, Kill, Reaped, Detach, EngineDies, Phases
<1>2. /\ Outcomes' = [Outcomes EXCEPT ![e] = Outcome(e)']
      /\ AllSaved' = [AllSaved EXCEPT ![e] = SavedBy(e)']
  BY <1>0, EndsAlone
<1>3. ASSUME Outcome(e)' = "ERROR", killer[Target(e)] # e,
             UNCHANGED <<config, mem, alive, killer>>
      PROVE  Promise!Next
  <2>1. SavedBy(e) = EmptyFile /\ SavedBy(e)' = EmptyFile
    BY <1>1, <1>3 DEF SavedBy, EmptyFile, Target
  <2>2. AllSaved' = AllSaved
    BY <1>2, <2>1 DEF AllSaved
  <2>3. Promise!Fails(e)
    BY <1>1, <1>2, <1>3, <2>2
    DEF Promise!Fails, Promise!Ends, Promise!HasEnded, Outcomes, AllSaved, Target
  <2>. QED BY <2>3 DEF Promise!Next
(* The disk holds the copy; whether it is one already depends on the killer. *)
<1>4. ASSUME pc[e] \in {"killing", "reaping", "detaching"}, result[e] = "OK",
             SavedBy(e)' = disk[Path(e)]
      PROVE  Promise!Copies(e)
  <2>1. /\ disk[Path(e)] \in [Cells -> Stored]
        /\ config[e].pid \notin Threaded => disk[Path(e)] = Promise!Image(config[e].pid)
    BY <1>4, DeliveredIsCopy DEF Image, Promise!Image, Target
  <2>2. AllSaved' = [AllSaved EXCEPT ![e] = disk[Path(e)]]
    BY <1>2, <1>4
  <2>. QED BY <2>1, <2>2 DEF Promise!Copies, AllSaved
<1>5. CASE Refused(e)
  <2>1. /\ Outcome(e)' = "ERROR" /\ UNCHANGED <<config, mem, alive, killer>>
        /\ pc[e] = "start"
    BY <1>0, <1>5 DEF Refused, GoTo, Outcome, Counters, targetVars
  <2>. QED BY <1>0, <1>3, <2>1, NotYet
<1>6. CASE EngineDies(e)
  <2>1. /\ Outcome(e)' = "crashed"
        /\ UNCHANGED <<config, mem, alive, killer>> /\ disk' = disk
    BY <1>0, <1>6 DEF EngineDies, GoTo, Outcome, fileVars
  <2>2. SavedBy(e)' = SavedBy(e)
    BY <1>1, <2>1 DEF SavedBy, EmptyFile, Target, Path
  <2>3. AllSaved' = AllSaved
    BY <1>2, <2>2 DEF AllSaved
  <2>4. Promise!Crashes(e)
    BY <1>1, <1>2, <2>1, <2>3 DEF Promise!Crashes, Promise!Ends, Outcomes, AllSaved
  <2>. QED BY <2>4 DEF Promise!Next
<1>7. CASE Kill(e)
  <2>1. result[e] = "OK" /\ config[e].kill /\ pc[e] = "killing" /\ killer[Target(e)] # e
    BY <1>0, <1>7, NotYet DEF Kill, Counters, Delivered
  <2>2. /\ Outcome(e)' = "running" /\ disk' = disk /\ config' = config /\ mem' = mem
        /\ alive' = [alive EXCEPT ![Target(e)] = FALSE]
        /\ killer' = IF alive[Target(e)] THEN [killer EXCEPT ![Target(e)] = e] ELSE killer
    BY <1>0, <1>7 DEF Kill, GoTo, Outcome, fileVars
  <2>3. Outcomes' = Outcomes
    BY <1>1, <1>2, <2>2 DEF Outcomes
  <2>4. CASE alive[Target(e)]
    <3>1. SavedBy(e)' = disk[Path(e)]
      BY <1>0, <2>2, <2>4 DEF SavedBy, Target, Path
    <3>2. Promise!Copies(e)
      BY <1>4, <2>1, <3>1
    <3>3. Promise!Kills(e)
      BY <1>1, <2>1, <2>2, <2>3, <2>4, <3>2 DEF Promise!Kills, Target, Outcomes
    <3>. QED BY <3>3 DEF Promise!Next
  <2>5. CASE ~alive[Target(e)]
    <3>1. killer' = killer /\ alive' = alive
      BY <1>0, <2>2, <2>5
    <3>2. SavedBy(e)' = EmptyFile /\ SavedBy(e) = EmptyFile
      BY <1>1, <2>1, <2>2, <3>1 DEF SavedBy, EmptyFile, Target
    <3>3. AllSaved' = AllSaved
      BY <1>2, <3>2 DEF AllSaved
    <3>. QED BY <2>2, <2>3, <3>1, <3>3 DEF Promise!vars, Outcomes, AllSaved
  <2>. QED BY <2>4, <2>5
<1>8. CASE Reaped(e)
  <2>1. /\ result[e] = "OK" /\ config[e].kill /\ pc[e] = "reaping"
        /\ ~alive[Target(e)]
    BY <1>0, <1>8 DEF Reaped, Counters, Delivered
  <2>2. Outcome(e)' = "OK" /\ disk' = disk /\ UNCHANGED <<config, mem, alive, killer>>
    BY <1>0, <1>8, <2>1 DEF Reaped, GoTo, Outcome, fileVars
  <2>3. SavedBy(e)' = disk[Path(e)]
    BY <2>2 DEF SavedBy, Path
  <2>4. Promise!Ends(e, "OK")
    BY <1>1, <1>2, <2>2 DEF Promise!Ends, Outcomes
  <2>5. CASE killer[Target(e)] = e
    <3>1. SavedBy(e) = disk[Path(e)]
      BY <2>5 DEF SavedBy
    <3>2. AllSaved' = AllSaved
      BY <1>2, <2>3, <3>1 DEF AllSaved
    <3>3. Promise!SucceedsWithKill(e)
      BY <2>1, <2>2, <2>4, <2>5, <3>2
      DEF Promise!SucceedsWithKill, Promise!HasEnded, Target, AllSaved
    <3>. QED BY <3>3 DEF Promise!Next
  <2>6. CASE killer[Target(e)] # e
    <3>1. Promise!Copies(e)
      BY <1>4, <2>1, <2>3
    <3>2. Promise!SucceedsWithKill(e)
      BY <2>1, <2>2, <2>4, <2>6, <3>1
      DEF Promise!SucceedsWithKill, Promise!HasEnded, Target
    <3>. QED BY <3>2 DEF Promise!Next
  <2>. QED BY <2>5, <2>6
<1>9. CASE Detach(e) /\ result[e] = "OK" /\ alive[Target(e)]
  <2>1. ~config[e].kill /\ pc[e] = "detaching"
    BY <1>0, <1>9 DEF Detach, Delivered
  <2>2. Outcome(e)' = "OK" /\ disk' = disk /\ UNCHANGED <<config, mem, alive, killer>>
    BY <1>0, <1>9 DEF Detach, GoTo, Outcome, fileVars
  <2>3. SavedBy(e)' = disk[Path(e)]
    BY <2>2 DEF SavedBy, Path
  <2>4. Promise!Ends(e, "OK") /\ Promise!Copies(e)
    BY <1>1, <1>2, <1>4, <1>9, <2>1, <2>2, <2>3 DEF Promise!Ends, Outcomes
  <2>5. Promise!Succeeds(e)
    BY <1>9, <2>1, <2>2, <2>4 DEF Promise!Succeeds, Target
  <2>. QED BY <2>5 DEF Promise!Next
<1>10. CASE Detach(e) /\ ~(result[e] = "OK" /\ alive[Target(e)])
  <2>1. /\ Outcome(e)' = "ERROR" /\ UNCHANGED <<config, mem, alive, killer>>
        /\ pc[e] = "detaching"
    BY <1>0, <1>10 DEF Detach, GoTo, Outcome
  <2>. QED BY <1>0, <1>3, <2>1, NotYet
<1>. QED BY <1>5, <1>6, <1>7, <1>8, <1>9, <1>10

(* What an engine does not control is the same in both. *)
LEMMA OutsideMaps ==
    ASSUME SInv, [Next]_vars, \A e \in Engines : ~AnyStep(e)
    PROVE  [Promise!Next]_(Promise!vars)
<1>1. pc' = pc /\ result' = result /\ config' = config
  BY DEF Next, AnyStep, EntersStop, Computes, DiesAlone, Writeback, vars, engineVars
<1>2. Outcomes' = Outcomes /\ AllSaved' = AllSaved
  <2>1. \A e \in Engines : Outcome(e)' = Outcome(e) /\ SavedBy(e)' = SavedBy(e)
    BY <1>1, StandsStill
  <2>. QED BY <2>1 DEF Outcomes, AllSaved
<1>3. ASSUME NEW t \in Targets, Computes(t) PROVE Promise!Next
  <2>1. Promise!Computes(t)
    BY <1>1, <1>2, <1>3 DEF Computes, Promise!Computes, Outcomes, AllSaved
  <2>. QED BY <2>1 DEF Promise!Next
<1>4. ASSUME NEW t \in Targets, DiesAlone(t) PROVE Promise!Next
  <2>1. Promise!DiesAlone(t)
    BY <1>1, <1>2, <1>4 DEF DiesAlone, Promise!DiesAlone, Outcomes, AllSaved
  <2>. QED BY <2>1 DEF Promise!Next
<1>5. ASSUME UNCHANGED <<mem, alive, killer>> PROVE UNCHANGED Promise!vars
  BY <1>1, <1>2, <1>5 DEF Promise!vars, Outcomes, AllSaved
<1>6. ASSUME NEW t \in Targets, EntersStop(t) PROVE UNCHANGED <<mem, alive, killer>>
  BY <1>6 DEF EntersStop
<1>7. ASSUME NEW p \in Paths, Writeback(p) PROVE UNCHANGED <<mem, alive, killer>>
  BY <1>7 DEF Writeback, targetVars
<1>8. ASSUME UNCHANGED vars PROVE UNCHANGED <<mem, alive, killer>>
  BY <1>8 DEF vars, targetVars
<1>. QED BY <1>3, <1>4, <1>5, <1>6, <1>7, <1>8 DEF Next, AnyStep

(* Each step of Dump is a step of Snapshot or changes nothing it speaks of. *)
LEMMA StepMaps == SInv /\ [Next]_vars => [Promise!Next]_(Promise!vars)
<1>. SUFFICES ASSUME SInv, [Next]_vars PROVE [Promise!Next]_(Promise!vars)
  OBVIOUS
<1>1. ASSUME NEW e \in Engines, Inner(e) \/ Seize(e) PROVE UNCHANGED Promise!vars
  BY <1>1, InnerStutters DEF Promise!vars, Outcomes, AllSaved
<1>2. ASSUME NEW e \in Engines,
             Refused(e) \/ Kill(e) \/ Reaped(e) \/ Detach(e) \/ EngineDies(e)
      PROVE  Promise!Next \/ UNCHANGED Promise!vars
  BY <1>2, EndMaps
<1>3. CASE \E e \in Engines : AnyStep(e)
  BY <1>1, <1>2, <1>3 DEF AnyStep, EngineStep, Inner
<1>4. CASE \A e \in Engines : ~AnyStep(e)
  BY <1>4, OutsideMaps
<1>. QED BY <1>3, <1>4

(* Dump starts as Snapshot does: nothing is over, nothing is saved. *)
LEMMA InitMaps == Init => Promise!Init
BY TargetType, InitType, NoneAssumption DEF Init, Promise!Init, Outcome, SavedBy, EmptyFile

(* A dump is an atomic copy that is on the disk, or no copy and a target    *)
(* nothing happened to (dumper.c:70-185, 540-671), for any number of        *)
(* engines, targets, cells and files, whatever fails and whoever is killed, *)
(* when no two dumps are given the same file.  An engine killed after its   *)
(* -k ended the target (dumper.c:164-168) has made that copy all the same.  *)
THEOREM DumpImplementsSnapshot == Spec /\ Apart => ImplementsSnapshot
<1>. QED
  BY InitSInv, NextSInv, StepMaps, InitMaps, PTL DEF Spec, Promise!Spec, ImplementsSnapshot

-----------------------------------------------------------------------------
(***************************************************************************)
(* What a restore reads.  ShapeOK: a file holds what its engine has        *)
(* written of it so far, also after that engine has ended, or what it held *)
(* before.  ReadersOK: what a reader has read is still in the file, as     *)
(* long as nobody has emptied it, and what was restored is the copy of the *)
(* one engine that wrote all of the file.                                  *)
(***************************************************************************)
RTypeOK ==
    /\ source      \in [Readers -> Paths]
    /\ stage       \in [Readers -> Stages]
    /\ got         \in [Readers -> Seq(Stored \cup {Nothing})]
    /\ undisturbed \in [Readers -> BOOLEAN]

(* The file of engine e holds the parts that have left its buffer. *)
Laid(e) ==
    /\ UpTo(cache[Path(e)], flushed[e])
    /\ \A i \in 1 .. flushed[e] : cache[Path(e)][i] = held[e][i]

Shape(e) ==
    \/ Laid(e)
    \/ ~Writing(e) /\ flushed[e] = 0 /\ cache[Path(e)] = OldSnapshot

Unwritten(p) ==
    (\A e \in Engines : Path(e) # p) => cache[p] \in {EmptyFile, OldSnapshot}

ShapeOK == /\ \A e \in Engines : Shape(e)
           /\ \A p \in Paths : Unwritten(p)

(* What reader r has read is what its file holds. *)
Agrees(r) ==
    \A i \in 1 .. Len(got[r]) : got[r][i] = cache[source[r]][i] /\ got[r][i] # Nothing

(* What reader r has restored is a whole snapshot, by one engine. *)
OneCopy(r) ==
    \/ got[r] = OldSnapshot
    \/ \E e \in Engines : /\ Path(e) = source[r] /\ flushed[e] = Last
                          /\ Complete(e) /\ got[r] = held[e]

Reading(r) == stage[r] \in {"header", "sizes", "tables"}

ReaderOK(r) ==
    /\ stage[r] \in {"start", "header"} => got[r] = <<>>
    /\ Len(got[r]) <= Last
    /\ Reading(r) /\ undisturbed[r] => Agrees(r)
    /\ stage[r] = "restored" /\ undisturbed[r] => OneCopy(r)

ReadersOK == \A r \in Readers : ReaderOK(r)

DInv == Apart /\ IInv /\ PInv /\ ShapeOK
RIInv == DInv /\ RTypeOK /\ ReadersOK

(* An engine changes its file only by emptying it or by writing out parts. *)
LEMMA HowFilesChange ==
    ASSUME TypeOK, CountersOK, NEW e \in Engines, AnyStep(e)
    PROVE  \/ /\ cache' = cache /\ flushed' = flushed
              /\ Writing(e)' => Writing(e)
           \/ Open(e)
           \/ /\ Writing(e) /\ held' = held
              /\ \E n \in flushed[e] .. at[e] : Push(e, n)
<1>0. /\ pc \in [Engines -> Phases] /\ at \in [Engines -> 0 .. Last]
      /\ flushed \in [Engines -> 0 .. Last] /\ Counters(e)
  BY DEF TypeOK, CountersOK
<1>. USE <1>0, CellFacts DEF GoTo
<1>1. CASE Spill(e)
  <2>1. flushed[e] + 1 \in flushed[e] .. at[e] /\ Writing(e) /\ held' = held
    BY <1>1 DEF Spill, Writing
  <2>. QED BY <1>1, <2>1 DEF Spill
<1>2. CASE Flush(e) \/ Close(e)
  <2>1. at[e] \in flushed[e] .. at[e] /\ Writing(e) /\ held' = held
    BY <1>2 DEF Flush, Close, Writing, Counters
  <2>. QED BY <1>2, <2>1 DEF Flush, Close
<1>3. CASE ~Open(e) /\ ~Spill(e) /\ ~Flush(e) /\ ~Close(e)
  <2>1. cache' = cache /\ flushed' = flushed
    BY <1>3 DEF AnyStep, EngineStep, fileVars, Refused, Seize, Interrupt, Waited, Collect,
       CollectFails, OpenFails, WritePart, WriteFails, PayloadDone, Fsync, SyncFails,
       CloseFails, Kill, KillFails, Reaped, Detach, EngineDies
  <2>2. Writing(e)' => Writing(e)
    BY <1>3 DEF Writing, AnyStep, EngineStep, Epilogue, Refused, Seize, Interrupt, Waited,
       Collect, CollectFails, OpenFails, WritePart, WriteFails, PayloadDone, Fsync, SyncFails,
       CloseFails, Kill, KillFails, Reaped, Detach, EngineDies
  <2>. QED BY <2>1, <2>2
<1>. QED BY <1>1, <1>2, <1>3

(* What an engine has written out it does not read again. *)
LEMMA WrittenIsKept ==
    ASSUME TypeOK, CountersOK, NEW e \in Engines, [Next]_vars, NEW i \in 1 .. flushed[e]
    PROVE  held'[e][i] = held[e][i]
<1>0. /\ pc \in [Engines -> Phases] /\ at \in [Engines -> 0 .. Last]
      /\ flushed \in [Engines -> 0 .. Last] /\ Counters(e)
      /\ held \in [Engines -> [Cells -> Stored \cup {Nothing}]]
  BY DEF TypeOK, CountersOK
<1>1. CASE AnyStep(e)
  <2>1. CASE Collect(e)
    BY <1>0, <2>1, CellFacts DEF Collect, Counters
  <2>2. CASE WritePart(e)
    BY <1>0, <2>2, CellFacts DEF WritePart, Counters
  <2>. QED BY <1>1, <2>1, <2>2, ReadsLess
<1>2. ASSUME NEW f \in Engines \ {e}, AnyStep(f) PROVE held'[e] = held[e]
  BY <1>2, OnlyActor DEF Local
<1>3. ASSUME NEW t \in Targets, EntersStop(t) \/ Computes(t) \/ DiesAlone(t)
      PROVE  held' = held
  BY <1>3 DEF EntersStop, Computes, DiesAlone, engineVars
<1>4. ASSUME NEW p \in Paths, Writeback(p) PROVE held' = held
  BY <1>4 DEF Writeback, engineVars
<1>5. CASE UNCHANGED vars
  BY <1>5 DEF vars, engineVars
<1>. QED BY <1>1, <1>2, <1>3, <1>4, <1>5 DEF Next, AnyStep

(* The file of an engine after one of its own steps. *)
LEMMA OwnShape ==
    ASSUME DInv, NEW e \in Engines, AnyStep(e)
    PROVE  Shape(e)'
<1>0. /\ TypeOK /\ CountersOK /\ ReadOK /\ Shape(e) /\ Counters(e) /\ [Next]_vars
      /\ pc \in [Engines -> Phases] /\ at \in [Engines -> 0 .. Last]
      /\ flushed \in [Engines -> 0 .. Last] /\ flushed[e] \in Int
      /\ cache \in [Paths -> [Cells -> Stored \cup {Nothing}]] /\ Path(e) \in Paths
      /\ Path(e)' = Path(e)
  <2>1. TypeOK /\ CountersOK /\ ReadOK /\ Shape(e) /\ Counters(e)
    BY DEF DInv, IInv, PInv, ShapeOK, CountersOK
  <2>2. [Next]_vars
    BY DEF AnyStep, Next
  <2>3. Path(e) \in Paths /\ Path(e)' = Path(e)
    BY <2>1, TargetType, OnlyActor DEF Path
  <2>. QED BY <2>1, <2>2, <2>3, CellFacts DEF TypeOK
<1>1. CASE Open(e)
  <2>1. cache'[Path(e)] = EmptyFile /\ flushed'[e] = 0
    BY <1>0, <1>1 DEF Open, Counters
  <2>2. UpTo(EmptyFile, 0)
    BY CellFacts DEF UpTo, EmptyFile
  <2>. QED BY <1>0, <2>1, <2>2 DEF Shape, Laid, UpTo
<1>2. ASSUME cache' = cache, flushed' = flushed, Writing(e)' => Writing(e) PROVE Shape(e)'
  <2>1. Laid(e) => Laid(e)'
    BY <1>0, <1>2, WrittenIsKept DEF Laid, UpTo
  <2>2. CASE ~Laid(e)
    <3>1. ~Writing(e)' /\ flushed'[e] = 0 /\ cache'[Path(e)] = OldSnapshot
      BY <1>0, <1>2, <2>2 DEF Shape
    <3>. QED BY <1>0, <3>1 DEF Shape, OldSnapshot
  <2>. QED BY <2>1, <2>2 DEF Shape
<1>3. ASSUME Writing(e), held' = held, NEW n \in flushed[e] .. at[e], Push(e, n)
      PROVE  Shape(e)'
  <2>1. Laid(e)
    BY <1>0, <1>3 DEF Shape
  <2>2. UpTo(cache'[Path(e)], flushed'[e]) /\ flushed'[e] = n /\ n \in 0 .. Last
    BY <1>0, <1>3, <2>1, PushKeepsPrefix DEF Laid
  <2>3. cache'[Path(e)] = Written(e, n)
    BY <1>0, <1>3 DEF Push
  <2>4. ASSUME NEW i \in 1 .. n PROVE cache'[Path(e)][i] = held[e][i]
    <3>1. i \in Cells /\ i \in Int /\ (flushed[e] < i \/ i \in 1 .. flushed[e])
      BY <1>0, <2>2, CellFacts
    <3>. QED BY <2>1, <2>3, <3>1 DEF Written, Laid
  <2>. QED BY <1>0, <1>3, <2>2, <2>4 DEF Shape, Laid, UpTo
<1>. QED BY <1>0, <1>1, <1>2, <1>3, HowFilesChange

(* Files keep their shape, whoever takes the step. *)
LEMMA ShapeStep ==
    ASSUME DInv, [Next]_vars
    PROVE  ShapeOK'
<1>0. TypeOK /\ CountersOK /\ config' = config /\ cache \in [Paths -> [Cells -> Stored \cup {Nothing}]]
  BY ConfigFixed DEF DInv, IInv, TypeOK
<1>1. ASSUME NEW e \in Engines PROVE Shape(e)'
  <2>0. Path(e)' = Path(e) /\ Shape(e) /\ OwnsPath(e)
    BY <1>0 DEF Path, DInv, ShapeOK, Apart
  <2>1. ASSUME pc'[e] = pc[e], flushed'[e] = flushed[e], cache'[Path(e)] = cache[Path(e)]
        PROVE  Shape(e)'
    <3>1. Laid(e) => Laid(e)'
      BY <1>0, <2>0, <2>1, WrittenIsKept DEF Laid, UpTo
    <3>. QED BY <2>0, <2>1, <3>1 DEF Shape, Writing, OldSnapshot
  <2>2. CASE AnyStep(e)
    BY <2>2, OwnShape
  <2>3. ASSUME NEW f \in Engines \ {e}, AnyStep(f) PROVE Shape(e)'
    BY <1>0, <2>0, <2>1, <2>3, OnlyActor, OthersFile DEF Local
  <2>4. ASSUME NEW t \in Targets, EntersStop(t) \/ Computes(t) \/ DiesAlone(t)
        PROVE  Shape(e)'
    BY <2>1, <2>4 DEF EntersStop, Computes, DiesAlone, engineVars, fileVars
  <2>5. ASSUME NEW p \in Paths, Writeback(p) PROVE Shape(e)'
    BY <2>1, <2>5 DEF Writeback, engineVars
  <2>6. CASE UNCHANGED vars
    BY <2>1, <2>6 DEF vars, engineVars, fileVars
  <2>. QED BY <2>2, <2>3, <2>4, <2>5, <2>6 DEF Next, AnyStep
<1>2. ASSUME NEW p \in Paths PROVE Unwritten(p)'
  <2>1. SUFFICES ASSUME \A e \in Engines : Path(e) # p PROVE cache'[p] = cache[p]
    BY <1>0 DEF Unwritten, Path, DInv, ShapeOK, EmptyFile, OldSnapshot
  <2>2. ASSUME NEW e \in Engines, AnyStep(e) PROVE cache'[p] = cache[p]
    BY <1>0, <2>1, <2>2, HowFilesChange DEF Open, Push
  <2>3. ASSUME NEW t \in Targets, EntersStop(t) \/ Computes(t) \/ DiesAlone(t)
        PROVE  cache' = cache
    BY <2>3 DEF EntersStop, Computes, DiesAlone, fileVars
  <2>4. ASSUME NEW q \in Paths, Writeback(q) PROVE cache' = cache
    BY <2>4 DEF Writeback
  <2>5. CASE UNCHANGED vars
    BY <2>5 DEF vars, fileVars
  <2>. QED BY <2>2, <2>3, <2>4, <2>5 DEF Next, AnyStep
<1>. QED BY <1>1, <1>2 DEF ShapeOK

(* A part that is in a file stays in it until somebody empties the file. *)
LEMMA PartStays ==
    ASSUME DInv, [Next]_vars, NEW p \in Paths, NEW i \in Cells, cache[p][i] # Nothing,
           \A e \in Engines : Path(e) = p => ~Open(e)
    PROVE  cache'[p][i] = cache[p][i]
<1>0. /\ TypeOK /\ CountersOK /\ \A e \in Engines : Shape(e)
      /\ cache \in [Paths -> [Cells -> Stored \cup {Nothing}]]
  BY DEF DInv, IInv, ShapeOK, TypeOK
<1>1. ASSUME NEW e \in Engines, AnyStep(e) PROVE cache'[p][i] = cache[p][i]
  <2>1. CASE Path(e) # p
    BY <1>0, <1>1, <2>1, HowFilesChange DEF Open, Push
  <2>2. ASSUME Path(e) = p, Writing(e), NEW n \in flushed[e] .. at[e], Push(e, n)
        PROVE  cache'[p][i] = cache[p][i]
    <3>1. i <= flushed[e] /\ flushed[e] \in Int /\ i \in Int
      BY <1>0, <2>2, CellFacts DEF Shape, Laid, UpTo, TypeOK
    <3>2. cache'[p] = Written(e, n)
      BY <1>0, <2>2 DEF Push
    <3>3. Written(e, n)[i] = cache[p][i]
      BY <2>2, <3>1 DEF Written
    <3>. QED BY <3>2, <3>3
  <2>. QED BY <1>0, <1>1, <2>1, <2>2, HowFilesChange
<1>2. ASSUME NEW t \in Targets, EntersStop(t) \/ Computes(t) \/ DiesAlone(t)
      PROVE  cache' = cache
  BY <1>2 DEF EntersStop, Computes, DiesAlone, fileVars
<1>3. ASSUME NEW q \in Paths, Writeback(q) PROVE cache' = cache
  BY <1>3 DEF Writeback
<1>4. CASE UNCHANGED vars
  BY <1>4 DEF vars, fileVars
<1>. QED BY <1>1, <1>2, <1>3, <1>4 DEF Next, AnyStep

(* An engine that has written everything has no more to read or to write. *)
LEMMA CompleteStays ==
    ASSUME DInv, [Next]_vars, NEW e \in Engines, flushed[e] = Last
    PROVE  flushed'[e] = Last /\ held'[e] = held[e]
<1>0. /\ TypeOK /\ CountersOK /\ Counters(e) /\ Last \in Nat /\ Last > 0
      /\ pc \in [Engines -> Phases] /\ at \in [Engines -> 0 .. Last]
      /\ flushed \in [Engines -> 0 .. Last]
      /\ held \in [Engines -> [Cells -> Stored \cup {Nothing}]]
      /\ held' \in [Engines -> [Cells -> Stored \cup {Nothing}]]
  <2>1. TypeOK /\ TypeOK' /\ CountersOK
    BY NextType DEF DInv, IInv
  <2>2. Last \in Nat /\ Last > 0
    BY CellFacts
  <2>. QED BY <2>1, <2>2 DEF TypeOK, CountersOK
<1>1. held'[e] = held[e]
  <2>1. \A i \in Cells : held'[e][i] = held[e][i]
    BY <1>0, WrittenIsKept, CellFacts
  <2>. QED BY <1>0, <2>1
<1>2. CASE AnyStep(e)
  <2>1. ~Open(e)
    BY <1>0 DEF Open, Counters
  <2>2. ASSUME Writing(e), NEW n \in flushed[e] .. at[e], Push(e, n) PROVE flushed'[e] = Last
    BY <1>0, <2>2 DEF Push
  <2>. QED BY <1>0, <1>1, <1>2, <2>1, <2>2, HowFilesChange
<1>3. ASSUME NEW f \in Engines \ {e}, AnyStep(f) PROVE flushed'[e] = flushed[e]
  BY <1>0, <1>3, OnlyActor DEF Local
<1>4. ASSUME NEW t \in Targets, EntersStop(t) \/ Computes(t) \/ DiesAlone(t)
      PROVE  flushed' = flushed
  BY <1>4 DEF EntersStop, Computes, DiesAlone, engineVars
<1>5. ASSUME NEW p \in Paths, Writeback(p) PROVE flushed' = flushed
  BY <1>5 DEF Writeback, engineVars
<1>6. CASE UNCHANGED vars
  BY <1>6 DEF vars, engineVars
<1>7. flushed'[e] = Last
  BY <1>2, <1>3, <1>4, <1>5, <1>6 DEF Next, AnyStep
<1>. QED BY <1>1, <1>7

(* Every file is the beginning of some snapshot. *)
LEMMA FileIsPrefix ==
    ASSUME DInv, NEW p \in Paths
    PROVE  \E n \in 0 .. Last : UpTo(cache[p], n)
<1>1. UpTo(EmptyFile, 0) /\ UpTo(OldSnapshot, Last) /\ 0 \in 0 .. Last /\ Last \in 0 .. Last
  BY CellFacts, NoneAssumption, WritesAssumption DEF UpTo, EmptyFile, OldSnapshot, Stored
<1>2. ASSUME NEW e \in Engines, Path(e) = p PROVE \E n \in 0 .. Last : UpTo(cache[p], n)
  <2>1. Shape(e) /\ flushed[e] \in 0 .. Last
    BY DEF DInv, ShapeOK, IInv, TypeOK
  <2>. QED BY <1>1, <1>2, <2>1 DEF Shape, Laid
<1>3. ASSUME \A e \in Engines : Path(e) # p PROVE \E n \in 0 .. Last : UpTo(cache[p], n)
  BY <1>1, <1>3 DEF DInv, ShapeOK, Unwritten
<1>. QED BY <1>2, <1>3

(* A size check that passes finds the part it is about. *)
LEMMA WithinFileHolds ==
    ASSUME DInv, NEW p \in Paths, NEW i \in Cells, WithinFile(p, i)
    PROVE  cache[p][i] # Nothing
<1>1. PICK n \in 0 .. Last : UpTo(cache[p], n)
  BY FileIsPrefix
<1>2. PICK j \in i .. Last : cache[p][j] # Nothing
  BY DEF WithinFile
<1>3. j \in Cells /\ j <= n /\ i <= n
  BY <1>1, <1>2, CellFacts DEF UpTo
<1>. QED BY <1>1, <1>3 DEF UpTo

(* A file read to its end is an earlier snapshot, or all one engine wrote. *)
LEMMA ReadWhole ==
    ASSUME DInv, NEW p \in Paths, \A i \in Cells : cache[p][i] # Nothing
    PROVE  \/ cache[p] = OldSnapshot
           \/ \E e \in Engines : /\ Path(e) = p /\ flushed[e] = Last
                                 /\ Complete(e) /\ cache[p] = held[e]
<1>0. /\ cache \in [Paths -> [Cells -> Stored \cup {Nothing}]]
      /\ held \in [Engines -> [Cells -> Stored \cup {Nothing}]]
      /\ flushed \in [Engines -> 0 .. Last]
  BY DEF DInv, IInv, TypeOK
<1>1. ASSUME NEW e \in Engines, Path(e) = p, Laid(e)
      PROVE  flushed[e] = Last /\ Complete(e) /\ cache[p] = held[e]
  <2>1. flushed[e] = Last
    BY <1>0, <1>1, CellFacts DEF Laid, UpTo
  <2>2. \A i \in Cells : cache[p][i] = held[e][i]
    BY <1>1, <2>1, CellFacts DEF Laid
  <2>. QED BY <1>0, <2>1, <2>2 DEF Complete
<1>2. ASSUME NEW e \in Engines, Path(e) = p, ~Laid(e) PROVE cache[p] = OldSnapshot
  BY <1>2 DEF DInv, ShapeOK, Shape
<1>3. ASSUME \A e \in Engines : Path(e) # p PROVE cache[p] = OldSnapshot
  BY <1>3, CellFacts DEF DInv, ShapeOK, Unwritten, EmptyFile
<1>. QED BY <1>1, <1>2, <1>3

(* A step of a dump leaves what was read true of the file, unless the dump *)
(* empties the file; and what was restored, the copy of that engine.       *)
LEMMA DumpStepReaders ==
    ASSUME RIInv, Next, Disturbs, UNCHANGED <<source, stage, got>>
    PROVE  RTypeOK' /\ ReadersOK'
<1>0. /\ DInv /\ RTypeOK /\ [Next]_vars /\ TypeOK /\ TypeOK'
      /\ pc \in [Engines -> Phases] /\ pc' \in [Engines -> Phases]
  <2>1. TypeOK /\ TypeOK'
    BY NextType DEF RIInv, DInv, IInv
  <2>. QED BY <2>1 DEF RIInv, TypeOK
<1>1. RTypeOK'
  BY <1>0 DEF RTypeOK, Disturbs, TypeOK, Stored
<1>2. ASSUME NEW r \in Readers PROVE ReaderOK(r)'
  <2>0. /\ ReaderOK(r) /\ (undisturbed'[r] => undisturbed[r]) /\ source[r] \in Paths
        /\ stage'[r] = stage[r] /\ got'[r] = got[r] /\ source'[r] = source[r]
        /\ got[r] \in Seq(Stored \cup {Nothing})
    BY <1>0 DEF RIInv, ReadersOK, RTypeOK, Disturbs
  <2>1. ASSUME Reading(r), undisturbed'[r] PROVE Agrees(r)'
    <3>1. \A e \in Engines : Path(e) = source[r] => ~Open(e)
      BY <1>0, <2>1 DEF Disturbs, Open, GoTo, Reading
    <3>2. ASSUME NEW i \in 1 .. Len(got[r])
          PROVE  got[r][i] = cache'[source[r]][i] /\ got[r][i] # Nothing
      <4>1. got[r][i] = cache[source[r]][i] /\ got[r][i] # Nothing
        BY <2>0, <2>1 DEF ReaderOK, Agrees
      <4>2. i \in Cells
        BY <2>0, <2>1, CellFacts DEF ReaderOK
      <4>. QED BY <1>0, <2>0, <3>1, <4>1, <4>2, PartStays
    <3>. QED BY <2>0, <3>2 DEF Agrees
  <2>2. OneCopy(r) => OneCopy(r)'
    <3>1. ASSUME NEW e \in Engines, Path(e) = source[r], flushed[e] = Last, Complete(e),
                 got[r] = held[e]
          PROVE  OneCopy(r)'
      <4>1. flushed'[e] = Last /\ held'[e] = held[e] /\ Path(e)' = Path(e)
        BY <1>0, <3>1, CompleteStays, ConfigFixed DEF Path
      <4>. QED BY <2>0, <3>1, <4>1 DEF OneCopy, Complete
    <3>. QED BY <2>0, <3>1 DEF OneCopy, OldSnapshot
  <2>. QED BY <2>0, <2>1, <2>2 DEF ReaderOK, Reading
<1>. QED BY <1>1, <1>2 DEF ReadersOK

(* A step of a reader adds to what it has read what the file holds. *)
LEMMA ReaderStepReaders ==
    ASSUME RIInv, NEW r \in Readers, ReaderStep(r), UNCHANGED vars
    PROVE  RTypeOK' /\ ReadersOK'
<1>0. /\ DInv /\ RTypeOK /\ ReaderOK(r)
      /\ cache \in [Paths -> [Cells -> Stored \cup {Nothing}]]
      /\ source \in [Readers -> Paths] /\ stage \in [Readers -> Stages]
      /\ got \in [Readers -> Seq(Stored \cup {Nothing})]
      /\ undisturbed \in [Readers -> BOOLEAN]
      /\ source[r] \in Paths /\ got[r] \in Seq(Stored \cup {Nothing})
      /\ Len(got[r]) \in Nat
  BY DEF RIInv, DInv, IInv, TypeOK, RTypeOK, ReadersOK
<1>1. UNCHANGED <<config, pc, flushed, held, cache, source, undisturbed>>
  BY DEF vars, engineVars, fileVars, ReaderStep, OpenSnapshot, ReadHeader, CheckSizes,
     ReadPart, ReadFails, Restored
<1>2. ASSUME NEW s \in Readers \ {r} PROVE ReaderOK(s)'
  <2>1. stage'[s] = stage[s] /\ got'[s] = got[s]
    BY <1>0 DEF ReaderStep, OpenSnapshot, ReadHeader, CheckSizes, ReadPart, ReadFails, Restored
  <2>2. ReaderOK(s)
    BY DEF RIInv, ReadersOK
  <2>. QED BY <1>1, <2>1, <2>2
       DEF ReaderOK, Reading, Agrees, OneCopy, Complete, OldSnapshot, Path
<1>3. /\ stage'[r] \in Stages /\ got'[r] \in Seq(Stored \cup {Nothing})
      /\ ReaderOK(r)'
  <2>1. CASE OpenSnapshot(r)
    BY <1>0, <1>1, <2>1 DEF OpenSnapshot, Stages, ReaderOK, Reading, Agrees
  <2>2. CASE ReadHeader(r)
    <3>0. 1 \in Cells /\ Last >= 1 /\ cache[source[r]][1] \in Stored \cup {Nothing}
      BY <1>0, CellFacts
    <3>1. CASE cache[source[r]][1] = Nothing
      BY <1>0, <1>1, <2>2, <3>1 DEF ReadHeader, Stages, ReaderOK, Reading
    <3>2. CASE cache[source[r]][1] # Nothing
      <4>1. stage'[r] = "sizes" /\ got'[r] = <<cache[source[r]][1]>>
        BY <1>0, <2>2, <3>2 DEF ReadHeader
      <4>2. Len(got'[r]) = 1 /\ got'[r][1] = cache[source[r]][1]
        BY <4>1
      <4>. QED BY <1>1, <3>0, <3>2, <4>1, <4>2 DEF Stages, ReaderOK, Reading, Agrees
    <3>. QED BY <3>1, <3>2
  <2>3. CASE CheckSizes(r)
    BY <1>0, <1>1, <2>3 DEF CheckSizes, Stages, ReaderOK, Reading, Agrees
  <2>4. CASE ReadPart(r)
    <3>. DEFINE i == Len(got[r]) + 1
    <3>0. i \in Cells /\ i <= Last /\ cache[source[r]][i] \in Stored \cup {Nothing}
      BY <1>0, <2>4, CellFacts DEF ReadPart
    <3>1. CASE ~WithinFile(source[r], i)
      BY <1>0, <1>1, <2>4, <3>1 DEF ReadPart, Stages, ReaderOK, Reading
    <3>2. CASE WithinFile(source[r], i)
      <4>1. stage'[r] = "tables" /\ stage[r] = "tables"
            /\ got'[r] = Append(got[r], cache[source[r]][i])
        BY <1>0, <2>4, <3>2 DEF ReadPart
      <4>2. cache[source[r]][i] # Nothing
        BY <1>0, <3>0, <3>2, WithinFileHolds
      <4>3. /\ Len(got'[r]) = i /\ got'[r][i] = cache[source[r]][i]
            /\ \A k \in 1 .. Len(got[r]) : got'[r][k] = got[r][k]
            /\ got'[r] \in Seq(Stored \cup {Nothing})
        BY <1>0, <3>0, <4>1
      <4>4. undisturbed[r] => Agrees(r)'
        <5>1. undisturbed[r] => Agrees(r)
          BY <1>0, <4>1 DEF ReaderOK, Reading
        <5>2. \A k \in 1 .. i : k = i \/ k \in 1 .. Len(got[r])
          BY <1>0
        <5>. QED BY <1>1, <4>2, <4>3, <5>1, <5>2 DEF Agrees
      <4>. QED BY <1>1, <3>0, <4>1, <4>3, <4>4 DEF Stages, ReaderOK, Reading
    <3>. QED BY <3>1, <3>2
  <2>5. CASE ReadFails(r)
    BY <1>0, <1>1, <2>5 DEF ReadFails, Stages, ReaderOK, Reading
  <2>6. CASE Restored(r)
    <3>1. stage'[r] = "restored" /\ got'[r] = got[r] /\ Len(got[r]) = Last /\ stage[r] = "tables"
      BY <1>0, <2>6 DEF Restored
    <3>2. ASSUME undisturbed[r] PROVE OneCopy(r)
      <4>1. \A i \in Cells : got[r][i] = cache[source[r]][i] /\ got[r][i] # Nothing
        BY <1>0, <3>1, <3>2, CellFacts DEF ReaderOK, Reading, Agrees
      <4>2. got[r] = cache[source[r]]
        <5>1. got[r] = [i \in 1 .. Last |-> got[r][i]]
          BY <1>0, <3>1
        <5>2. cache[source[r]] = [i \in 1 .. Last |-> cache[source[r]][i]]
          BY <1>0, CellFacts
        <5>. QED BY <4>1, <5>1, <5>2, CellFacts
      <4>. QED BY <1>0, <4>1, <4>2, ReadWhole DEF OneCopy
    <3>3. OneCopy(r) => OneCopy(r)'
      BY <1>1, <3>1 DEF OneCopy, Complete, OldSnapshot, Path
    <3>. QED BY <1>0, <1>1, <3>1, <3>2, <3>3 DEF Stages, ReaderOK, Reading
  <2>. QED BY <2>1, <2>2, <2>3, <2>4, <2>5, <2>6 DEF ReaderStep
<1>4. RTypeOK'
  <2>1. \A s \in Readers \ {r} : stage'[s] = stage[s] /\ got'[s] = got[s]
    BY <1>0 DEF ReaderStep, OpenSnapshot, ReadHeader, CheckSizes, ReadPart, ReadFails, Restored
  <2>2. stage' = [s \in Readers |-> stage'[s]] /\ got' = [s \in Readers |-> got'[s]]
    BY <1>0 DEF ReaderStep, OpenSnapshot, ReadHeader, CheckSizes, ReadPart, ReadFails, Restored
  <2>3. stage' \in [Readers -> Stages] /\ got' \in [Readers -> Seq(Stored \cup {Nothing})]
    BY <1>0, <1>3, <2>1, <2>2
  <2>. QED BY <1>0, <1>1, <2>3 DEF RTypeOK, Stored
<1>. QED BY <1>2, <1>3, <1>4 DEF ReadersOK

(* Files and readers start out in order ... *)
LEMMA InitRIInv == RInit /\ Apart => RIInv
<1>. SUFFICES ASSUME RInit, Apart PROVE RIInv
  OBVIOUS
<1>1. Init /\ IInv /\ PInv
  BY InitIInv, InitPInv DEF RInit
<1>2. RTypeOK
  BY DEF RInit, RTypeOK, Stages
<1>3. ReadersOK
  BY CellFacts DEF RInit, ReadersOK, ReaderOK, Reading
<1>4. ShapeOK
  <2>1. UpTo(EmptyFile, 0)
    BY CellFacts DEF UpTo, EmptyFile
  <2>2. \A e \in Engines : flushed[e] = 0 /\ ~Writing(e) /\ cache[Path(e)] \in {EmptyFile, OldSnapshot}
    BY <1>1, TargetType DEF Init, Writing, IInv
  <2>3. ASSUME NEW e \in Engines PROVE Shape(e)
    <3>1. flushed[e] = 0 /\ ~Writing(e)
      BY <2>2
    <3>2. CASE cache[Path(e)] = EmptyFile
      BY <2>1, <3>1, <3>2 DEF Shape, Laid
    <3>. QED BY <2>2, <3>1, <3>2 DEF Shape
  <2>4. \A p \in Paths : Unwritten(p)
    BY <1>1 DEF Init, Unwritten
  <2>. QED BY <2>3, <2>4 DEF ShapeOK
<1>. QED BY <1>1, <1>2, <1>3, <1>4 DEF RIInv, DInv

(* ... and no step breaks that. *)
LEMMA NextRIInv == RIInv /\ [RNext]_<<vars, readerVars>> => RIInv'
<1>. SUFFICES ASSUME RIInv, [RNext]_<<vars, readerVars>> PROVE RIInv'
  OBVIOUS
<1>1. [Next]_vars
  BY DEF RNext
<1>2. IInv' /\ Apart' /\ ShapeOK'
  BY <1>1, NextIInv, StaysApart, ShapeStep DEF RIInv, DInv
<1>3. PInv'
  BY <1>1, NextType, CountersStep, ReadStep, PrefixStep DEF RIInv, DInv, PInv
<1>4. RTypeOK' /\ ReadersOK'
  <2>1. CASE Next /\ Disturbs /\ UNCHANGED <<source, stage, got>>
    BY <2>1, DumpStepReaders
  <2>2. ASSUME NEW r \in Readers, ReaderStep(r), UNCHANGED vars PROVE RTypeOK' /\ ReadersOK'
    BY <2>2, ReaderStepReaders
  <2>3. CASE UNCHANGED <<vars, readerVars>>
    BY <2>3 DEF vars, engineVars, fileVars, readerVars, RIInv, RTypeOK, ReadersOK, ReaderOK,
       Reading, Agrees, OneCopy, Complete, OldSnapshot, Path, Stored
  <2>. QED BY <2>1, <2>2, <2>3 DEF RNext
<1>. QED BY <1>2, <1>3, <1>4 DEF RIInv, DInv

(* The process a restore brings back is one that was dumped: unless a dump  *)
(* emptied the file under the reader, what it restores is one whole         *)
(* snapshot, and the state -k ended the process in if it did                *)
(* (restorer.c:279-343, 508-528, dumper.c:540-549), whatever dumps do       *)
(* between its reads.                                                       *)
THEOREM RestoreGetsOneState == RSpec /\ Apart => []RestoredIsOneState
<1>1. ASSUME RIInv, NEW r \in Readers, stage[r] = "restored", undisturbed[r],
             got[r] # OldSnapshot
      PROVE  \E e \in Engines :
                 /\ Path(e) = source[r]
                 /\ Complete(e)
                 /\ got[r] = held[e]
                 /\ killer[Target(e)] = e /\ Target(e) \notin Threaded
                    => got[r] = Image(Target(e))
  <2>1. PICK e \in Engines : /\ Path(e) = source[r] /\ flushed[e] = Last
                             /\ Complete(e) /\ got[r] = held[e]
    BY <1>1 DEF RIInv, ReadersOK, ReaderOK, OneCopy
  <2>2. ASSUME killer[Target(e)] = e, Target(e) \notin Threaded PROVE held[e] = Image(Target(e))
    <3>1. cache[Path(e)] = Image(Target(e))
      BY <1>1, <2>2, TargetType DEF RIInv, DInv, IInv, Apart, FileOK, Ended, Clear, Saved
    <3>2. Laid(e)
      BY <1>1, <2>1, CellFacts DEF RIInv, DInv, ShapeOK, Shape
    <3>3. \A i \in Cells : cache[Path(e)][i] = held[e][i]
      BY <2>1, <3>2, CellFacts DEF Laid
    <3>4. held[e] \in [Cells -> Stored \cup {Nothing}] /\ Image(Target(e)) \in [Cells -> Stored]
      BY <1>1, ImageType, TargetType DEF RIInv, DInv, IInv, TypeOK
    <3>. QED BY <3>1, <3>3, <3>4
  <2>. QED BY <2>1, <2>2
<1>2. RIInv => RestoredIsOneState
  BY <1>1 DEF RestoredIsOneState
<1>. QED BY <1>2, InitRIInv, NextRIInv, PTL DEF RSpec
=============================================================================
