----------------------------- MODULE PanelProofs -----------------------------
(***************************************************************************)
(* What holds of the panel for any number of requests at a time, of        *)
(* processes and of folders.                                               *)
(*                                                                         *)
(* The inductive invariant PanelInv has five parts.  TypeOK; StageOK, what *)
(* a request can be at each place in its handler and what its engine can   *)
(* be doing; OwnedOK, every folder in the registry, or on its way into it, *)
(* is one a dump succeeded in; KeptOK, what the next save of the registry  *)
(* will keep; and MadeOK, whose file and whose doing it is once a dump has *)
(* succeeded.  Nothing is assumed of how long engines take or hang.        *)
(***************************************************************************)
EXTENDS Panel, TLAPS

DumpPlaces == {"gate", "dump", "waits", "remember", "load", "save", "header"}

Stage(r) ==
    /\ pc[r] \in DumpPlaces => call[r].kind = "dump"
    /\ pc[r] = "allowed" => call[r].kind # "dump"
    /\ pc[r] = "gate" => engine[r] \in {"checking", "probing", "ok", "failed"}
    /\ pc[r] = "dump" =>
           engine[r] \in {"dumping", "seized", "opened", "saved", "ended", "ok", "failed"}
    /\ pc[r] = "waits" => r \in timedOut
    /\ answer[r] = "none" <=> pc[r] # "answered"

StageOK == \A r \in Requests : Stage(r)

(* Folders a dump has succeeded in, and nothing else, get into the registry. *)
OwnedOK ==
    /\ registry \subseteq written
    /\ \A r \in Requests :
        /\ loaded[r] \subseteq written
        /\ pc[r] \in {"remember", "load", "save", "header"} => Folder(r) \in written

(* The folder of r is in the registry, and no race or failure excuses it. *)
Kept(r) ==
    /\ call[r].kind = "dump" /\ pc[r] \in {"header", "answered"} /\ answer[r] # "error"
    /\ r \notin overlapped \cup unsaved

KeptOK ==
    /\ \A q, r \in Savers : q # r => q \in overlapped
    /\ unreadable = 0 =>
         \A r \in Requests : Kept(r) =>
             /\ Folder(r) \in registry \cup {Default}
             /\ \A q \in Savers : Folder(r) \in loaded[q] \cup {Default}

(* The dump of r has succeeded: its file is whole and its process is ended. *)
Made(r) ==
    /\ file[Folder(r)] = [by |-> r, part |-> "complete"]
    /\ call[r].kill => ~alive[call[r].pid]

Succeeded(r) ==
    \/ pc[r] = "dump" /\ engine[r] \in {"ended", "ok"}
    \/ pc[r] \in {"remember", "load", "save", "header"}
    \/ call[r].kind = "dump" /\ pc[r] = "answered" /\ answer[r] = "ok"

(* A process is ended only when its snapshot is whole, and only a timeout   *)
(* or a lost word keeps the panel from learning of it.                      *)
MadeOf(r) ==
    /\ r \notin contested =>
         /\ engine[r] = "opened" => file[Folder(r)].by = r
         /\ engine[r] \in {"saved", "ended"} => file[Folder(r)] = [by |-> r, part |-> "complete"]
         /\ Succeeded(r) => Made(r)
         /\ \A p \in Processes :
              ender[p] = r => file[Folder(r)] = [by |-> r, part |-> "complete"]
    /\ \A p \in Processes : ender[p] = r =>
         /\ call[r].kind = "dump" /\ pc[r] \notin {"idle", "gate"}
         /\ engine[r] \in {"none", "ended", "ok", "failed"}
         /\ Succeeded(r) \/ r \in timedOut \cup lost

MadeOK == \A r \in Requests : MadeOf(r)

PanelInv == TypeOK /\ StageOK /\ OwnedOK /\ OnlyOwnFolders /\ KeptOK /\ MadeOK

-----------------------------------------------------------------------------

(* The panel starts with nobody served and nothing in the registry. *)
LEMMA InitPanelInv == Init => PanelInv
<1>. SUFFICES ASSUME Init PROVE PanelInv
  OBVIOUS
<1>1. TypeOK
  BY PanelAssumption DEF Init, TypeOK, Places, Engines, NoFile
<1>2. StageOK /\ OwnedOK /\ OnlyOwnFolders /\ KeptOK /\ MadeOK
  BY PanelAssumption DEF Init, OnlyOwnFolders, StageOK, Stage, DumpPlaces, OwnedOK, KeptOK, Kept, Savers,
     MadeOK, MadeOf, Succeeded
<1>. QED BY <1>1, <1>2 DEF PanelInv

(* A dump names a process. *)
LEMMA DumpHasPid ==
    ASSUME TypeOK, NEW r \in Requests, call[r].kind = "dump"
    PROVE  call[r].pid \in Processes /\ call[r].kill \in BOOLEAN /\ Folder(r) \in Folders
BY DEF TypeOK, Calls, Folder

(* Every request names a folder. *)
LEMMA HasFolder ==
    ASSUME TypeOK, NEW r \in Requests
    PROVE  Folder(r) \in Folders
BY DEF TypeOK, Calls, Folder

(* No step of the panel makes one request do another's work, and nobody     *)
(* changes what was asked for.                                              *)
Local(r) ==
    /\ call' = call
    /\ \A q \in Requests \ {r} : /\ pc'[q] = pc[q] /\ answer'[q] = answer[q]
                                 /\ engine'[q] = engine[q] /\ loaded'[q] = loaded[q]

(* A step of a request or of its engine is local in that sense. *)
LEMMA OnlyActor ==
    ASSUME TypeOK, NEW r \in Requests, Serves(r) \/ EngineSteps(r)
    PROVE  Local(r)
<1>. USE DEF Local, TypeOK, GoTo, Answers, Launches, EngineGoes, requestVars, engineVars
<1>1. CASE RequireKnown(r)  BY <1>1 DEF RequireKnown
<1>2. CASE RestoreStarts(r)  BY <1>2 DEF RestoreStarts
<1>3. CASE Delete(r)  BY <1>3 DEF Delete
<1>4. CASE DumpCalled(r)  BY <1>4 DEF DumpCalled
<1>5. CASE DumpRefused(r)  BY <1>5 DEF DumpRefused
<1>6. CASE Dumpable(r)  BY <1>6 DEF Dumpable
<1>7. CASE DumpNotStarted(r)  BY <1>7 DEF DumpNotStarted
<1>8. CASE Dumped(r)  BY <1>8 DEF Dumped
<1>9. CASE EngineRefused(r)  BY <1>9 DEF EngineRefused
<1>10. CASE TimesOut(r)  BY <1>10 DEF TimesOut
<1>11. CASE TimesOutUnderSudo(r)  BY <1>11 DEF TimesOutUnderSudo
<1>12. CASE Waited(r)  BY <1>12 DEF Waited
<1>13. CASE RememberLooks(r)  BY <1>13 DEF RememberLooks
<1>14. CASE RememberLoads(r)  BY <1>14 DEF RememberLoads
<1>15. CASE RememberSaves(r)  BY <1>15 DEF RememberSaves
<1>16. CASE RememberFails(r)  BY <1>16 DEF RememberFails
<1>17. CASE HeaderRead(r)  BY <1>17 DEF HeaderRead
<1>18. CASE HeaderUnread(r)  BY <1>18 DEF HeaderUnread
<1>19. CASE Seizes(r)  BY <1>19 DEF Seizes
<1>20. CASE Probed(r)  BY <1>20 DEF Probed
<1>21. CASE Opens(r)  BY <1>21 DEF Opens
<1>22. CASE Saves(r)  BY <1>22 DEF Saves
<1>23. CASE EndsIt(r)  BY <1>23 DEF EndsIt
<1>24. CASE LetsGo(r)  BY <1>24 DEF LetsGo
<1>25. CASE EngineFails(r)  BY <1>25 DEF EngineFails
<1>25a. CASE Garbled(r)  BY <1>25a DEF Garbled
<1>25b. CASE Reports(r)  BY <1>25b DEF Reports
<1>. QED BY <1>1, <1>2, <1>3, <1>4, <1>5, <1>6, <1>7, <1>8, <1>9, <1>10, <1>11, <1>12, <1>13, <1>14, <1>15, <1>16, <1>17, <1>18, <1>19, <1>20, <1>21, <1>22, <1>23, <1>24, <1>25, <1>25a, <1>25b DEF Serves, EngineSteps

(* Every step, one by one, keeps the types, and engines to those who wait  *)
(* for them and processes to those engines.                                *)
LEMMA TypeStep == TypeOK /\ StageOK /\ [Next]_vars => TypeOK'
<1>. SUFFICES ASSUME TypeOK, StageOK, [Next]_vars PROVE TypeOK'
  OBVIOUS
<1>. USE PanelAssumption
     DEF TypeOK, Places, Engines, GoTo, Answers, Launches, EngineGoes, Released, requestVars,
         engineVars, diskVars, historyVars
<1>1. ASSUME NEW r \in Requests, RequireKnown(r) PROVE TypeOK'
  <2>1. unreadable' \in 0 .. MaxUnreadable
    BY <1>1 DEF RequireKnown, Load
  <2>2. /\ pc' \in [Requests -> Places] /\ answer' \in [Requests -> {"none", "ok", "error"}]
        /\ pc[r] = "idle" /\ pc'[r] \in {"allowed", "answered"}
        /\ \A q \in Requests \ {r} : pc'[q] = pc[q]
    BY <1>1 DEF RequireKnown
  <2>3. UNCHANGED <<sudo, call, loaded, engineVars, diskVars, removals, historyVars>>
    BY <1>1 DEF RequireKnown
  <2>. QED BY <2>1, <2>2, <2>3
<1>2. ASSUME NEW r \in Requests, RestoreStarts(r) PROVE TypeOK'
  BY <1>2 DEF RestoreStarts
<1>3. ASSUME NEW r \in Requests, Delete(r) PROVE TypeOK'
  BY <1>3, HasFolder DEF Delete, Contests, OthersIn, NoFile
<1>4. ASSUME NEW r \in Requests, DumpCalled(r) PROVE TypeOK'
  BY <1>4, HasFolder DEF DumpCalled
<1>5. ASSUME NEW r \in Requests, DumpRefused(r) PROVE TypeOK'
  BY <1>5 DEF DumpRefused
<1>6. ASSUME NEW r \in Requests, Dumpable(r) PROVE TypeOK'
  BY <1>6 DEF Dumpable
<1>7. ASSUME NEW r \in Requests, DumpNotStarted(r) PROVE TypeOK'
  BY <1>7 DEF DumpNotStarted
<1>8. ASSUME NEW r \in Requests, Dumped(r) PROVE TypeOK'
  BY <1>8, HasFolder DEF Dumped
<1>9. ASSUME NEW r \in Requests, EngineRefused(r) PROVE TypeOK'
  BY <1>9 DEF EngineRefused
<1>10. ASSUME NEW r \in Requests, TimesOut(r) PROVE TypeOK'
  BY <1>10 DEF TimesOut
<1>11. ASSUME NEW r \in Requests, TimesOutUnderSudo(r) PROVE TypeOK'
  BY <1>11 DEF TimesOutUnderSudo
<1>12. ASSUME NEW r \in Requests, Waited(r) PROVE TypeOK'
  BY <1>12 DEF Waited
<1>13. ASSUME NEW r \in Requests, RememberLooks(r) PROVE TypeOK'
  BY <1>13 DEF RememberLooks, Load
<1>14. ASSUME NEW r \in Requests, RememberLoads(r) PROVE TypeOK'
  BY <1>14 DEF RememberLoads, Load, Savers
<1>15. ASSUME NEW r \in Requests, RememberSaves(r) PROVE TypeOK'
  BY <1>15, HasFolder DEF RememberSaves
<1>16. ASSUME NEW r \in Requests, RememberFails(r) PROVE TypeOK'
  BY <1>16 DEF RememberFails
<1>17. ASSUME NEW r \in Requests, HeaderRead(r) PROVE TypeOK'
  BY <1>17 DEF HeaderRead
<1>18. ASSUME NEW r \in Requests, HeaderUnread(r) PROVE TypeOK'
  BY <1>18 DEF HeaderUnread
<1>19. ASSUME NEW r \in Requests, Seizes(r) PROVE TypeOK'
  <2>1. /\ tracer' \in [Processes -> Requests \cup {Nobody}]
        /\ \A p \in Processes : tracer'[p] = tracer[p] \/ tracer'[p] = r
    <3>1. call[r].pid \in Processes
      BY <1>19, DumpHasPid DEF Seizes, StageOK, Stage, DumpPlaces
    <3>. QED BY <1>19, <3>1 DEF Seizes
  <2>2. /\ engine[r] \in {"checking", "dumping"} /\ engine'[r] \in {"probing", "seized"}
        /\ \A q \in Requests \ {r} : engine'[q] = engine[q]
        /\ engine' \in [Requests -> Engines]
    BY <1>19 DEF Seizes
  <2>. QED BY <1>19, <2>1, <2>2 DEF Seizes
<1>20. ASSUME NEW r \in Requests, Probed(r) PROVE TypeOK'
  BY <1>20 DEF Probed
<1>21. ASSUME NEW r \in Requests, Opens(r) PROVE TypeOK'
  BY <1>21, HasFolder DEF Opens, Contests, OthersIn
<1>22. ASSUME NEW r \in Requests, Saves(r) PROVE TypeOK'
  <2>1. file' \in [Folders -> [by : Requests \cup {Nobody}, part : {"none", "some", "complete"}]]
    BY <1>22, HasFolder DEF Saves
  <2>2. /\ engine[r] = "opened" /\ engine' = [engine EXCEPT ![r] = "saved"]
        /\ engine' \in [Requests -> Engines]
    BY <1>22 DEF Saves
  <2>. QED BY <1>22, <2>1, <2>2 DEF Saves
<1>23. ASSUME NEW r \in Requests, EndsIt(r) PROVE TypeOK'
  <2>1. /\ engine[r] = "saved" /\ engine' = [engine EXCEPT ![r] = "ended"]
        /\ engine' \in [Requests -> Engines]
    BY <1>23 DEF EndsIt
  <2>2. /\ tracer' \in [Processes -> Requests \cup {Nobody}]
        /\ \A p \in Processes : tracer'[p] # Nobody => tracer'[p] = tracer[p] /\ tracer'[p] # r
    BY <1>23 DEF EndsIt
  <2>3. /\ alive' \in [Processes -> BOOLEAN]
        /\ ender' \in [Processes -> Requests \cup {Nobody}]
    BY <1>23 DEF EndsIt
  <2>. QED BY <1>23, <2>1, <2>2, <2>3 DEF EndsIt
<1>24. ASSUME NEW r \in Requests, LetsGo(r) PROVE TypeOK'
  BY <1>24 DEF LetsGo
<1>25a. ASSUME NEW r \in Requests, Garbled(r) PROVE TypeOK'
  BY <1>25a DEF Garbled
<1>25b. ASSUME NEW r \in Requests, Reports(r) PROVE TypeOK'
  BY <1>25b DEF Reports
<1>25. ASSUME NEW r \in Requests, EngineFails(r) PROVE TypeOK'
  BY <1>25 DEF EngineFails
<1>26. ASSUME NEW p \in Processes, Dies(p) PROVE TypeOK'
  BY <1>26 DEF Dies
<1>27. ASSUME NEW f \in Folders, FolderRemoved(f) PROVE TypeOK'
  BY <1>27 DEF FolderRemoved, NoFile
<1>28. CASE UNCHANGED vars
  BY <1>28 DEF vars
<1>. QED BY <1>1, <1>2, <1>3, <1>4, <1>5, <1>6, <1>7, <1>8, <1>9, <1>10, <1>11, <1>12, <1>13, <1>14, <1>15, <1>16, <1>17, <1>18, <1>19, <1>20, <1>21, <1>22, <1>23, <1>24, <1>25, <1>25a, <1>25b, <1>26, <1>27, <1>28 DEF Next, Serves, EngineSteps

(* A request stays at a place of its handler that fits what it asks for. *)
LEMMA StageStep == TypeOK /\ StageOK /\ [Next]_vars => StageOK'
<1>. SUFFICES ASSUME TypeOK, StageOK, [Next]_vars PROVE StageOK'
  OBVIOUS
<1>0. /\ pc \in [Requests -> Places] /\ answer \in [Requests -> {"none", "ok", "error"}]
      /\ engine \in [Requests -> Engines]
      /\ \A r \in Requests : engine[r] # "none" <=> pc[r] \in {"gate", "dump", "waits"}
  BY DEF TypeOK
<1>1. ASSUME NEW r \in Requests, Serves(r) \/ EngineSteps(r) PROVE StageOK'
  <2>0. SUFFICES Stage(r)'
    <3>1. timedOut \subseteq timedOut'
      BY <1>1 DEF Serves, EngineSteps, historyVars, RequireKnown, RestoreStarts, Delete,
         DumpCalled, DumpRefused, Dumpable, DumpNotStarted, Dumped, EngineRefused, Garbled, TimesOut,
         TimesOutUnderSudo, Waited, RememberLooks, RememberLoads, RememberSaves, RememberFails,
         HeaderRead, HeaderUnread, Seizes, Probed, Opens, Saves, EndsIt, Reports, LetsGo, EngineFails
    <3>. QED BY <1>1, <3>1, OnlyActor DEF Local, StageOK, Stage
  <2>. USE <1>0 DEF StageOK, Stage, DumpPlaces, Places, Engines, GoTo, Answers, Launches, EngineGoes, requestVars,
           engineVars, historyVars
  <2>1. CASE RequireKnown(r)  BY <2>1 DEF RequireKnown
  <2>2. CASE RestoreStarts(r)  BY <2>2 DEF RestoreStarts
  <2>3. CASE Delete(r)  BY <2>3 DEF Delete
  <2>4. CASE DumpCalled(r)  BY <2>4 DEF DumpCalled
  <2>5. CASE DumpRefused(r)  BY <2>5 DEF DumpRefused
  <2>6. CASE Dumpable(r)  BY <2>6 DEF Dumpable
  <2>7. CASE DumpNotStarted(r)  BY <2>7 DEF DumpNotStarted
  <2>8. CASE Dumped(r)  BY <2>8 DEF Dumped
  <2>9. CASE EngineRefused(r)  BY <2>9 DEF EngineRefused
  <2>10. CASE TimesOut(r)  BY <2>10 DEF TimesOut
  <2>11. CASE TimesOutUnderSudo(r)  BY <2>11 DEF TimesOutUnderSudo
  <2>12. CASE Waited(r)  BY <2>12 DEF Waited
  <2>13. CASE RememberLooks(r)  BY <2>13 DEF RememberLooks
  <2>14. CASE RememberLoads(r)  BY <2>14 DEF RememberLoads
  <2>15. CASE RememberSaves(r)  BY <2>15 DEF RememberSaves
  <2>16. CASE RememberFails(r)  BY <2>16 DEF RememberFails
  <2>17. CASE HeaderRead(r)  BY <2>17 DEF HeaderRead
  <2>18. CASE HeaderUnread(r)  BY <2>18 DEF HeaderUnread
  <2>19. CASE Seizes(r)  BY <2>19 DEF Seizes
  <2>20. CASE Probed(r)  BY <2>20 DEF Probed
  <2>21. CASE Opens(r)  BY <2>21 DEF Opens
  <2>22. CASE Saves(r)  BY <2>22 DEF Saves
  <2>23. CASE EndsIt(r)  BY <2>23 DEF EndsIt
  <2>24. CASE LetsGo(r)  BY <2>24 DEF LetsGo
  <2>25. CASE EngineFails(r)  BY <2>25 DEF EngineFails
  <2>25a. CASE Garbled(r)  BY <2>25a DEF Garbled
  <2>25b. CASE Reports(r)  BY <2>25b DEF Reports
  <2>. QED BY <2>1, <2>2, <2>3, <2>4, <2>5, <2>6, <2>7, <2>8, <2>9, <2>10, <2>11, <2>12, <2>13, <2>14, <2>15, <2>16, <2>17, <2>18, <2>19, <2>20, <2>21, <2>22, <2>23, <2>24, <2>25, <2>25a, <2>25b, <1>1 DEF Serves, EngineSteps
<1>2. ASSUME NEW p \in Processes, Dies(p) PROVE StageOK'
  BY <1>2 DEF Dies, StageOK, Stage, requestVars, historyVars
<1>3. ASSUME NEW f \in Folders, FolderRemoved(f) PROVE StageOK'
  BY <1>3 DEF FolderRemoved, StageOK, Stage, requestVars, engineVars
<1>4. CASE UNCHANGED vars
  BY <1>4 DEF vars, StageOK, Stage, requestVars, engineVars, historyVars
<1>. QED BY <1>1, <1>2, <1>3, <1>4 DEF Next

(* A request that was answered does nothing more, nor does its engine. *)
LEMMA OverWhenAnswered ==
    ASSUME TypeOK, NEW r \in Requests, Serves(r) \/ EngineSteps(r)
    PROVE  pc[r] # "answered"
<1>1. pc[r] = "answered" => engine[r] = "none"
  BY DEF TypeOK
<1>. QED
  BY <1>1 DEF Serves, EngineSteps, RequireKnown, RestoreStarts, Delete, DumpCalled, DumpRefused,
     Dumpable, DumpNotStarted, Dumped, EngineRefused, Garbled, TimesOut, TimesOutUnderSudo, Waited,
     RememberLooks, RememberLoads, RememberSaves, RememberFails, HeaderRead, HeaderUnread,
     Seizes, Probed, Opens, Saves, EndsIt, Reports, LetsGo, EngineFails

(* The steps that have to do with the registry. *)
Remembers(r) ==
    Dumped(r) \/ RememberLooks(r) \/ RememberLoads(r) \/ RememberSaves(r) \/ RememberFails(r)

(* No other step touches the registry, or brings a request nearer to it. *)
LEMMA OthersRemember ==
    ASSUME TypeOK, NEW r \in Requests, Serves(r) \/ EngineSteps(r), ~Remembers(r)
    PROVE  /\ UNCHANGED <<registry, loaded, written, overlapped, unsaved>>
           /\ unreadable' = 0 => unreadable = 0
           /\ \A place \in {"remember", "load", "save"} : pc'[r] = place <=> pc[r] = place
           /\ pc'[r] = "header" => pc[r] = "header"
           /\ pc'[r] = "answered" /\ pc[r] \notin {"header", "answered"} =>
                call[r].kind # "dump" \/ answer'[r] = "error"
<1>0. /\ pc \in [Requests -> Places] /\ answer \in [Requests -> {"none", "ok", "error"}]
      /\ unreadable \in Nat
  BY PanelAssumption DEF TypeOK
<1>. USE <1>0 DEF Places, GoTo, Answers, Launches, Load, requestVars, engineVars,
         diskVars, historyVars
<1>1. CASE RequireKnown(r)  BY <1>1 DEF RequireKnown
<1>2. CASE RestoreStarts(r)  BY <1>2 DEF RestoreStarts
<1>3. CASE Delete(r)  BY <1>3 DEF Delete
<1>4. CASE DumpCalled(r)  BY <1>4 DEF DumpCalled
<1>5. CASE DumpRefused(r)  BY <1>5 DEF DumpRefused
<1>6. CASE Dumpable(r)  BY <1>6 DEF Dumpable
<1>7. CASE DumpNotStarted(r)  BY <1>7 DEF DumpNotStarted
<1>8. CASE EngineRefused(r)  BY <1>8 DEF EngineRefused
<1>9. CASE TimesOut(r)  BY <1>9 DEF TimesOut
<1>10. CASE TimesOutUnderSudo(r)  BY <1>10 DEF TimesOutUnderSudo
<1>11. CASE Waited(r)  BY <1>11 DEF Waited
<1>12. CASE HeaderRead(r)  BY <1>12 DEF HeaderRead
<1>13. CASE HeaderUnread(r)  BY <1>13 DEF HeaderUnread
<1>14. CASE Seizes(r)  BY <1>14 DEF Seizes
<1>15. CASE Probed(r)  BY <1>15 DEF Probed
<1>16. CASE Opens(r)  BY <1>16 DEF Opens
<1>17. CASE Saves(r)  BY <1>17 DEF Saves
<1>18. CASE EndsIt(r)  BY <1>18 DEF EndsIt
<1>19. CASE LetsGo(r)  BY <1>19 DEF LetsGo
<1>20. CASE EngineFails(r)  BY <1>20 DEF EngineFails
<1>20a. CASE Garbled(r)  BY <1>20a DEF Garbled
<1>20b. CASE Reports(r)  BY <1>20b DEF Reports
<1>. QED BY <1>1, <1>2, <1>3, <1>4, <1>5, <1>6, <1>7, <1>8, <1>9, <1>10, <1>11, <1>12, <1>13, <1>14, <1>15, <1>16, <1>17, <1>18, <1>19, <1>20, <1>20a, <1>20b DEF Serves, EngineSteps, Remembers

(* Only folders a dump succeeded in get into the registry. *)
LEMMA OwnedStep == TypeOK /\ OwnedOK /\ [Next]_vars => OwnedOK'
<1>. SUFFICES ASSUME TypeOK, OwnedOK, [Next]_vars PROVE OwnedOK'
  OBVIOUS
<1>0. pc \in [Requests -> Places] /\ loaded \in [Requests -> SUBSET Folders]
  BY DEF TypeOK
<1>1. ASSUME NEW r \in Requests, Serves(r) \/ EngineSteps(r) PROVE OwnedOK'
  <2>0. /\ \A q \in Requests \ {r} : pc'[q] = pc[q] /\ loaded'[q] = loaded[q]
        /\ call' = call
    BY <1>1, OnlyActor DEF Local
  <2>. USE <1>0 DEF OwnedOK, Folder, GoTo, Launches, Load, historyVars, diskVars
  <2>1. CASE Dumped(r)
    BY <2>0, <2>1 DEF Dumped
  <2>2. CASE RememberLooks(r)
    BY <2>0, <2>2 DEF RememberLooks
  <2>3. CASE RememberLoads(r)
    BY <2>0, <2>3 DEF RememberLoads
  <2>4. CASE RememberSaves(r)
    BY <2>0, <2>4 DEF RememberSaves
  <2>5. CASE RememberFails(r)
    BY <2>0, <2>5 DEF RememberFails
  <2>6. CASE ~Remembers(r)
    <3>1. UNCHANGED <<registry, loaded, written>>
      BY <1>1, <2>6, OthersRemember
    <3>2. \A q \in Requests : pc'[q] \in {"remember", "load", "save", "header"} =>
                               pc[q] \in {"remember", "load", "save", "header"}
      BY <1>1, <2>0, <2>6, OthersRemember
    <3>. QED BY <2>0, <3>1, <3>2
  <2>. QED BY <2>1, <2>2, <2>3, <2>4, <2>5, <2>6 DEF Remembers
<1>2. ASSUME NEW p \in Processes, Dies(p) PROVE OwnedOK'
  BY <1>2 DEF Dies, OwnedOK, Folder, requestVars, historyVars, diskVars
<1>3. ASSUME NEW f \in Folders, FolderRemoved(f) PROVE OwnedOK'
  BY <1>3 DEF FolderRemoved, OwnedOK, Folder, requestVars
<1>4. CASE UNCHANGED vars
  BY <1>4 DEF vars, OwnedOK, Folder, requestVars, historyVars, diskVars
<1>. QED BY <1>1, <1>2, <1>3, <1>4 DEF Next

(* A request is let into a folder on what the registry says of it, and the  *)
(* folders of the panel stay its own.                                       *)
LEMMA LetInStep ==
    TypeOK /\ StageOK /\ OwnedOK /\ OnlyOwnFolders /\ [Next]_vars => OnlyOwnFolders'
<1>. SUFFICES ASSUME TypeOK, StageOK, OwnedOK, OnlyOwnFolders, [Next]_vars
              PROVE  OnlyOwnFolders'
  OBVIOUS
<1>0. /\ pc \in [Requests -> Places] /\ answer \in [Requests -> {"none", "ok", "error"}]
      /\ \A r \in Requests : Stage(r)
      /\ written \subseteq written' /\ call' = call
  <2>1. written \subseteq written' /\ call' = call
    BY DEF Next, vars, Serves, EngineSteps, requestVars, historyVars, RequireKnown,
       RestoreStarts, Delete, DumpCalled, DumpRefused, Dumpable, DumpNotStarted, Dumped,
       EngineRefused, Garbled, TimesOut, TimesOutUnderSudo, Waited, RememberLooks, RememberLoads,
       RememberSaves, RememberFails, HeaderRead, HeaderUnread, Seizes, Probed, Opens, Saves,
       EndsIt, Reports, LetsGo, EngineFails, Dies, FolderRemoved
  <2>. QED BY <2>1 DEF TypeOK, StageOK
<1>1. ASSUME NEW r \in Requests, Serves(r) \/ EngineSteps(r) PROVE OnlyOwnFolders'
  <2>0. \A q \in Requests \ {r} : pc'[q] = pc[q] /\ answer'[q] = answer[q]
    BY <1>1, OnlyActor DEF Local
  <2>. USE <1>0, <2>0 DEF OnlyOwnFolders, Folder
  <2>1. CASE RequireKnown(r)
    BY <2>1 DEF RequireKnown, Load, Known, OwnedOK, GoTo, Answers
  <2>2. CASE RestoreStarts(r) \/ Delete(r)
    BY <2>2 DEF RestoreStarts, Delete, Answers
  <2>3. CASE EngineSteps(r)
    BY <2>3 DEF EngineSteps, requestVars, Seizes, Probed, Opens, Saves, EndsIt, Reports, LetsGo,
       EngineFails
  <2>4. CASE Serves(r) /\ ~RequireKnown(r) /\ ~RestoreStarts(r) /\ ~Delete(r)
    <3>1. call[r].kind = "dump" /\ pc'[r] # "allowed"
      BY <2>4 DEF Serves, Stage, DumpPlaces, GoTo, Answers, Launches, DumpCalled, DumpRefused,
         Dumpable, DumpNotStarted, Dumped, EngineRefused, Garbled, TimesOut, TimesOutUnderSudo, Waited,
         RememberLooks, RememberLoads, RememberSaves, RememberFails, HeaderRead, HeaderUnread
    <3>. QED BY <3>1
  <2>. QED BY <1>1, <2>1, <2>2, <2>3, <2>4
<1>2. ASSUME NEW p \in Processes, Dies(p) PROVE OnlyOwnFolders'
  BY <1>2 DEF Dies, OnlyOwnFolders, Folder, requestVars, historyVars
<1>3. ASSUME NEW f \in Folders, FolderRemoved(f) PROVE OnlyOwnFolders'
  BY <1>3 DEF FolderRemoved, OnlyOwnFolders, Folder, requestVars
<1>4. CASE UNCHANGED vars
  BY <1>4 DEF vars, OnlyOwnFolders, Folder, requestVars, historyVars
<1>. QED BY <1>1, <1>2, <1>3, <1>4 DEF Next

(* The next save keeps what the registry has, unless two requests had it   *)
(* open at a time.                                                         *)
LEMMA KeptStep == TypeOK /\ StageOK /\ KeptOK /\ [Next]_vars => KeptOK'
<1>. SUFFICES ASSUME TypeOK, StageOK, KeptOK, [Next]_vars PROVE KeptOK'
  OBVIOUS
<1>0. /\ pc \in [Requests -> Places] /\ loaded \in [Requests -> SUBSET Folders]
      /\ \A r \in Requests : Stage(r)
      /\ unreadable \in Nat
  BY PanelAssumption DEF TypeOK, StageOK
<1>1. ASSUME NEW r \in Requests, Serves(r) \/ EngineSteps(r) PROVE KeptOK'
  <2>0. /\ \A q \in Requests \ {r} : /\ pc'[q] = pc[q] /\ loaded'[q] = loaded[q]
                                     /\ answer'[q] = answer[q]
        /\ call' = call
    BY <1>1, OnlyActor DEF Local
  <2>. USE <1>0, <2>0 DEF KeptOK, Kept, Savers, Folder
  <2>1. CASE Dumped(r)
    BY <2>1 DEF Dumped, Launches, GoTo, diskVars
  <2>2. CASE RememberLooks(r)
    BY <2>2 DEF RememberLooks, Load, GoTo, Known, diskVars
  <2>3. CASE RememberLoads(r)
    BY <2>3 DEF RememberLoads, Load, GoTo, diskVars
  <2>4. CASE RememberSaves(r)
    BY <2>4 DEF RememberSaves, GoTo, historyVars
  <2>5. CASE RememberFails(r)
    BY <2>5 DEF RememberFails, GoTo, diskVars
  <2>6. CASE ~Remembers(r)
    <3>1. /\ UNCHANGED <<registry, loaded, written, overlapped, unsaved>>
          /\ unreadable' = 0 => unreadable = 0
          /\ \A q \in Requests : pc'[q] = "save" <=> pc[q] = "save"
      BY <1>1, <2>6, OthersRemember
    <3>2. ASSUME NEW q \in Requests, Kept(q)' PROVE Kept(q)
      <4>1. CASE q # r
        BY <3>1, <3>2, <4>1
      <4>2. CASE q = r
        <5>1. /\ pc'[r] = "header" => pc[r] = "header"
              /\ pc'[r] = "answered" /\ pc[r] \notin {"header", "answered"} =>
                   call[r].kind # "dump" \/ answer'[r] = "error"
          BY <1>1, <2>6, OthersRemember
        <5>2. pc[r] # "answered"
          BY <1>1, OverWhenAnswered
        <5>3. pc'[r] \in {"header", "answered"} /\ call[r].kind = "dump" /\ answer'[r] # "error"
          BY <3>2, <4>2
        <5>4. pc[r] = "header"
          BY <5>1, <5>2, <5>3
        <5>5. answer[r] # "error"
          BY <5>4 DEF Stage
        <5>. QED BY <3>1, <3>2, <4>2, <5>3, <5>4, <5>5
      <4>. QED BY <4>1, <4>2
    <3>. QED BY <3>1, <3>2
  <2>. QED BY <2>1, <2>2, <2>3, <2>4, <2>5, <2>6 DEF Remembers
<1>2. ASSUME NEW p \in Processes, Dies(p) PROVE KeptOK'
  BY <1>2 DEF Dies, KeptOK, Kept, Savers, Folder, requestVars, historyVars, diskVars
<1>3. ASSUME NEW f \in Folders, FolderRemoved(f) PROVE KeptOK'
  BY <1>3 DEF FolderRemoved, KeptOK, Kept, Savers, Folder, requestVars
<1>4. CASE UNCHANGED vars
  BY <1>4 DEF vars, KeptOK, Kept, Savers, Folder, requestVars, historyVars, diskVars
<1>. QED BY <1>1, <1>2, <1>3, <1>4 DEF Next

-----------------------------------------------------------------------------
(* What a step of somebody else can do to the dump of r: nothing to its     *)
(* file without contesting it, and nothing that blames r for an end.        *)
LEMMA OthersDump ==
    ASSUME TypeOK, NEW r \in Requests, NEW q \in Requests \ {r}, Serves(q) \/ EngineSteps(q),
           call[r].kind = "dump", pc[r] # "idle"
    PROVE  /\ timedOut \subseteq timedOut' /\ lost \subseteq lost' /\ contested \subseteq contested'
           /\ r \notin contested' /\ file[Folder(r)].by = r => file'[Folder(r)] = file[Folder(r)]
           /\ \A p \in Processes : /\ alive'[p] => alive[p]
                                   /\ ender'[p] = r => ender[p] = r
<1>0. /\ Folder(r) \in Folders /\ Folder(q) \in Folders
      /\ file \in [Folders -> [by : Requests \cup {Nobody}, part : {"none", "some", "complete"}]]
      /\ alive \in [Processes -> BOOLEAN] /\ ender \in [Processes -> Requests \cup {Nobody}]
  BY HasFolder DEF TypeOK
<1>1. CASE Delete(q) \/ Opens(q)
  <2>1. r \in contested' \/ Folder(q) # Folder(r)
    BY <1>1 DEF Delete, Opens, Contests, OthersIn
  <2>2. contested \subseteq contested' /\ UNCHANGED <<timedOut, lost>> /\ alive' = alive /\ ender' = ender
    BY <1>1 DEF Delete, Opens, Contests, engineVars
  <2>3. Folder(q) # Folder(r) => file'[Folder(r)] = file[Folder(r)]
    BY <1>0, <1>1 DEF Delete, Opens
  <2>. QED BY <2>1, <2>2, <2>3
<1>2. CASE Saves(q)
  <2>1. UNCHANGED <<timedOut, lost, contested, alive, ender>>
    BY <1>2 DEF Saves, historyVars
  <2>2. file[Folder(r)].by = r => file'[Folder(r)] = file[Folder(r)]
    BY <1>0, <1>2 DEF Saves
  <2>. QED BY <2>1, <2>2
<1>3. CASE EndsIt(q)
  <2>1. UNCHANGED <<timedOut, lost, contested, file>>
    BY <1>3 DEF EndsIt, Reports, historyVars, diskVars
  <2>2. \A p \in Processes : alive'[p] => alive[p]
    BY <1>0, <1>3 DEF EndsIt
  <2>3. \A p \in Processes : ender'[p] = r => ender[p] = r
    BY <1>0, <1>3 DEF EndsIt
  <2>. QED BY <2>1, <2>2, <2>3
<1>4. CASE ~Delete(q) /\ ~Opens(q) /\ ~Saves(q) /\ ~EndsIt(q)
  <2>1. /\ UNCHANGED <<contested, file, alive, ender>>
        /\ timedOut \subseteq timedOut' /\ lost \subseteq lost'
    BY <1>4 DEF Serves, EngineSteps, engineVars, diskVars, historyVars, RequireKnown,
       RestoreStarts, DumpCalled, DumpRefused, Dumpable, DumpNotStarted, Dumped, EngineRefused, Garbled,
       TimesOut, TimesOutUnderSudo, Waited, RememberLooks, RememberLoads, RememberSaves,
       RememberFails, HeaderRead, HeaderUnread, Seizes, Probed, Reports, LetsGo, EngineFails
  <2>. QED BY <2>1
<1>. QED BY <1>1, <1>2, <1>3, <1>4

(* Nobody else undoes what a dump has made without contesting its file. *)
LEMMA OthersMade ==
    ASSUME TypeOK, StageOK, NEW r \in Requests, MadeOf(r),
           NEW q \in Requests \ {r}, Serves(q) \/ EngineSteps(q)
    PROVE  MadeOf(r)'
<1>1. /\ pc'[r] = pc[r] /\ answer'[r] = answer[r] /\ engine'[r] = engine[r]
      /\ call' = call /\ Stage(r)
      /\ \A p \in Processes : ender'[p] = r => ender[p] = r
  <2>1. \A p \in Processes : ender'[p] = r => ender[p] = r
    BY DEF Serves, EngineSteps, TypeOK, engineVars, RequireKnown, RestoreStarts, Delete,
       DumpCalled, DumpRefused, Dumpable, DumpNotStarted, Dumped, EngineRefused, Garbled, TimesOut,
       TimesOutUnderSudo, Waited, RememberLooks, RememberLoads, RememberSaves, RememberFails,
       HeaderRead, HeaderUnread, Seizes, Probed, Opens, Saves, EndsIt, Reports, LetsGo, EngineFails
  <2>. QED BY <2>1, OnlyActor DEF Local, StageOK
<1>2. CASE call[r].kind = "dump" /\ pc[r] # "idle"
  <2>1. /\ timedOut \subseteq timedOut' /\ lost \subseteq lost' /\ contested \subseteq contested'
        /\ r \notin contested' /\ file[Folder(r)].by = r => file'[Folder(r)] = file[Folder(r)]
        /\ \A p \in Processes : alive'[p] => alive[p]
    BY <1>2, OthersDump
  <2>2. call[r].pid \in Processes
    BY <1>2, DumpHasPid
  <2>. QED BY <1>1, <2>1, <2>2 DEF MadeOf, Succeeded, Made, Folder
<1>3. CASE ~(call[r].kind = "dump" /\ pc[r] # "idle")
  <2>1. ~Succeeded(r) /\ engine[r] = "none"
    BY <1>1, <1>3 DEF Succeeded, Stage, DumpPlaces, TypeOK
  <2>2. timedOut \subseteq timedOut' /\ lost \subseteq lost' /\ contested \subseteq contested'
    BY DEF Serves, EngineSteps, historyVars, RequireKnown, RestoreStarts, Delete, Contests,
       DumpCalled, DumpRefused, Dumpable, DumpNotStarted, Dumped, EngineRefused, Garbled, TimesOut,
       TimesOutUnderSudo, Waited, RememberLooks, RememberLoads, RememberSaves, RememberFails,
       HeaderRead, HeaderUnread, Seizes, Probed, Opens, Saves, EndsIt, Reports, LetsGo, EngineFails
  <2>3. \A p \in Processes : ender'[p] # r
    BY <1>1, <1>3 DEF MadeOf
  <2>4. ~Succeeded(r)' /\ engine'[r] = "none"
    BY <1>1, <2>1 DEF Succeeded
  <2>. QED BY <2>3, <2>4 DEF MadeOf
<1>. QED BY <1>2, <1>3

(* What a dump has made after one of its own steps. *)
LEMMA OwnMade ==
    ASSUME TypeOK, StageOK, NEW r \in Requests, MadeOf(r), Serves(r) \/ EngineSteps(r)
    PROVE  MadeOf(r)'
<1>0. /\ pc \in [Requests -> Places] /\ answer \in [Requests -> {"none", "ok", "error"}]
      /\ engine \in [Requests -> Engines] /\ Stage(r) /\ call' = call
      /\ file \in [Folders -> [by : Requests \cup {Nobody}, part : {"none", "some", "complete"}]]
      /\ alive \in [Processes -> BOOLEAN] /\ ender \in [Processes -> Requests \cup {Nobody}]
      /\ Folder(r) \in Folders /\ Nobody \notin Requests /\ pc[r] # "answered"
  BY HasFolder, OnlyActor, OverWhenAnswered, PanelAssumption DEF TypeOK, StageOK, Local
<1>. USE <1>0 DEF Stage, DumpPlaces, MadeOf, Succeeded, Made, Folder, Places, Engines, GoTo, Answers, Launches,
         EngineGoes, requestVars, engineVars, diskVars, historyVars
<1>1. CASE RequireKnown(r)  BY <1>1 DEF RequireKnown
<1>2. CASE RestoreStarts(r)  BY <1>2 DEF RestoreStarts
<1>3. CASE Delete(r)
  <2>1. call[r].kind # "dump" /\ engine[r] = "none" /\ UNCHANGED <<engine, ender>> /\ pc'[r] = "answered"
    BY <1>3 DEF Delete, TypeOK
  <2>2. \A p \in Processes : ender'[p] # r
    BY <2>1
  <2>. QED BY <2>1, <2>2
<1>4. CASE DumpCalled(r)  BY <1>4 DEF DumpCalled
<1>5. CASE DumpRefused(r)  BY <1>5 DEF DumpRefused
<1>6. CASE Dumpable(r)  BY <1>6 DEF Dumpable
<1>7. CASE DumpNotStarted(r)  BY <1>7 DEF DumpNotStarted
<1>8. CASE Dumped(r)  BY <1>8 DEF Dumped
<1>9. CASE EngineRefused(r)  BY <1>9 DEF EngineRefused
<1>10. CASE TimesOut(r)  BY <1>10 DEF TimesOut
<1>11. CASE TimesOutUnderSudo(r)  BY <1>11 DEF TimesOutUnderSudo
<1>12. CASE Waited(r)  BY <1>12 DEF Waited
<1>13. CASE RememberLooks(r)  BY <1>13 DEF RememberLooks
<1>14. CASE RememberLoads(r)  BY <1>14 DEF RememberLoads
<1>15. CASE RememberSaves(r)  BY <1>15 DEF RememberSaves
<1>16. CASE RememberFails(r)  BY <1>16 DEF RememberFails
<1>17. CASE HeaderRead(r)  BY <1>17 DEF HeaderRead
<1>18. CASE HeaderUnread(r)  BY <1>18 DEF HeaderUnread
<1>19. CASE Seizes(r)  BY <1>19 DEF Seizes
<1>20. CASE Probed(r)  BY <1>20 DEF Probed
<1>21. CASE Opens(r)
  <2>1. file'[Folder(r)] = [by |-> r, part |-> "some"] /\ engine'[r] = "opened"
    BY <1>21 DEF Opens
  <2>2. contested \subseteq contested'
    BY <1>21 DEF Opens, Contests
  <2>3. UNCHANGED <<call, pc, answer, alive, ender, timedOut, lost>> /\ engine[r] = "seized"
    BY <1>21 DEF Opens
  <2>4. pc[r] \in {"dump", "waits"} /\ \A p \in Processes : ender[p] # r
    BY <2>3 DEF TypeOK
  <2>. QED BY <2>1, <2>2, <2>3, <2>4
<1>22. CASE Saves(r)  BY <1>22 DEF Saves
<1>23. CASE EndsIt(r)
  <2>1. call[r].kind = "dump" /\ call[r].pid \in Processes
    BY <1>23, DumpHasPid DEF EndsIt, Reports, TypeOK
  <2>2. /\ ~alive'[call[r].pid] /\ engine'[r] = "ended" /\ engine[r] = "saved"
        /\ UNCHANGED <<pc, answer, file, timedOut, lost, contested>>
        /\ \A p \in Processes : ender'[p] # r \/ ender[p] = r \/ p = call[r].pid
    BY <1>23, <2>1 DEF EndsIt
  <2>3. pc[r] \in {"dump", "waits"}
    BY <2>2 DEF TypeOK
  <2>. QED BY <2>1, <2>2, <2>3
<1>24. CASE LetsGo(r)  BY <1>24 DEF LetsGo
<1>25. CASE EngineFails(r)  BY <1>25 DEF EngineFails
<1>25a. CASE Garbled(r)  BY <1>25a DEF Garbled
<1>25b. CASE Reports(r)  BY <1>25b DEF Reports
<1>. QED BY <1>1, <1>2, <1>3, <1>4, <1>5, <1>6, <1>7, <1>8, <1>9, <1>10, <1>11, <1>12, <1>13, <1>14, <1>15, <1>16, <1>17, <1>18, <1>19, <1>20, <1>21, <1>22, <1>23, <1>24, <1>25, <1>25a, <1>25b DEF Serves, EngineSteps

(* A dump that has succeeded stays so until its file is contested. *)
LEMMA MadeStep == TypeOK /\ StageOK /\ MadeOK /\ [Next]_vars => MadeOK'
<1>. SUFFICES ASSUME TypeOK, StageOK, MadeOK, [Next]_vars, NEW r \in Requests
              PROVE  MadeOf(r)'
  BY DEF MadeOK
<1>0. MadeOf(r) /\ Stage(r) /\ Folder(r) \in Folders
  BY HasFolder DEF MadeOK, StageOK
<1>1. CASE Serves(r) \/ EngineSteps(r)
  BY <1>0, <1>1, OwnMade
<1>2. ASSUME NEW q \in Requests \ {r}, Serves(q) \/ EngineSteps(q) PROVE MadeOf(r)'
  BY <1>0, <1>2, OthersMade
<1>3. ASSUME NEW p \in Processes, Dies(p) PROVE MadeOf(r)'
  <2>1. Succeeded(r) => call[r].kind = "dump"
    BY <1>0 DEF Succeeded, Stage, DumpPlaces
  <2>2. \A x \in Processes : alive'[x] => alive[x]
    BY <1>3 DEF Dies, TypeOK
  <2>. QED BY <1>0, <1>3, <2>1, <2>2, DumpHasPid
       DEF Dies, MadeOf, Succeeded, Made, Folder, requestVars, diskVars, historyVars
<1>4. ASSUME NEW f \in Folders, FolderRemoved(f) PROVE MadeOf(r)'
  <2>1. Succeeded(r) \/ engine[r] # "none" \/ (\E p \in Processes : ender[p] = r) => pc[r] # "idle"
    BY <1>0 DEF Succeeded, MadeOf, TypeOK
  <2>2. r \notin contested' /\ pc[r] # "idle" => file'[Folder(r)] = file[Folder(r)]
    BY <1>0, <1>4 DEF FolderRemoved, TypeOK
  <2>3. UNCHANGED <<call, pc, answer, engine, alive, ender, timedOut, lost>> /\ contested \subseteq contested'
    BY <1>4 DEF FolderRemoved, requestVars, engineVars
  <2>. QED BY <1>0, <2>1, <2>2, <2>3 DEF MadeOf, Succeeded, Made, Folder
<1>5. CASE UNCHANGED vars
  BY <1>0, <1>5 DEF vars, MadeOf, Succeeded, Made, Folder, requestVars, engineVars, diskVars,
     historyVars
<1>. QED BY <1>1, <1>2, <1>3, <1>4, <1>5 DEF Next

(* No step of the panel, of an engine or from outside breaks the invariant. *)
LEMMA NextPanelInv == PanelInv /\ [Next]_vars => PanelInv'
BY TypeStep, StageStep, OwnedStep, LetInStep, KeptStep, MadeStep DEF PanelInv

(* The invariant the results on the panel rest on (app.py, engine.py,       *)
(* directories.py, snapshot.py).                                            *)
THEOREM PanelInvariant == Spec => []PanelInv
BY InitPanelInv, NextPanelInv, PTL DEF Spec

(* Every variable keeps to its domain, an engine is only there while a      *)
(* request waits for it (engine.py:60-90), and only such an engine holds a  *)
(* process.                                                                 *)
THEOREM PanelTypes == Spec => []TypeOK
<1>1. PanelInv => TypeOK
  BY DEF PanelInv
<1>. QED BY <1>1, PanelInvariant, PTL

(* Restore and delete reach into no folder but the default one and those a  *)
(* dump of the panel succeeded in (directories.py:5-7), for any number of   *)
(* requests at a time, whatever fails, times out or is lost.                *)
THEOREM FoldersAreOwn == Spec => []OnlyOwnFolders
<1>1. PanelInv => OnlyOwnFolders
  BY DEF PanelInv
<1>. QED BY <1>1, PanelInvariant, PTL

(* The folder of a dump that was answered stays in the registry, whatever   *)
(* dumps come after it (directories.py:3-5), unless a race, a failed save   *)
(* or a failed read of the registry took it.  A third request that only     *)
(* looks while a second is saving is such a race too.                       *)
THEOREM FoldersAreRemembered == Spec => []RememberedUnlessRaced
<1>1. PanelInv => RememberedUnlessRaced
  BY DEF PanelInv, KeptOK, Kept, RememberedUnlessRaced
<1>. QED BY <1>1, PanelInvariant, PTL

(* What a dump is answered is true (engine.py:150-154): success means that  *)
(* the snapshot is whole, its own, and the process gone if that was asked   *)
(* for; a process the dump ended has its whole snapshot whatever is         *)
(* answered; and an error means that the dump did not end it, unless the    *)
(* panel gave up waiting, or the word of a success got lost: output that    *)
(* does not decode, a header that cannot be read, an engine killed at its   *)
(* exit.  None of it if another request used the same file.                 *)
THEOREM AnswersHold == Spec => []AnswersAreTrue
<1>1. ASSUME PanelInv, NEW r \in Requests, call[r].kind = "dump", pc[r] = "answered",
             r \notin contested
      PROVE  LET ended == \E p \in Processes : ender[p] = r IN
             /\ answer[r] = "ok" \/ ended => file[Folder(r)] = [by |-> r, part |-> "complete"]
             /\ answer[r] = "ok" /\ call[r].kill => ~alive[call[r].pid]
             /\ answer[r] = "error" /\ ended => r \in timedOut \cup lost
  <2>1. MadeOf(r) /\ answer[r] \in {"ok", "error"}
    BY <1>1 DEF PanelInv, MadeOK, StageOK, Stage, TypeOK
  <2>. QED BY <1>1, <2>1 DEF MadeOf, Made, Succeeded
<1>2. PanelInv => AnswersAreTrue
  BY <1>1 DEF AnswersAreTrue
<1>. QED BY <1>2, PanelInvariant, PTL
=============================================================================
