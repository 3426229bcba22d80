------------------------------ MODULE Console -------------------------------
(***************************************************************************)
(* The console of the panel: the Logbook of the backend (logbook.py), and  *)
(* the browser that polls it every POLL_INTERVAL_MS (app.js, pollLogs).    *)
(*                                                                         *)
(* A poll is a request of its own: it takes the cursor when it is sent,    *)
(* and the timer sends the next one whether or not the last was answered.  *)
(* The backend may be restarted under a browser that stays open; a new run *)
(* numbers its lines from 1 again.                                         *)
(***************************************************************************)
EXTENDS Integers, Sequences, SequencesExt

CONSTANTS
    Capacity,     \* maxlen of the deque, LOG_CAPACITY
    Polls,        \* requests the browser may have in flight at once
    MaxLines,     \* bound: lines one run of the backend writes
    MaxRestarts,  \* bound: restarts of the backend
    MaxFailures,  \* bound: requests that fail
    MaxClears,    \* bound: uses of the clear button
    Undefined     \* a cursor that is no number

ASSUME BoundsAssumption ==
    /\ Capacity \in Nat \ {0} /\ MaxLines \in Nat
    /\ {MaxRestarts, MaxFailures, MaxClears} \subseteq Nat
    /\ Undefined \notin Nat

VARIABLES
    run,       \* which run of the backend this is
    entries,   \* its deque
    nextSeq,   \* its _next_seq
    cursor,    \* logCursor of the browser
    poll,      \* the requests of pollLogs
    shown,     \* the lines in the console
    clear,     \* the request of clearLogs: idle, sent or served
    failures,  \* requests that failed so far
    clears,    \* uses of the clear button so far
    seen,      \* history: lines that have been shown
    overlap,   \* history: two polls were in flight at once
    wiped,     \* history: where the book stood at the clear the console shows
    late       \* history: a poll had its answer when the book was cleared

bookVars  == <<run, entries, nextSeq>>
viewVars  == <<cursor, shown, seen>>
clearVars == <<clear, clears, wiped, late>>
vars == <<bookVars, viewVars, clearVars, poll, failures, overlap>>

Line(r, n)  == [run |-> r, seq |-> n]
Lines       == [run : 0 .. MaxRestarts, seq : 1 .. MaxLines + 1]
Before(a, b) == a.run < b.run \/ (a.run = b.run /\ a.seq < b.seq)

Idle        == [stage |-> "idle"]
Sent(n)     == [stage |-> "sent", since |-> n]
Answered(ls, n) == [stage |-> "answered", lines |-> ls, cursor |-> n]

Init ==
    /\ run = 0 /\ entries = <<>> /\ nextSeq = 1
    /\ cursor = 0 /\ shown = {} /\ seen = {}
    /\ poll = [p \in Polls |-> Idle]
    /\ clear = "idle" /\ clears = 0 /\ wiped = Line(0, 1) /\ late = FALSE
    /\ failures = 0 /\ overlap = FALSE

-----------------------------------------------------------------------------

(***************************************************************************)
(* The backend.  Each operation of Logbook holds its lock throughout.      *)
(***************************************************************************)
Mut_Append ==
    /\ nextSeq <= MaxLines
    /\ entries' = Append(entries, Line(run, nextSeq))
    /\ nextSeq' = nextSeq + 1
    /\ UNCHANGED <<run, viewVars, clearVars, poll, failures, overlap>>

(* append: the oldest line of a full deque falls out. *)
AppendLine ==
    /\ nextSeq <= MaxLines
    /\ entries' = LET all == Append(entries, Line(run, nextSeq))
                  IN  IF Len(all) > Capacity THEN Tail(all) ELSE all
    /\ nextSeq' = nextSeq + 1
    /\ UNCHANGED <<run, viewVars, clearVars, poll, failures, overlap>>

(* since: the lines newer than the cursor, in the order of the book, and   *)
(* the cursor to ask for next.                                             *)
Mut_Newer(n) == {e \in ToSet(entries) : e.seq >= n}

Newer(n) == {e \in ToSet(entries) : e.seq > n}

Mut_CursorFor(n) == nextSeq

Mut_LastOf(n) == IF Newer(n) = {} THEN n ELSE nextSeq - 1

CursorFor(n) == nextSeq - 1

Answer(p) ==
    /\ poll[p].stage = "sent"
    /\ poll[p].since # Undefined
    /\ poll' = [poll EXCEPT ![p] = Answered(Newer(@.since), CursorFor(@.since))]
    /\ UNCHANGED <<bookVars, viewVars, clearVars, failures, overlap>>

Mut_ServeClear ==
    /\ clear = "sent"
    /\ clear' = "served"
    /\ wiped' = Line(run, nextSeq)
    /\ late' = \E p \in Polls : poll[p].stage = "answered"
    /\ UNCHANGED <<bookVars, clears, viewVars, poll, failures, overlap>>

ServeClear ==
    /\ clear = "sent"
    /\ clear' = "served"
    /\ entries' = <<>>
    /\ wiped' = Line(run, nextSeq)
    /\ late' = \E p \in Polls : poll[p].stage = "answered"
    /\ UNCHANGED <<run, nextSeq, clears, viewVars, poll, failures, overlap>>

(* A new run of the backend has an empty book. *)
Restart ==
    /\ run < MaxRestarts
    /\ run' = run + 1
    /\ entries' = <<>> /\ nextSeq' = 1
    /\ UNCHANGED <<viewVars, clearVars, poll, failures, overlap>>

-----------------------------------------------------------------------------

(***************************************************************************)
(* The browser.                                                            *)
(***************************************************************************)

(* setInterval: a poll is sent, also while another one is in flight. *)
Tick(p) ==
    /\ poll[p] = Idle
    /\ poll' = [poll EXCEPT ![p] = Sent(cursor)]
    /\ overlap' = (overlap \/ \E q \in Polls : poll[q] # Idle)
    /\ UNCHANGED <<bookVars, viewVars, clearVars, failures>>

Receive(p) ==
    /\ poll[p].stage = "answered"
    /\ cursor' = poll[p].cursor
    /\ shown' = shown \cup poll[p].lines
    /\ seen' = seen \cup poll[p].lines
    /\ poll' = [poll EXCEPT ![p] = Idle]
    /\ UNCHANGED <<bookVars, clearVars, failures, overlap>>

(* The request or its answer is lost: the catch of pollLogs. *)
PollFails(p) ==
    /\ poll[p] # Idle
    /\ failures < MaxFailures
    /\ failures' = failures + 1
    /\ poll' = [poll EXCEPT ![p] = Idle]
    /\ UNCHANGED <<bookVars, viewVars, clearVars, overlap>>

(* The answer breaks off in its body: api() turns what it cannot parse into *)
(* {}, whose cursor is undefined, and pollLogs stores that before it fails. *)
CutOff(p) ==
    /\ poll[p].stage = "answered"
    /\ failures < MaxFailures
    /\ failures' = failures + 1
    /\ cursor' = Undefined
    /\ poll' = [poll EXCEPT ![p] = Idle]
    /\ UNCHANGED <<bookVars, shown, seen, clearVars, overlap>>

(* "'since' must be a number": a 400, which is one more failed poll. *)
NoNumber(p) ==
    /\ poll[p].stage = "sent"
    /\ poll[p].since = Undefined
    /\ poll' = [poll EXCEPT ![p] = Idle]
    /\ UNCHANGED <<bookVars, viewVars, clearVars, failures, overlap>>

ClickClear ==
    /\ clear = "idle" /\ clears < MaxClears
    /\ clear' = "sent" /\ clears' = clears + 1
    /\ UNCHANGED <<bookVars, viewVars, poll, failures, overlap, wiped, late>>

(* clearLogs empties the console once the backend has answered, and leaves *)
(* the cursor alone.                                                       *)
ShowCleared ==
    /\ clear = "served"
    /\ clear' = "idle"
    /\ shown' = {}
    /\ UNCHANGED <<bookVars, cursor, seen, clears, wiped, late, poll, failures, overlap>>

(* The answer is lost: the book may have been cleared, the console is not. *)
ClearFails ==
    /\ clear # "idle"
    /\ failures < MaxFailures
    /\ failures' = failures + 1
    /\ clear' = "idle"
    /\ wiped' = Line(0, 1)
    /\ UNCHANGED <<bookVars, viewVars, clears, late, poll, overlap>>

-----------------------------------------------------------------------------

Next ==
    \/ AppendLine \/ ServeClear \/ Restart \/ ClickClear \/ ShowCleared \/ ClearFails
    \/ \E p \in Polls : \/ Tick(p) \/ Answer(p) \/ Receive(p)
                        \/ PollFails(p) \/ CutOff(p) \/ NoNumber(p)

(* The timer keeps firing, and a request that does not fail is answered.   *)
Fairness ==
    \A p \in Polls : WF_vars(Tick(p)) /\ WF_vars(Answer(p) \/ Receive(p) \/ NoNumber(p))

Spec == Init /\ [][Next]_vars /\ Fairness

-----------------------------------------------------------------------------

Cursors == 0 .. MaxLines \cup {Undefined}

TypeOK ==
    /\ run \in 0 .. MaxRestarts
    /\ entries \in Seq(Lines) /\ Len(entries) <= Capacity
    /\ nextSeq \in 1 .. MaxLines + 1
    /\ cursor \in Cursors
    /\ shown \subseteq seen /\ seen \subseteq Lines
    /\ poll \in [Polls -> {Idle} \cup [stage : {"sent"}, since : Cursors]
                   \cup [stage : {"answered"}, lines : SUBSET Lines, cursor : Cursors]]
    /\ clear \in {"idle", "sent", "served"}
    /\ failures \in 0 .. MaxFailures /\ clears \in 0 .. MaxClears
    /\ wiped \in Lines /\ {overlap, late} \subseteq BOOLEAN

(***************************************************************************)
(* As long as the backend answers faster than the timer fires (app.js:546- *)
(* 550, 600), an answer holds only lines newer than all of the console: no *)
(* line is shown twice and none after a newer one, across failed polls,    *)
(* clears and restarts.                                                    *)
(***************************************************************************)
ShownInOrder ==
    \A p \in Polls : poll[p].stage = "answered" /\ ~overlap =>
        \A new \in poll[p].lines, old \in shown : Before(old, new)

(***************************************************************************)
(* The cursor never passes a line that was not shown (logbook.py:38-43),   *)
(* except one the book has lost: pushed out by the capacity or cleared.    *)
(* It holds however polls overlap and fail, until a restart numbers the    *)
(* lines anew under a browser whose cursor is still that of the old run.   *)
(***************************************************************************)
NoneSkipped ==
    run = 0 /\ cursor # Undefined =>
        \A n \in 1 .. cursor : Line(0, n) \in seen \/ ~Contains(entries, Line(0, n))

(***************************************************************************)
(* A cleared console stays cleared (app.js:556-560, logbook.py:45-47):     *)
(* the lines that were cleared do not come back with a later poll, unless  *)
(* one already had its answer.                                             *)
(***************************************************************************)
ClearedStaysCleared ==
    clear = "idle" /\ ~late =>
        \A line \in shown : ~Before(line, wiped)

(***************************************************************************)
(* "the next tick retries" (app.js:552): whatever failed, overlapped or    *)
(* was restarted, the browser ends up at the end of the book and stays     *)
(* there; unless an answer that broke off has cost it its cursor for good. *)
(***************************************************************************)
CatchesUp == <>[](cursor = nextSeq - 1) \/ <>[](cursor = Undefined)
=============================================================================
