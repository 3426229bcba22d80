---------------------------- MODULE ConsoleProofs ----------------------------
(***************************************************************************)
(* The console of the panel for a book of any capacity and any number of   *)
(* polls in flight, of restarts, failures and clears.                      *)
(*                                                                         *)
(* ConsoleInv has, beside TypeOK, the shape of the book (BookOK), one part *)
(* for each of the three properties, and what they share of the lines that *)
(* are on their way or shown already (KnownOK).                            *)
(***************************************************************************)
EXTENDS Console, TLAPS

IsSent(p)     == poll[p].stage = "sent"
IsAnswered(p) == poll[p].stage = "answered"

(* The deque holds the last lines of this run, numbered without a gap.     *)
BookOK ==
    /\ Len(entries) < nextSeq
    /\ \A k \in 1 .. Len(entries) : entries[k] = Line(run, nextSeq - 1 - Len(entries) + k)

(* Lines that left the book are lines the backend has written by now.      *)
Written(line) == line.run <= run /\ (line.run = run => line.seq < nextSeq)

KnownOK ==
    /\ \A line \in seen : Written(line)
    /\ \A p \in Polls : IsAnswered(p) => \A line \in poll[p].lines : Written(line)

(* Up to n, a line of the first run was shown, is in lines or is lost.     *)
Covered(n, lines) ==
    /\ n < nextSeq
    /\ \A m \in 1 .. n : Line(0, m) \in seen \cup lines \/ ~Contains(entries, Line(0, m))

SkippedOK ==
    run = 0 =>
        /\ cursor # Undefined => Covered(cursor, {})
        /\ \A p \in Polls :
             /\ IsSent(p) /\ poll[p].since # Undefined => Covered(poll[p].since, {})
             /\ IsAnswered(p) /\ poll[p].cursor # Undefined =>
                    Covered(poll[p].cursor, poll[p].lines)

(* The lines of this run among ls are not past the cursor n.               *)
Reaches(n, ls) == n # Undefined => \A line \in ls : line.run = run => line.seq <= n

OrderOK ==
    ~overlap =>
        /\ \A p, q \in Polls : poll[p] # Idle /\ poll[q] # Idle => p = q
        /\ Reaches(cursor, shown)
        /\ \A p \in Polls :
             /\ IsSent(p) => poll[p].since = cursor
             /\ IsAnswered(p) =>
                  /\ Reaches(poll[p].cursor, shown \cup poll[p].lines)
                  /\ \A new \in poll[p].lines, old \in shown : Before(old, new)

(* Nothing that was cleared is left but in an answer that was there first. *)
WipedOK ==
    /\ ~Before(Line(run, nextSeq), wiped)
    /\ ~late =>
          /\ \A line \in ToSet(entries) : ~Before(line, wiped)
          /\ \A p \in Polls : IsAnswered(p) => \A line \in poll[p].lines : ~Before(line, wiped)
          /\ clear = "idle" => \A line \in shown : ~Before(line, wiped)

ConsoleInv == TypeOK /\ BookOK /\ KnownOK /\ SkippedOK /\ OrderOK /\ WipedOK

-----------------------------------------------------------------------------

PollType == {Idle} \cup [stage : {"sent"}, since : Cursors]
            \cup [stage : {"answered"}, lines : SUBSET Lines, cursor : Cursors]

(* A request of the browser is idle, sent or answered, and its stage says  *)
(* which (app.js:541-554).                                                 *)
LEMMA StageSays ==
    ASSUME NEW x \in PollType
    PROVE  /\ x = Idle <=> x.stage = "idle"
           /\ x.stage = "sent" => x.since \in Cursors
           /\ x.stage = "answered" => x.cursor \in Cursors /\ x.lines \subseteq Lines
           /\ x.stage \in {"idle", "sent", "answered"}
BY DEF PollType, Idle

(* since (logbook.py:38-43) tells the lines of the book apart by number    *)
(* alone: those it holds are the last ones of this run.                    *)
LEMMA BookHolds ==
    ASSUME TypeOK, BookOK
    PROVE  /\ \A line \in ToSet(entries) : line.run = run /\ line.seq \in 1 .. nextSeq - 1
           /\ \A line : Contains(entries, line) <=> line \in ToSet(entries)
<1>1. entries \in Seq(Lines) /\ nextSeq \in Nat /\ Len(entries) \in Nat
      /\ DOMAIN entries = 1 .. Len(entries)
  BY BoundsAssumption DEF TypeOK
<1>2. \A line : Contains(entries, line) <=> line \in ToSet(entries)
  BY <1>1 DEF Contains, ToSet
<1>3. ASSUME NEW k \in 1 .. Len(entries)
      PROVE  entries[k].run = run /\ entries[k].seq \in 1 .. nextSeq - 1
  <2>1. entries[k] = Line(run, nextSeq - 1 - Len(entries) + k)
    BY DEF BookOK
  <2>2. nextSeq - 1 - Len(entries) + k \in 1 .. nextSeq - 1
    BY <1>1 DEF BookOK
  <2>3. QED
    BY <2>1, <2>2 DEF Line
<1>4. QED
  BY <1>1, <1>2, <1>3 DEF ToSet

(* append (logbook.py:22-36) adds the next line, and all that may go is    *)
(* the oldest.                                                             *)
LEMMA AppendKeepsBook ==
    ASSUME TypeOK, BookOK, AppendLine
    PROVE  /\ entries' \in Seq(Lines) /\ Len(entries') <= Capacity
           /\ BookOK'
           /\ ToSet(entries') \subseteq ToSet(entries) \cup {Line(run, nextSeq)}
<1> DEFINE all == Append(entries, Line(run, nextSeq))
<1>1. entries \in Seq(Lines) /\ nextSeq \in 1 .. MaxLines /\ run \in 0 .. MaxRestarts
      /\ Len(entries) \in Nat /\ Len(entries) <= Capacity
  BY BoundsAssumption DEF TypeOK, AppendLine
<1>2. Line(run, nextSeq) \in Lines
  BY <1>1, BoundsAssumption DEF Line, Lines
<1>3. all \in Seq(Lines) /\ Len(all) = Len(entries) + 1
  BY <1>1, <1>2
<1>4. ASSUME NEW k \in 1 .. Len(all)
      PROVE  /\ all[k] = Line(run, nextSeq - Len(all) + k)
             /\ all[k] \in ToSet(entries) \cup {Line(run, nextSeq)}
  <2>1. CASE k = Len(all)
    <3>1. all[k] = Line(run, nextSeq)
      BY <1>1, <1>2, <1>3, <2>1
    <3>2. nextSeq - Len(all) + k = nextSeq
      BY <1>1, <1>3, <2>1
    <3>3. QED
      BY <3>1, <3>2
  <2>2. CASE k # Len(all)
    <3>1. k \in 1 .. Len(entries) /\ all[k] = entries[k]
      BY <1>1, <1>2, <1>3, <2>2
    <3>2. nextSeq - 1 - Len(entries) + k = nextSeq - Len(all) + k
      BY <1>1, <1>3
    <3>3. entries[k] \in ToSet(entries)
      BY <1>1, <3>1 DEF ToSet
    <3>4. QED
      BY <3>1, <3>2, <3>3 DEF BookOK
  <2>3. QED
    BY <2>1, <2>2
<1>5. /\ nextSeq' = nextSeq + 1
      /\ run' = run
      /\ Len(entries) < nextSeq
      /\ entries' = IF Len(all) > Capacity THEN Tail(all) ELSE all
  BY DEF AppendLine, BookOK
<1>6. CASE Len(all) > Capacity
  <2>1. entries' = Tail(all) /\ Len(entries') = Len(all) - 1 /\ entries' \in Seq(Lines)
        /\ \A k \in 1 .. Len(entries') : entries'[k] = all[k + 1]
    BY <1>1, <1>3, <1>5, <1>6
  <2>2. ASSUME NEW k \in 1 .. Len(entries')
        PROVE  /\ entries'[k] = Line(run, nextSeq' - 1 - Len(entries') + k)
               /\ entries'[k] \in ToSet(entries) \cup {Line(run, nextSeq)}
    <3>1. k + 1 \in 1 .. Len(all)
      BY <1>1, <1>3, <2>1
    <3>2. nextSeq - Len(all) + (k + 1) = nextSeq' - 1 - Len(entries') + k
      <4>1. Len(all) \in Nat /\ Len(entries') = Len(all) - 1 /\ k \in Nat /\ nextSeq \in Nat
            /\ nextSeq' = nextSeq + 1
        BY <1>1, <1>3, <1>5, <2>1
      <4>2. QED
        BY <4>1
    <3>3. QED
      BY <1>4, <2>1, <3>1, <3>2
  <2>3. BookOK'
    <3>1. Len(entries') < nextSeq'
      BY <1>1, <1>3, <1>5, <2>1
    <3>2. \A k \in 1 .. Len(entries') :
             entries'[k] = Line(run', nextSeq' - 1 - Len(entries') + k)
      BY <1>5, <2>2
    <3>3. QED
      BY <3>1, <3>2 DEF BookOK, Line
  <2>4. ToSet(entries') \subseteq ToSet(entries) \cup {Line(run, nextSeq)}
    <3>1. DOMAIN entries' = 1 .. Len(entries')
      BY <2>1
    <3>2. \A line \in ToSet(entries') : \E k \in 1 .. Len(entries') : line = entries'[k]
      BY <3>1 DEF ToSet
    <3>3. QED
      BY <2>2, <3>2
  <2>5. QED
    BY <1>1, <1>3, <2>1, <2>3, <2>4
<1>7. CASE ~(Len(all) > Capacity)
  <2>1. entries' = all
    BY <1>5, <1>7
  <2>2. ASSUME NEW k \in 1 .. Len(all)
        PROVE  all[k] = Line(run, nextSeq' - 1 - Len(all) + k)
    <3>1. nextSeq - Len(all) + k = nextSeq' - 1 - Len(all) + k
      BY <1>1, <1>3, <1>5
    <3>2. QED
      BY <1>4, <3>1
  <2>3. BookOK'
    <3>1. Len(entries') < nextSeq'
      BY <1>1, <1>3, <1>5, <2>1
    <3>2. \A k \in 1 .. Len(entries') :
             entries'[k] = Line(run', nextSeq' - 1 - Len(entries') + k)
      BY <1>5, <2>1, <2>2
    <3>3. QED
      BY <3>1, <3>2 DEF BookOK, Line
  <2>4. ToSet(entries') \subseteq ToSet(entries) \cup {Line(run, nextSeq)}
    <3>1. DOMAIN all = 1 .. Len(all)
      BY <1>3
    <3>2. \A line \in ToSet(entries') : \E k \in 1 .. Len(all) : line = all[k]
      BY <2>1, <3>1 DEF ToSet
    <3>3. QED
      BY <1>4, <3>2
  <2>5. QED
    BY <1>3, <1>7, <2>1, <2>3, <2>4, BoundsAssumption
<1>8. QED
  BY <1>6, <1>7

-----------------------------------------------------------------------------

(* What the backend answers a poll with (logbook.py:38-43): the lines past *)
(* its cursor and the number of the last line.                             *)
LEMMA AnswerHolds ==
    ASSUME TypeOK, BookOK, NEW p \in Polls, Answer(p)
    PROVE  /\ IsSent(p) /\ poll[p].since \in 0 .. MaxLines
           /\ poll' = [poll EXCEPT ![p] = Answered(Newer(poll[p].since), nextSeq - 1)]
           /\ \A q \in Polls : q # p => poll'[q] = poll[q]
           /\ IsAnswered(p)' /\ poll'[p].cursor = nextSeq - 1
           /\ poll'[p].lines = {line \in ToSet(entries) : line.seq > poll[p].since}
           /\ poll'[p].lines \subseteq Lines
<1>1. poll[p] \in PollType /\ poll[p].stage = "sent" /\ poll[p].since # Undefined
  BY DEF TypeOK, PollType, Answer
<1>2. poll[p].since \in 0 .. MaxLines
  BY <1>1, StageSays DEF Cursors
<1>3. poll' = [poll EXCEPT ![p] = Answered(Newer(poll[p].since), nextSeq - 1)]
  BY DEF Answer, CursorFor
<1>4. /\ poll'[p] = Answered(Newer(poll[p].since), nextSeq - 1)
      /\ \A q \in Polls : q # p => poll'[q] = poll[q]
  BY <1>3 DEF TypeOK
<1>5. ToSet(entries) \subseteq Lines
  BY DEF TypeOK, ToSet
<1>6. QED
  BY <1>1, <1>2, <1>3, <1>4, <1>5 DEF IsSent, IsAnswered, Answered, Newer

(* No step of the browser or of the backend leaves the types.              *)
LEMMA TypeStep == ASSUME TypeOK, BookOK, [Next]_vars PROVE TypeOK'
<1> USE BoundsAssumption DEF bookVars, viewVars, clearVars
<1> DEFINE Fits(q) == poll'[q] \in PollType
<1>1. CASE UNCHANGED vars
  BY <1>1 DEF vars, TypeOK, Cursors
<1>2. CASE AppendLine
  <2>1. /\ entries' \in Seq(Lines) /\ Len(entries') <= Capacity /\ nextSeq' \in 1 .. MaxLines + 1
    BY <1>2, AppendKeepsBook DEF AppendLine, TypeOK
  <2>2. QED
    BY <1>2, <2>1 DEF AppendLine, TypeOK, Cursors
<1>3. CASE ServeClear
  <2>1. Line(run, nextSeq) \in Lines
    BY DEF TypeOK, Line, Lines
  <2>2. entries' \in Seq(Lines) /\ Len(entries') <= Capacity
    BY <1>3 DEF ServeClear
  <2>3. late' \in BOOLEAN
    BY <1>3 DEF ServeClear
  <2>4. QED
    BY <1>3, <2>1, <2>2, <2>3 DEF ServeClear, TypeOK, Cursors
<1>4. CASE Restart
  <2>1. run' \in 0 .. MaxRestarts
    BY <1>4 DEF Restart, TypeOK
  <2>2. entries' \in Seq(Lines) /\ Len(entries') <= Capacity /\ nextSeq' \in 1 .. MaxLines + 1
    BY <1>4 DEF Restart
  <2>3. QED
    BY <1>4, <2>1, <2>2 DEF Restart, TypeOK, Cursors
<1>5. CASE ClickClear
  BY <1>5 DEF ClickClear, TypeOK, Cursors
<1>6. CASE ShowCleared
  BY <1>6 DEF ShowCleared, TypeOK, Cursors
<1>7. CASE ClearFails
  <2>1. run \in 0 .. MaxRestarts /\ Line(0, 1) \in Lines
    BY DEF TypeOK, Line, Lines
  <2>2. QED
    BY <1>7, <2>1 DEF ClearFails, TypeOK, Cursors
<1>8. ASSUME NEW p \in Polls, Tick(p)
      PROVE  TypeOK'
  <2>1. Sent(cursor) \in PollType
    BY DEF TypeOK, Sent, PollType
  <2>2. poll' \in [Polls -> PollType]
    BY <1>8, <2>1 DEF Tick, TypeOK, PollType
  <2>3. overlap' \in BOOLEAN
    BY <1>8 DEF Tick
  <2>4. QED
    BY <1>8, <2>2, <2>3 DEF Tick, TypeOK, PollType, Cursors
<1>9. ASSUME NEW p \in Polls, Answer(p)
      PROVE  TypeOK'
  <2>1. /\ poll' = [poll EXCEPT ![p] = Answered(Newer(poll[p].since), nextSeq - 1)]
        /\ Newer(poll[p].since) \subseteq Lines
    BY <1>9, AnswerHolds DEF TypeOK, Newer, ToSet
  <2>2. Answered(Newer(poll[p].since), nextSeq - 1) \in PollType
    BY <2>1 DEF TypeOK, Answered, PollType, Cursors
  <2>3. poll' \in [Polls -> PollType]
    BY <2>1, <2>2 DEF TypeOK, PollType
  <2>4. QED
    BY <1>9, <2>3 DEF Answer, TypeOK, PollType, Cursors
<1>10. ASSUME NEW p \in Polls, Receive(p)
       PROVE  TypeOK'
  <2>1. poll[p] \in PollType /\ poll[p].stage = "answered"
    BY <1>10 DEF Receive, TypeOK, PollType
  <2>2. poll[p].cursor \in Cursors /\ poll[p].lines \subseteq Lines
    BY <2>1, StageSays
  <2>3. poll' \in [Polls -> PollType]
    BY <1>10 DEF Receive, TypeOK, PollType
  <2>4. cursor' \in Cursors /\ shown' \subseteq seen' /\ seen' \subseteq Lines
    BY <1>10, <2>2 DEF Receive, TypeOK
  <2>5. QED
    BY <1>10, <2>3, <2>4 DEF Receive, TypeOK, PollType, Cursors
<1>11. ASSUME NEW p \in Polls, PollFails(p) \/ NoNumber(p) \/ CutOff(p)
       PROVE  TypeOK'
  <2>1. poll' = [poll EXCEPT ![p] = Idle] /\ (cursor' = cursor \/ cursor' = Undefined)
        /\ (failures' = failures \/ (failures < MaxFailures /\ failures' = failures + 1))
        /\ UNCHANGED <<bookVars, clearVars, shown, seen, overlap>>
    BY <1>11 DEF PollFails, NoNumber, CutOff
  <2>2. poll' \in [Polls -> PollType]
    BY <2>1 DEF TypeOK, PollType
  <2>3. cursor' \in Cursors /\ failures' \in 0 .. MaxFailures
    BY <2>1 DEF TypeOK, Cursors
  <2>4. QED
    BY <2>1, <2>2, <2>3 DEF TypeOK, PollType, Cursors
<1>12. QED
  BY <1>1, <1>2, <1>3, <1>4, <1>5, <1>6, <1>7, <1>8, <1>9, <1>10, <1>11 DEF Next

(* Nothing but append, clear and a new run touches the book.               *)
LEMMA BookStep == ASSUME TypeOK, BookOK, [Next]_vars PROVE BookOK'
<1>1. CASE AppendLine
  BY <1>1, AppendKeepsBook
<1>2. CASE ServeClear \/ Restart
  <2>1. entries' = <<>>
    BY <1>2 DEF ServeClear, Restart
  <2>2. nextSeq' = nextSeq \/ nextSeq' = 1
    BY <1>2 DEF ServeClear, Restart
  <2>3. nextSeq' > 0
    BY <2>2, BoundsAssumption DEF TypeOK
  <2>4. Len(entries') = 0
    BY <2>1
  <2>5. QED
    BY <2>3, <2>4 DEF BookOK
<1>3. CASE UNCHANGED bookVars
  BY <1>3 DEF bookVars, BookOK, Line
<1>4. QED
  BY <1>1, <1>2, <1>3
  DEF Next, vars, ClickClear, ShowCleared, ClearFails, Tick, Answer, Receive, PollFails, CutOff,
      NoNumber

(* A request that is over, or is sent, takes the place of no other.        *)
LEMMA PollBecomes ==
    ASSUME TypeOK, NEW p \in Polls, NEW x, poll' = [poll EXCEPT ![p] = x]
    PROVE  poll'[p] = x /\ \A q \in Polls : q # p => poll'[q] = poll[q]
BY DEF TypeOK

(* A line on the console, or on its way there, was written (logbook.py:    *)
(* 22-36): a new run starts out with all lines behind it.                  *)
LEMMA KnownStep == ASSUME TypeOK, BookOK, KnownOK, [Next]_vars PROVE KnownOK'
<1> DEFINE Now(line) == line.run <= run' /\ (line.run = run' => line.seq < nextSeq')
<1>1. ASSUME NEW line \in Lines, Written(line)
      PROVE  Now(line)
  <2>1. line.run \in Nat /\ line.seq \in Nat /\ run \in Nat /\ nextSeq \in Nat
    BY BoundsAssumption DEF Lines, TypeOK
  <2>2. \/ run' = run /\ (nextSeq' = nextSeq \/ nextSeq' = nextSeq + 1)
        \/ run' = run + 1
    BY DEF Next, vars, bookVars, AppendLine, Restart, ServeClear, ClickClear, ShowCleared,
           ClearFails, Tick, Answer, Receive, PollFails, CutOff, NoNumber
  <2>3. QED
    BY <1>1, <2>1, <2>2 DEF Written
<1>2. ASSUME NEW line \in seen
      PROVE  Now(line)
  BY <1>1 DEF TypeOK, KnownOK
<1>3. ASSUME NEW p \in Polls, IsAnswered(p), NEW line \in poll[p].lines
      PROVE  Now(line)
  <2>1. line \in Lines
    BY <1>3, StageSays DEF TypeOK, PollType, IsAnswered
  <2>2. QED
    BY <1>1, <1>3, <2>1 DEF KnownOK
<1>4. CASE UNCHANGED <<poll, seen>>
  BY <1>2, <1>3, <1>4 DEF KnownOK, IsAnswered, Written
<1>5. ASSUME NEW p \in Polls, Tick(p) \/ PollFails(p) \/ CutOff(p) \/ NoNumber(p)
      PROVE  KnownOK'
  <2>1. poll' = [poll EXCEPT ![p] = Idle] \/ poll' = [poll EXCEPT ![p] = Sent(cursor)]
    BY <1>5 DEF Tick, PollFails, CutOff, NoNumber
  <2>2. ~IsAnswered(p)' /\ \A q \in Polls : q # p => poll'[q] = poll[q]
    BY <2>1, PollBecomes DEF IsAnswered, Idle, Sent
  <2>3. seen' = seen
    BY <1>5 DEF Tick, PollFails, CutOff, NoNumber, viewVars
  <2>4. QED
    BY <1>2, <1>3, <2>2, <2>3 DEF KnownOK, IsAnswered, Written
<1>6. ASSUME NEW p \in Polls, Answer(p)
      PROVE  KnownOK'
  <2>1. \A line \in poll'[p].lines : line.run = run /\ line.seq \in 1 .. nextSeq - 1
    BY <1>6, AnswerHolds, BookHolds
  <2>2. run' = run /\ nextSeq' = nextSeq /\ seen' = seen /\ run \in Nat /\ nextSeq \in Nat
    BY <1>6, BoundsAssumption DEF Answer, bookVars, viewVars, TypeOK
  <2>3. \A line \in poll'[p].lines : Now(line)
    BY <2>1, <2>2
  <2>4. \A q \in Polls : q # p => poll'[q] = poll[q]
    BY <1>6, AnswerHolds
  <2>5. QED
    BY <1>2, <1>3, <2>2, <2>3, <2>4 DEF KnownOK, IsAnswered, Written
<1>7. ASSUME NEW p \in Polls, Receive(p)
      PROVE  KnownOK'
  <2>1. poll' = [poll EXCEPT ![p] = Idle]
    BY <1>7 DEF Receive
  <2>2. poll'[p] = Idle /\ \A q \in Polls : q # p => poll'[q] = poll[q]
    BY <2>1, PollBecomes
  <2>3. ~IsAnswered(p)'
    BY <2>2 DEF IsAnswered, Idle
  <2>4. seen' = seen \cup poll[p].lines /\ IsAnswered(p)
    BY <1>7 DEF Receive, IsAnswered
  <2>5. QED
    BY <1>2, <1>3, <2>2, <2>3, <2>4 DEF KnownOK, IsAnswered, Written
<1>8. QED
  BY <1>4, <1>5, <1>6, <1>7
  DEF Next, vars, viewVars, AppendLine, Restart, ServeClear, ClickClear, ShowCleared, ClearFails

-----------------------------------------------------------------------------

(* What the cursor of the browser has passed stays shown or lost: since    *)
(* (logbook.py:38-43) gives all that is past it, and pollLogs (app.js:     *)
(* 541-554) moves it only with the lines it was given.                     *)
LEMMA SkippedStep == ASSUME TypeOK, BookOK, SkippedOK, [Next]_vars PROVE SkippedOK'
<1> SUFFICES ASSUME run' = 0 PROVE SkippedOK'
  BY DEF SkippedOK
<1>1. run \in Nat /\ nextSeq \in Nat /\ nextSeq >= 1 /\ Undefined \notin Nat
  BY BoundsAssumption DEF TypeOK
<1>2. run = 0 /\ run' = run /\ seen \subseteq seen'
      /\ (nextSeq' = nextSeq \/ nextSeq' = nextSeq + 1)
  <2>1. ~Restart
    BY <1>1 DEF Restart
  <2>2. seen \subseteq seen'
    BY DEF Next, vars, viewVars, AppendLine, Restart, ServeClear, ClickClear, ShowCleared,
           ClearFails, Tick, Answer, Receive, PollFails, CutOff, NoNumber
  <2>3. run' = run /\ (nextSeq' = nextSeq \/ nextSeq' = nextSeq + 1)
    BY <2>1 DEF Next, vars, bookVars, AppendLine, ServeClear, ClickClear, ShowCleared,
           ClearFails, Tick, Answer, Receive, PollFails, CutOff, NoNumber
  <2>4. QED
    BY <2>2, <2>3
<1>3. \A line : Contains(entries', line) =>
                  Contains(entries, line) \/ (line = Line(0, nextSeq) /\ nextSeq' = nextSeq + 1)
  <2>1. CASE AppendLine
    <3>1. entries' \in Seq(Lines)
      BY <2>1, AppendKeepsBook
    <3>2. \A line : Contains(entries', line) => line \in ToSet(entries')
      BY <3>1 DEF Contains, ToSet
    <3>3. nextSeq' = nextSeq + 1
      BY <2>1 DEF AppendLine
    <3>4. QED
      BY <1>2, <2>1, <3>2, <3>3, AppendKeepsBook, BookHolds
  <2>2. CASE ServeClear
    <3>1. Len(entries') = 0
      BY <2>2 DEF ServeClear
    <3>2. QED
      BY <3>1 DEF Contains
  <2>3. CASE entries' = entries
    BY <2>3 DEF Contains
  <2>4. QED
    BY <1>1, <1>2, <2>1, <2>2, <2>3
    DEF Next, vars, bookVars, Restart, ClickClear, ShowCleared, ClearFails, Tick, Answer,
        Receive, PollFails, CutOff, NoNumber
<1>4. ASSUME NEW n \in Nat, NEW ls, Covered(n, ls)
      PROVE  Covered(n, ls)'
  <2>1. ASSUME NEW m \in 1 .. n
        PROVE  Line(0, m) # Line(0, nextSeq)
    <3>1. m < nextSeq
      BY <1>1, <1>4 DEF Covered
    <3>2. m # nextSeq
      BY <1>1, <3>1
    <3>3. QED
      BY <3>2 DEF Line
  <2>2. n < nextSeq'
    BY <1>1, <1>2, <1>4 DEF Covered
  <2>3. QED
    BY <1>2, <1>3, <1>4, <2>1, <2>2 DEF Covered, Line
<1>5. ASSUME NEW c \in Cursors, c # Undefined
      PROVE  c \in Nat
  BY <1>5 DEF Cursors
<1>6. ASSUME NEW q \in Polls
      PROVE  /\ IsSent(q) => poll[q].since \in Cursors
             /\ IsAnswered(q) => poll[q].cursor \in Cursors
  BY StageSays DEF TypeOK, PollType, IsSent, IsAnswered
<1> DEFINE CursorFine == cursor' # Undefined => Covered(cursor, {})'
           PollFine(q) == /\ IsSent(q)' /\ poll'[q].since # Undefined =>
                               Covered(poll[q].since, {})'
                          /\ IsAnswered(q)' /\ poll'[q].cursor # Undefined =>
                               Covered(poll[q].cursor, poll[q].lines)'
<1>7. CursorFine /\ (\A q \in Polls : PollFine(q)) => SkippedOK'
  BY DEF SkippedOK
<1>8. ASSUME cursor' = cursor \/ cursor' = Undefined
      PROVE  CursorFine
  <2>1. cursor \in Cursors /\ (cursor # Undefined => Covered(cursor, {}))
    BY <1>2 DEF TypeOK, SkippedOK
  <2>2. CASE cursor' = cursor
    BY <1>4, <1>5, <2>1, <2>2 DEF Covered
  <2>3. QED
    BY <1>8, <2>2
<1>9. ASSUME NEW q \in Polls, poll'[q] = poll[q]
      PROVE  PollFine(q)
  <2>1. CASE IsSent(q) /\ poll[q].since # Undefined
    <3>1. Covered(poll[q].since, {}) /\ poll[q].since \in Nat
      BY <1>2, <1>5, <1>6, <2>1 DEF SkippedOK
    <3>2. QED
      BY <1>4, <1>9, <2>1, <3>1 DEF IsSent, IsAnswered, Covered
  <2>2. CASE IsAnswered(q) /\ poll[q].cursor # Undefined
    <3>1. Covered(poll[q].cursor, poll[q].lines) /\ poll[q].cursor \in Nat
      BY <1>2, <1>5, <1>6, <2>2 DEF SkippedOK
    <3>2. QED
      BY <1>4, <1>9, <2>2, <3>1 DEF IsSent, IsAnswered, Covered
  <2>3. QED
    BY <1>9, <2>1, <2>2 DEF IsSent, IsAnswered
<1>10. CASE UNCHANGED <<cursor, poll>>
  BY <1>7, <1>8, <1>9, <1>10
<1>11. ASSUME NEW p \in Polls, Tick(p)
       PROVE  SkippedOK'
  <2>1. poll'[p] = Sent(cursor) /\ \A q \in Polls : q # p => poll'[q] = poll[q]
    BY <1>11, PollBecomes DEF Tick
  <2>2. cursor' = cursor
    BY <1>11 DEF Tick, viewVars
  <2>3. CursorFine
    BY <1>8, <2>2
  <2>4. PollFine(p)
    BY <2>1, <2>2, <2>3 DEF Sent, IsSent, IsAnswered, Covered
  <2>5. QED
    BY <1>7, <1>9, <2>1, <2>3, <2>4
<1>12. ASSUME NEW p \in Polls, PollFails(p) \/ CutOff(p) \/ NoNumber(p)
       PROVE  SkippedOK'
  <2>1. poll' = [poll EXCEPT ![p] = Idle] /\ (cursor' = cursor \/ cursor' = Undefined)
    BY <1>12 DEF PollFails, CutOff, NoNumber, viewVars
  <2>2. poll'[p] = Idle /\ \A q \in Polls : q # p => poll'[q] = poll[q]
    BY <2>1, PollBecomes
  <2>3. PollFine(p)
    BY <2>2 DEF Idle, IsSent, IsAnswered
  <2>4. QED
    BY <1>7, <1>8, <1>9, <2>1, <2>2, <2>3
<1>13. ASSUME NEW p \in Polls, Answer(p)
       PROVE  SkippedOK'
  <2> DEFINE since == poll[p].since
  <2>1. /\ IsSent(p) /\ since \in Nat /\ since # Undefined
        /\ IsAnswered(p)' /\ poll'[p].cursor = nextSeq - 1
        /\ poll'[p].lines = {line \in ToSet(entries) : line.seq > since}
        /\ \A q \in Polls : q # p => poll'[q] = poll[q]
    BY <1>1, <1>13, AnswerHolds
  <2>2. UNCHANGED <<cursor, seen, entries, nextSeq>>
    BY <1>13 DEF Answer, viewVars, bookVars
  <2>3. Covered(since, {})
    BY <1>2, <2>1 DEF SkippedOK
  <2>4. ASSUME NEW m \in 1 .. nextSeq - 1
        PROVE  Line(0, m) \in seen \cup poll'[p].lines \/ ~Contains(entries, Line(0, m))
    <3>1. CASE m <= since
      BY <2>1, <2>3, <3>1 DEF Covered
    <3>2. CASE m > since
      BY <2>1, <3>2, BookHolds DEF Line
    <3>3. QED
      BY <1>1, <2>1, <3>1, <3>2
  <2>5. PollFine(p)
    BY <1>1, <2>1, <2>2, <2>4 DEF IsSent, IsAnswered, Covered, Line
  <2>6. QED
    BY <1>7, <1>8, <1>9, <2>1, <2>2, <2>5
<1>14. ASSUME NEW p \in Polls, Receive(p)
       PROVE  SkippedOK'
  <2>1. /\ IsAnswered(p) /\ cursor' = poll[p].cursor
        /\ seen' = seen \cup poll[p].lines /\ poll' = [poll EXCEPT ![p] = Idle]
        /\ UNCHANGED <<entries, nextSeq>>
    BY <1>14 DEF Receive, IsAnswered, bookVars
  <2>2. poll'[p] = Idle /\ \A q \in Polls : q # p => poll'[q] = poll[q]
    BY <2>1, PollBecomes
  <2>3. PollFine(p)
    BY <2>2 DEF Idle, IsSent, IsAnswered
  <2>4. CursorFine
    <3>1. poll[p].cursor # Undefined => Covered(poll[p].cursor, poll[p].lines)
      BY <1>2, <2>1 DEF SkippedOK
    <3>2. QED
      BY <2>1, <3>1 DEF Covered, Line
  <2>5. QED
    BY <1>7, <1>9, <2>2, <2>3, <2>4
<1>15. QED
  BY <1>10, <1>11, <1>12, <1>13, <1>14
  DEF Next, vars, viewVars, AppendLine, Restart, ServeClear, ClickClear, ShowCleared, ClearFails

-----------------------------------------------------------------------------

(* One poll at a time (app.js:600) asks from where the console ends, and   *)
(* is answered with what comes after it.                                   *)
LEMMA OrderStep == ASSUME TypeOK, BookOK, KnownOK, OrderOK, [Next]_vars PROVE OrderOK'
<1> SUFFICES ASSUME ~overlap' PROVE OrderOK'
  BY DEF OrderOK
<1>1. ~overlap
  BY DEF Next, vars, AppendLine, Restart, ServeClear, ClickClear, ShowCleared, ClearFails,
         Tick, Answer, Receive, PollFails, CutOff, NoNumber
<1>2. /\ Reaches(cursor, shown)
      /\ \A p, q \in Polls : poll[p] # Idle /\ poll[q] # Idle => p = q
      /\ \A p \in Polls : IsSent(p) => poll[p].since = cursor
      /\ \A p \in Polls : IsAnswered(p) =>
           /\ Reaches(poll[p].cursor, shown \cup poll[p].lines)
           /\ \A new \in poll[p].lines, old \in shown : Before(old, new)
  BY <1>1 DEF OrderOK
<1>3. \A q \in Polls : poll[q] = Idle => ~IsSent(q) /\ ~IsAnswered(q)
  BY DEF Idle, IsSent, IsAnswered
<1>4. CASE UNCHANGED <<run, cursor, shown, poll>>
  BY <1>2, <1>4 DEF OrderOK, Reaches, IsSent, IsAnswered
<1>5. CASE ShowCleared
  <2>1. shown' = {} /\ UNCHANGED <<run, cursor, poll>>
    BY <1>5 DEF ShowCleared, bookVars
  <2>2. QED
    BY <1>2, <2>1 DEF OrderOK, Reaches, IsSent, IsAnswered
<1>6. CASE Restart
  <2>1. run' = run + 1 /\ UNCHANGED <<cursor, shown, poll>> /\ run \in Nat
    BY <1>6, BoundsAssumption DEF Restart, viewVars, TypeOK
  <2>2. \A line \in seen : line.run # run'
    BY <2>1, BoundsAssumption DEF TypeOK, KnownOK, Written, Lines
  <2>3. ASSUME NEW p \in Polls, IsAnswered(p), NEW line \in poll[p].lines
        PROVE  line.run # run'
    <3>1. line \in Lines
      BY <2>3, StageSays DEF TypeOK, PollType, IsAnswered
    <3>2. line.run \in Nat /\ line.run <= run
      BY <2>3, <3>1, BoundsAssumption DEF KnownOK, Written, Lines
    <3>3. QED
      BY <2>1, <3>2
  <2>4. shown \subseteq seen
    BY DEF TypeOK
  <2>5. QED
    BY <1>2, <2>1, <2>2, <2>3, <2>4 DEF OrderOK, Reaches, IsSent, IsAnswered
<1>7. ASSUME NEW p \in Polls, Tick(p)
      PROVE  OrderOK'
  <2>1. UNCHANGED <<run, cursor, shown>> /\ poll' = [poll EXCEPT ![p] = Sent(cursor)]
        /\ \A q \in Polls : poll[q] = Idle
    BY <1>7 DEF Tick, bookVars, viewVars
  <2>2. poll'[p] = Sent(cursor) /\ \A q \in Polls : q # p => poll'[q] = Idle
    BY <2>1, PollBecomes
  <2>3. IsSent(p)' /\ ~IsAnswered(p)' /\ poll'[p].since = cursor'
    BY <2>1, <2>2 DEF IsSent, IsAnswered, Sent
  <2>4. \A q \in Polls : q # p => ~IsSent(q)' /\ ~IsAnswered(q)' /\ poll'[q] = Idle
    BY <2>2 DEF Idle, IsSent, IsAnswered
  <2>5. QED
    BY <1>2, <2>1, <2>3, <2>4 DEF OrderOK, Reaches
<1>8. ASSUME NEW p \in Polls, poll[p] # Idle, poll' = [poll EXCEPT ![p] = Idle],
             Reaches(cursor, shown)'
      PROVE  OrderOK'
  <2>1. \A q \in Polls : poll'[q] = Idle
    BY <1>2, <1>8, PollBecomes
  <2>2. \A q \in Polls : ~IsSent(q)' /\ ~IsAnswered(q)'
    BY <2>1 DEF Idle, IsSent, IsAnswered
  <2>3. QED
    BY <1>8, <2>1, <2>2 DEF OrderOK
<1>9. ASSUME NEW p \in Polls, PollFails(p) \/ NoNumber(p)
      PROVE  OrderOK'
  <2>1. poll' = [poll EXCEPT ![p] = Idle] /\ UNCHANGED <<run, cursor, shown>> /\ poll[p] # Idle
    BY <1>9 DEF PollFails, NoNumber, bookVars, viewVars, Idle
  <2>2. Reaches(cursor, shown)'
    BY <1>2, <2>1 DEF Reaches
  <2>3. QED
    BY <1>8, <2>1, <2>2
<1>10. ASSUME NEW p \in Polls, CutOff(p)
       PROVE  OrderOK'
  <2>1. poll' = [poll EXCEPT ![p] = Idle] /\ cursor' = Undefined /\ poll[p] # Idle
    BY <1>10 DEF CutOff, Idle
  <2>2. Reaches(cursor, shown)'
    BY <2>1 DEF Reaches
  <2>3. QED
    BY <1>8, <2>1, <2>2
<1>11. ASSUME NEW p \in Polls, Receive(p)
       PROVE  OrderOK'
  <2>1. /\ poll' = [poll EXCEPT ![p] = Idle] /\ cursor' = poll[p].cursor /\ run' = run
        /\ shown' = shown \cup poll[p].lines /\ poll[p] # Idle /\ IsAnswered(p)
    BY <1>11 DEF Receive, IsAnswered, bookVars, Idle
  <2>2. Reaches(cursor, shown)'
    BY <1>2, <2>1 DEF Reaches
  <2>3. QED
    BY <1>8, <2>1, <2>2
<1>12. ASSUME NEW p \in Polls, Answer(p)
       PROVE  OrderOK'
  <2> DEFINE lines == poll'[p].lines
  <2>1. /\ IsSent(p) /\ poll[p].since \in 0 .. MaxLines
        /\ IsAnswered(p)' /\ poll'[p].cursor = nextSeq - 1
        /\ lines = {line \in ToSet(entries) : line.seq > poll[p].since}
        /\ \A q \in Polls : q # p => poll'[q] = poll[q]
    BY <1>12, AnswerHolds
  <2>2. UNCHANGED <<run, cursor, shown>> /\ nextSeq \in Nat /\ run \in Nat
    BY <1>12, BoundsAssumption DEF Answer, bookVars, viewVars, TypeOK
  <2>3. poll[p].since = cursor /\ poll[p] # Idle /\ cursor \in Nat /\ cursor # Undefined
    BY <1>2, <1>3, <2>1, BoundsAssumption
  <2>4. \A line \in lines : line.run = run /\ line.seq \in Nat /\ line.seq > cursor
                            /\ line.seq <= nextSeq - 1
    BY <2>1, <2>2, <2>3, BookHolds
  <2>5. ASSUME NEW line \in shown
        PROVE  /\ line.run \in Nat /\ line.seq \in Nat /\ line.run <= run
               /\ line.run = run => line.seq <= cursor /\ line.seq <= nextSeq - 1
    <3>1. line \in Lines /\ Written(line)
      BY DEF TypeOK, KnownOK
    <3>2. line.run = run => line.seq <= cursor
      BY <1>2, <2>3 DEF Reaches
    <3>3. QED
      BY <2>2, <3>1, <3>2, BoundsAssumption DEF Lines, Written
  <2>6. \A new \in lines, old \in shown : Before(old, new)
    BY <2>2, <2>3, <2>4, <2>5 DEF Before
  <2>7. \A q \in Polls : q # p => poll'[q] = Idle
    BY <1>2, <2>1, <2>3
  <2>8. \A q \in Polls : q # p => ~IsSent(q)' /\ ~IsAnswered(q)' /\ poll'[q] = Idle
    BY <2>7 DEF Idle, IsSent, IsAnswered
  <2>9. ~IsSent(p)'
    BY <2>1 DEF IsSent, IsAnswered
  <2>10. Reaches(cursor, shown)'
    BY <1>2, <2>2 DEF Reaches
  <2>11. Reaches(poll[p].cursor, shown \cup poll[p].lines)'
    BY <2>1, <2>2, <2>4, <2>5 DEF Reaches
  <2>12. QED
    BY <2>1, <2>2, <2>6, <2>8, <2>9, <2>10, <2>11 DEF OrderOK
<1>13. QED
  BY <1>4, <1>5, <1>6, <1>7, <1>9, <1>10, <1>11, <1>12
  DEF Next, vars, bookVars, viewVars, AppendLine, ServeClear, ClickClear, ClearFails

-----------------------------------------------------------------------------

(* A cleared book starts again where wiped says (logbook.py:45-47), and an *)
(* answer given from then on has newer lines only.                         *)
LEMMA WipedStep == ASSUME TypeOK, BookOK, KnownOK, WipedOK, [Next]_vars PROVE WipedOK'
<1>1. wiped \in Lines /\ run \in Nat /\ nextSeq \in Nat
  BY BoundsAssumption DEF TypeOK
<1>2. ASSUME NEW p \in Polls, IsAnswered(p)
      PROVE  poll[p].lines \subseteq Lines
  BY <1>2, StageSays DEF TypeOK, PollType, IsAnswered
<1>3. CASE UNCHANGED vars
  BY <1>3 DEF vars, bookVars, viewVars, clearVars, WipedOK, IsAnswered, Line
<1>4. CASE AppendLine
  <2>1. /\ nextSeq' = nextSeq + 1 /\ UNCHANGED <<run, shown, clear, wiped, late, poll>>
        /\ ToSet(entries') \subseteq ToSet(entries) \cup {Line(run, nextSeq)}
    BY <1>4, AppendKeepsBook DEF AppendLine, viewVars, clearVars
  <2>2. ~Before(Line(run, nextSeq + 1), wiped)
    BY <1>1 DEF WipedOK, Before, Line, Lines
  <2>3. QED
    BY <2>1, <2>2 DEF WipedOK, IsAnswered, Line, Before
<1>5. CASE ServeClear
  <2>1. /\ ToSet(entries') = {} /\ clear' = "served" /\ wiped' = Line(run, nextSeq)
        /\ UNCHANGED <<run, nextSeq, poll>>
    BY <1>5 DEF ServeClear, ToSet
  <2>2. ~late' => \A p \in Polls : ~IsAnswered(p)
    BY <1>5 DEF ServeClear, IsAnswered
  <2>3. ~Before(Line(run, nextSeq), wiped')
    BY <1>1, <2>1 DEF Before, Line
  <2>4. QED
    BY <2>1, <2>2, <2>3 DEF WipedOK, IsAnswered, Line
<1>6. CASE Restart
  <2>1. /\ ToSet(entries') = {} /\ run' = run + 1 /\ nextSeq' = 1
        /\ UNCHANGED <<shown, clear, wiped, late, poll>>
    BY <1>6 DEF Restart, viewVars, clearVars, ToSet
  <2>2. ~Before(Line(run + 1, 1), wiped)
    BY <1>1, BoundsAssumption DEF WipedOK, Before, Line, Lines
  <2>3. QED
    BY <2>1, <2>2 DEF WipedOK, IsAnswered, Line
<1>7. CASE ClickClear
  BY <1>7 DEF ClickClear, bookVars, viewVars, WipedOK, IsAnswered, Line
<1>8. CASE ShowCleared
  BY <1>8 DEF ShowCleared, bookVars, WipedOK, IsAnswered, Line
<1>9. CASE ClearFails
  <2>1. wiped' = Line(0, 1) /\ UNCHANGED <<run, entries, nextSeq, shown, poll>>
    BY <1>9 DEF ClearFails, bookVars, viewVars
  <2>2. \A line \in Lines : ~Before(line, Line(0, 1))
    BY BoundsAssumption DEF Lines, Before, Line
  <2>3. ToSet(entries) \subseteq Lines /\ shown \subseteq Lines
    BY DEF TypeOK, ToSet
  <2>4. ~Before(Line(run, nextSeq), Line(0, 1))
    BY <1>1, BoundsAssumption DEF TypeOK, Before, Line
  <2>5. QED
    BY <1>2, <2>1, <2>2, <2>3, <2>4 DEF WipedOK, IsAnswered, Line
<1>10. ASSUME NEW p \in Polls, Tick(p) \/ PollFails(p) \/ CutOff(p) \/ NoNumber(p)
       PROVE  WipedOK'
  <2>1. poll' = [poll EXCEPT ![p] = Idle] \/ poll' = [poll EXCEPT ![p] = Sent(cursor)]
    BY <1>10 DEF Tick, PollFails, CutOff, NoNumber
  <2>2. ~IsAnswered(p)' /\ \A q \in Polls : q # p => poll'[q] = poll[q]
    BY <2>1, PollBecomes DEF IsAnswered, Idle, Sent
  <2>3. UNCHANGED <<run, nextSeq, entries, shown, clear, wiped, late>>
    BY <1>10 DEF Tick, PollFails, CutOff, NoNumber, bookVars, viewVars, clearVars
  <2>4. QED
    BY <2>2, <2>3 DEF WipedOK, IsAnswered, Line
<1>11. ASSUME NEW p \in Polls, Answer(p)
       PROVE  WipedOK'
  <2>1. /\ poll'[p].lines \subseteq ToSet(entries)
        /\ \A q \in Polls : q # p => poll'[q] = poll[q]
    BY <1>11, AnswerHolds
  <2>2. UNCHANGED <<run, nextSeq, entries, shown, clear, wiped, late>>
    BY <1>11 DEF Answer, bookVars, viewVars, clearVars
  <2>3. QED
    BY <2>1, <2>2 DEF WipedOK, IsAnswered, Line
<1>12. ASSUME NEW p \in Polls, Receive(p)
       PROVE  WipedOK'
  <2>1. poll' = [poll EXCEPT ![p] = Idle] /\ shown' = shown \cup poll[p].lines /\ IsAnswered(p)
        /\ UNCHANGED <<run, nextSeq, entries, clear, wiped, late>>
    BY <1>12 DEF Receive, IsAnswered, bookVars, clearVars
  <2>2. poll'[p] = Idle /\ \A q \in Polls : q # p => poll'[q] = poll[q]
    BY <2>1, PollBecomes
  <2>3. ~IsAnswered(p)'
    BY <2>2 DEF IsAnswered, Idle
  <2>4. QED
    BY <2>1, <2>2, <2>3 DEF WipedOK, IsAnswered, Line
<1>13. QED
  BY <1>3, <1>4, <1>5, <1>6, <1>7, <1>8, <1>9, <1>10, <1>11, <1>12 DEF Next, vars, bookVars,
     viewVars, clearVars

-----------------------------------------------------------------------------

(* The page opens on a book that may have no line yet.                     *)
LEMMA ConsoleInit == Init => ConsoleInv
<1> SUFFICES ASSUME Init PROVE ConsoleInv
  OBVIOUS
<1>1. Idle \in PollType /\ Line(0, 1) \in Lines
  BY BoundsAssumption DEF PollType, Line, Lines
<1>2. entries = <<>> /\ entries \in Seq(Lines) /\ Len(entries) = 0 /\ ToSet(entries) = {}
  BY DEF Init, ToSet
<1>3. \A p \in Polls : poll[p] = Idle /\ ~IsSent(p) /\ ~IsAnswered(p)
  BY DEF Init, Idle, IsSent, IsAnswered
<1>4. TypeOK
  <2>1. poll \in [Polls -> PollType]
    BY <1>1 DEF Init
  <2>2. run \in 0 .. MaxRestarts /\ nextSeq \in 1 .. MaxLines + 1 /\ cursor \in Cursors
        /\ failures \in 0 .. MaxFailures /\ clears \in 0 .. MaxClears
    BY BoundsAssumption DEF Init, Cursors
  <2>3. Len(entries) <= Capacity
    BY <1>2, BoundsAssumption
  <2>4. shown \subseteq seen /\ seen \subseteq Lines /\ clear \in {"idle", "sent", "served"}
        /\ wiped \in Lines /\ {overlap, late} \subseteq BOOLEAN
    BY <1>1 DEF Init
  <2>5. QED
    BY <1>2, <2>1, <2>2, <2>3, <2>4 DEF TypeOK, PollType
<1>5. BookOK /\ KnownOK
  BY <1>2, <1>3 DEF Init, BookOK, KnownOK
<1>6. SkippedOK
  BY <1>3 DEF Init, SkippedOK, Covered
<1>7. OrderOK
  BY <1>3 DEF Init, OrderOK, Reaches
<1>8. WipedOK
  BY <1>2, <1>3 DEF Init, WipedOK, Before, Line
<1>9. QED
  BY <1>4, <1>5, <1>6, <1>7, <1>8 DEF ConsoleInv

(* logbook.py and app.js keep ConsoleInv, whatever the timer does.         *)
THEOREM ConsoleInvariant == Spec => []ConsoleInv
<1>1. ConsoleInv /\ [Next]_vars => ConsoleInv'
  BY TypeStep, BookStep, KnownStep, SkippedStep, OrderStep, WipedStep DEF ConsoleInv
<1>2. QED
  BY <1>1, ConsoleInit, PTL DEF Spec

(* Book, console, cursor and requests have their types; the book never     *)
(* holds more than its capacity (logbook.py:17).                           *)
THEOREM ConsoleTypes == Spec => []TypeOK
<1>1. ConsoleInv => TypeOK
  BY DEF ConsoleInv
<1>2. QED
  BY <1>1, ConsoleInvariant, PTL

(* As long as no two polls are in flight (app.js:546-550, 600), no line is *)
(* shown twice and none after a newer one, across failures, clears and     *)
(* restarts.                                                               *)
THEOREM LinesAreShownInOrder == Spec => []ShownInOrder
<1>1. ConsoleInv => ShownInOrder
  BY DEF ConsoleInv, OrderOK, IsAnswered, ShownInOrder
<1>2. QED
  BY <1>1, ConsoleInvariant, PTL

(* The cursor passes no line that is still in the book and was not shown   *)
(* (logbook.py:38-43), however polls overlap, fail and are cut off.        *)
THEOREM NoLineIsSkipped == Spec => []NoneSkipped
<1>1. ConsoleInv => NoneSkipped
  <2>1. SUFFICES ASSUME ConsoleInv, run = 0, cursor # Undefined, NEW n \in 1 .. cursor
                 PROVE  Line(0, n) \in seen \/ ~Contains(entries, Line(0, n))
    BY DEF NoneSkipped
  <2>2. QED
    BY <2>1 DEF ConsoleInv, SkippedOK, Covered
<1>2. QED
  BY <1>1, ConsoleInvariant, PTL

(* What the clear button cleared (app.js:556-560, logbook.py:45-47) does   *)
(* not come back, unless in an answer that was given before.               *)
THEOREM ClearedLinesStayAway == Spec => []ClearedStaysCleared
<1>1. ConsoleInv => ClearedStaysCleared
  BY DEF ConsoleInv, WipedOK, ClearedStaysCleared
<1>2. QED
  BY <1>1, ConsoleInvariant, PTL

=============================================================================
