---------------------------- MODULE AsyncLogging ----------------------------
(***************************************************************************)
(* master/base/AsyncLogging.cc over LogFile and FileUtil::AppendFile: front*)
(* ends append lines to a buffer, a writer thread swaps the filled buffers *)
(* out and writes them to a file that it rolls by size and by day.         *)
(*                                                                         *)
(* A line is its number; lineSizes has its length.  append() and the swap  *)
(* are one step each, since both hold mutex_.  The wait of the writer is   *)
(* timed, so it can always end, and cond_.notify() only shortens it.  The  *)
(* clock may be stepped back.                                              *)
(***************************************************************************)
EXTENDS Naturals, Sequences, SequencesExt

CONSTANTS
  kLargeBuffer,      \* size of a buffer
  LineSizes,         \* the lengths of the lines
  MaxLines,          \* bound on the lines appended
  KeptBuffers,       \* 25: with more buffers than this the writer drops some
  rollSize_, kRollPerSeconds_, checkEveryN_, flushInterval_,
  MaxTime,           \* bound on the clock, in seconds
  NoBuffer           \* a unique_ptr that has been moved from

ASSUME LogBounds ==
  /\ {MaxTime, MaxLines, KeptBuffers} \subseteq Nat
  /\ KeptBuffers > 0 /\ NoBuffer # <<>>

VARIABLES
  lineSizes,         \* history: the length of each line given to append()
  lost,              \* history: the lines given up, by FixedBuffer, the writer or the disk
  currentBuffer_, nextBuffer_, buffers_, logRunning_,
  owner,             \* start() and stop(): "new", "starting", "started", "stopping", "stopped"
  writer,            \* place of the writer thread
  newBuffer1, newBuffer2, buffersToWrite, unwritten,
  output,            \* the LogFile
  now                \* time(NULL)

logVars == <<lineSizes, lost, currentBuffer_, nextBuffer_, buffers_, logRunning_, owner, writer,
             newBuffer1, newBuffer2, buffersToWrite, unwritten, output, now>>
frontVars == <<lineSizes, currentBuffer_, nextBuffer_, buffers_>>
writerVars == <<writer, newBuffer1, newBuffer2, buffersToWrite, unwritten, output>>

Lines == 1..MaxLines
Dropped == 0          \* the line "Dropped log messages at ..."

Size(lines) == FoldSeq(LAMBDA l, n : n + (IF l = Dropped THEN 1 ELSE lineSizes[l]), 0, lines)

-----------------------------------------------------------------------------
(* LogFile: disk[t] is the file named after second t, safe the lines flushed. *)

PeriodOf(t) == (t \div kRollPerSeconds_) * kRollPerSeconds_

\* Mutant of CanRoll: a file is opened whatever the clock says.
CanRollAlways(f) == TRUE

CanRoll(f) == now > f.lastRoll_

rollFile(f) ==
  IF CanRoll(f)
    THEN [f EXCEPT !.lastRoll_ = now, !.lastFlush_ = now, !.startOfPeriod_ = PeriodOf(now),
                   !.file_ = now, !.writtenBytes_ = 0, !.flushed = TRUE]
    ELSE f

\* AppendFile::append(): a write that fails loses the data and counts it as written.  One
\* that fails midway, which leaves the beginning of the data and perhaps half a line on the
\* disk, is taken as the loss of all of it.
WriteLines(f, lines, fails) ==
  [f EXCEPT !.disk[f.file_] = IF fails THEN @ ELSE @ \o lines,
            !.writtenBytes_ = @ + Size(lines),
            !.flushed = FALSE]

append_unlocked(f, lines, fails) ==
  LET g == WriteLines(f, lines, fails)
      h == [g EXCEPT !.count_ = 0]
  IN  IF g.writtenBytes_ > rollSize_ THEN rollFile(g)
      ELSE IF g.count_ + 1 < checkEveryN_ THEN [g EXCEPT !.count_ = @ + 1]
      ELSE IF PeriodOf(now) # g.startOfPeriod_ THEN rollFile(h)
      ELSE IF now > g.lastFlush_ + flushInterval_
             THEN [h EXCEPT !.lastFlush_ = now, !.flushed = TRUE]
      ELSE h

NewLogFile ==
  rollFile([disk |-> [t \in 0..MaxTime |-> <<>>], file_ |-> 0, writtenBytes_ |-> 0, count_ |-> 0,
            startOfPeriod_ |-> 0, lastRoll_ |-> 0, lastFlush_ |-> 0, flushed |-> TRUE])

-----------------------------------------------------------------------------
LogInit ==
  /\ lineSizes = <<>> /\ lost = {}
  /\ currentBuffer_ = <<>> /\ nextBuffer_ = <<>> /\ buffers_ = <<>>
  /\ logRunning_ = FALSE
  /\ owner = "new" /\ writer = "none"
  /\ newBuffer1 = NoBuffer /\ newBuffer2 = NoBuffer
  /\ buffersToWrite = <<>> /\ unwritten = <<>>
  /\ now \in 1..MaxTime
  /\ output = NewLogFile

avail(buffer) == kLargeBuffer - Size(buffer)

\* append(): a line that fits no buffer is silently refused by FixedBuffer::append().
AppendLine(len) ==
  LET line == Len(lineSizes) + 1
      fits == kLargeBuffer > len
      new  == IF fits THEN <<line>> ELSE <<>>
  IN  /\ line <= MaxLines
      /\ lineSizes' = Append(lineSizes, len)
      /\ IF avail(currentBuffer_) > len
           THEN /\ currentBuffer_' = Append(currentBuffer_, line)
                /\ UNCHANGED <<buffers_, nextBuffer_, lost>>
           ELSE /\ buffers_' = Append(buffers_, currentBuffer_)
                /\ currentBuffer_' = IF nextBuffer_ # NoBuffer THEN nextBuffer_ \o new ELSE new
                /\ nextBuffer_' = NoBuffer
                /\ lost' = IF fits THEN lost ELSE lost \cup {line}
      /\ UNCHANGED <<logRunning_, owner, writerVars, now>>

-----------------------------------------------------------------------------
(* start() and stop() *)

Start ==
  /\ owner = "new"
  /\ logRunning_' = TRUE
  /\ owner' = "starting" /\ writer' = "entered"
  /\ UNCHANGED <<frontVars, lost, newBuffer1, newBuffer2, buffersToWrite, unwritten,
                 output, now>>

\* latch_.wait() returns.
Started ==
  /\ owner = "starting" /\ writer \notin {"none", "entered"}
  /\ owner' = "started"
  /\ UNCHANGED <<frontVars, lost, logRunning_, writerVars, now>>

StopLogging ==
  /\ owner = "started"
  /\ logRunning_' = FALSE
  /\ owner' = "stopping"
  /\ UNCHANGED <<frontVars, lost, writerVars, now>>

JoinWriter ==
  /\ owner = "stopping" /\ writer = "exited"
  /\ owner' = "stopped"
  /\ UNCHANGED <<frontVars, lost, logRunning_, writerVars, now>>

-----------------------------------------------------------------------------
(* threadFunc() *)

\* latch_.countDown(), the LogFile and the two spare buffers.
Enter ==
  /\ writer = "entered"
  /\ writer' = "test"
  /\ newBuffer1' = <<>> /\ newBuffer2' = <<>>
  /\ output' = NewLogFile
  /\ UNCHANGED <<frontVars, lost, logRunning_, owner, buffersToWrite, unwritten, now>>

WhileRunning ==
  /\ writer = "test"
  /\ IF logRunning_
       THEN writer' = "lock" /\ UNCHANGED output
       ELSE writer' = "exited" /\ output' = [output EXCEPT !.flushed = TRUE]
  /\ UNCHANGED <<frontVars, lost, logRunning_, owner, newBuffer1, newBuffer2,
                 buffersToWrite, unwritten,
                 now>>

Wait ==
  /\ writer = "lock" /\ buffers_ = <<>>
  /\ writer' = "wait"
  /\ UNCHANGED <<frontVars, lost, logRunning_, owner, newBuffer1, newBuffer2,
                 buffersToWrite, unwritten,
                 output, now>>

\* Mutant of WaitEnds: the wait has no timeout.
WaitEndsNotified == buffers_ # <<>>

\* waitForSeconds() returns, notified or not.
WaitEnds == TRUE

Swap ==
  /\ \/ writer = "lock" /\ buffers_ # <<>>
     \/ writer = "wait" /\ WaitEnds
  /\ buffersToWrite' = Append(buffers_, currentBuffer_)
  /\ buffers_' = <<>>
  /\ currentBuffer_' = newBuffer1
  /\ newBuffer1' = NoBuffer
  /\ IF nextBuffer_ = NoBuffer
       THEN nextBuffer_' = newBuffer2 /\ newBuffer2' = NoBuffer
       ELSE UNCHANGED <<nextBuffer_, newBuffer2>>
  /\ writer' = "drop"
  /\ UNCHANGED <<lineSizes, lost, logRunning_, owner, unwritten, output, now>>

\* More than 25 buffers: a message and the first two are written, the others dropped.  That
\* the write of the message may fail too is left out.
Drop ==
  /\ writer = "drop"
  /\ IF Len(buffersToWrite) > KeptBuffers
       THEN /\ output' = append_unlocked(output, <<Dropped>>, FALSE)
            /\ buffersToWrite' = SubSeq(buffersToWrite, 1, 2)
            /\ lost' = lost \cup UNION {ToSet(buffersToWrite[i]) : i \in 3..Len(buffersToWrite)}
       ELSE UNCHANGED <<output, buffersToWrite, lost>>
  /\ unwritten' = buffersToWrite'
  /\ writer' = "write"
  /\ UNCHANGED <<frontVars, logRunning_, owner, newBuffer1, newBuffer2, now>>

WriteBuffer ==
  /\ writer = "write" /\ unwritten # <<>>
  /\ \E fails \in BOOLEAN :
       /\ output' = append_unlocked(output, Head(unwritten), fails)
       /\ lost' = IF fails THEN lost \cup ToSet(Head(unwritten)) ELSE lost
  /\ unwritten' = Tail(unwritten)
  /\ UNCHANGED <<frontVars, logRunning_, owner, writer, newBuffer1, newBuffer2,
                 buffersToWrite, now>>

\* FixedBuffer::reset()
Recycled(buffer) == <<>>

\* Mutant of Spares: all but one of the buffers are given back.
SparesOne == SubSeq(buffersToWrite, 1, 1)

\* What is left of buffersToWrite after resize(2).
Spares == SubSeq(buffersToWrite, 1, IF Len(buffersToWrite) > 2 THEN 2 ELSE Len(buffersToWrite))

\* The spare buffers are refilled from the back of buffersToWrite.
Recycle ==
  LET rest == IF newBuffer1 = NoBuffer THEN Front(Spares) ELSE Spares
  IN  /\ writer = "write" /\ unwritten = <<>>
      /\ newBuffer1' = IF newBuffer1 = NoBuffer THEN Recycled(Last(Spares)) ELSE newBuffer1
      /\ newBuffer2' = IF newBuffer2 = NoBuffer THEN Recycled(Last(rest)) ELSE newBuffer2
      /\ buffersToWrite' = <<>>
      /\ output' = [output EXCEPT !.flushed = TRUE]
      /\ writer' = "test"
      /\ UNCHANGED <<frontVars, lost, logRunning_, owner, unwritten, now>>

\* The clock advances, or is set back.
Clock ==
  /\ now' \in {now - 1, now + 1} /\ now' \in 1..MaxTime
  /\ UNCHANGED <<frontVars, lost, logRunning_, owner, writerVars>>

-----------------------------------------------------------------------------
Writer == Enter \/ WhileRunning \/ Wait \/ Swap \/ Drop \/ WriteBuffer \/ Recycle

LogNext ==
  \/ \E len \in LineSizes : AppendLine(len)
  \/ Start \/ Started \/ StopLogging \/ JoinWriter
  \/ Enter \/ WhileRunning \/ Wait \/ Swap \/ Drop \/ WriteBuffer \/ Recycle
  \/ Clock

LogSpec == LogInit /\ [][LogNext]_logVars

-----------------------------------------------------------------------------
(* Properties *)

\* The log in the order it is read: the files by their names, the buffers the writer has
\* still to write, those it has still to fetch, and the one being filled.
Log == <<[t \in 1..MaxTime |-> output.disk[t]],
         IF writer = "drop" THEN buffersToWrite ELSE unwritten,
         buffers_,
         <<currentBuffer_>>>>

LinesOf(piece) == ToSet(piece) \ {Dropped}
AllLines(pieces) == UNION {LinesOf(pieces[i]) : i \in DOMAIN pieces}

Before(S, T) == \A x \in S, y \in T : x < y

\* The lines of a file or buffer are in order, and those of several as well.
Rising(piece) ==
  \A i, j \in DOMAIN piece : i < j /\ Dropped \notin {piece[i], piece[j]} => piece[i] < piece[j]
AllRising(pieces) ==
  /\ \A i \in DOMAIN pieces : Rising(pieces[i])
  /\ \A i, j \in DOMAIN pieces : i < j => Before(LinesOf(pieces[i]), LinesOf(pieces[j]))

\* The log, read from the files in the order of their names and then from the buffers that
\* are still to be written, has every line that was not given up, once and in the order of
\* the calls of append(), whatever the clock does and however buffers are swapped and reused.
LogIsWhole ==
  /\ \A a \in DOMAIN Log : AllRising(Log[a])
  /\ \A a, b \in DOMAIN Log : a < b => Before(AllLines(Log[a]), AllLines(Log[b]))
  /\ UNION {AllLines(Log[a]) : a \in DOMAIN Log} = DOMAIN lineSizes \ lost

\* The asserts of threadFunc(): it starts while running_ is set; it begins each turn with two
\* empty spare buffers and nothing to write; and it finds buffers to recycle for the spares
\* it gave away, because nextBuffer_ is missing only when append() has filled a buffer.
LogAssertsHold ==
  /\ writer = "entered" => logRunning_
  /\ writer \in {"lock", "wait"} => newBuffer1 = <<>> /\ newBuffer2 = <<>> /\ buffersToWrite = <<>>
  /\ writer = "drop" => buffersToWrite # <<>>
  /\ writer = "write" /\ unwritten = <<>> =>
       /\ newBuffer1 = NoBuffer => Spares # <<>>
       /\ newBuffer2 = NoBuffer => Len(Spares) > IF newBuffer1 = NoBuffer THEN 1 ELSE 0

\* A line that append() took while the log runs is flushed to a file, unless it is given up
\* or stop() comes first, although nobody may ever fill the buffer it is in.
LinesReachFile ==
  \A l \in Lines :
    (l <= Len(lineSizes) /\ owner = "started")
      ~> \/ l \in lost \/ owner \in {"stopping", "stopped"}
         \/ (l \in AllLines(Log[1]) /\ output.flushed)
=============================================================================
