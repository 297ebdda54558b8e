-------------------------------- MODULE Log --------------------------------
(***************************************************************************)
(* The logger.  Threads that log format their line in the one shared       *)
(* buffer, without the lock.  In asynchronous mode they hand a copy to     *)
(* BlockQueue, from which a thread of the logger takes it to write it; in  *)
(* synchronous mode, or when the queue is full, they write it themselves.  *)
(* _lock protects the FILE against writes and rotations, but not against   *)
(* flush().                                                                *)
(*                                                                         *)
(* A line is the number of its call of write(); the text is left out.  Two *)
(* threads in the buffer at once are undefined behaviour: the process ends *)
(* or goes on, and from then on every text is 0, which line it holds is    *)
(* not followed.                                                           *)
(***************************************************************************)
EXTENDS BlockQueue

CONSTANTS WriteThread,   \* the thread that runs _asyncWrite
          MaxLines,      \* MAX_LINES
          MaxWrites,     \* bound: calls of write()
          MaxDay         \* bound: days that begin while the server runs

ASSUME LogAssumption == /\ Consumer = {WriteThread}
                        /\ MaxLines \in Nat \ {0}
                        /\ MaxWrites \in Nat /\ MaxDay \in Nat
                        /\ Item = {<<k>> : k \in 0 .. MaxWrites}
                        /\ None \notin Producer

Writer == Producer

VARIABLES lpc,       \* where each writer is in a LOG macro or in ~Log
          isAsync,   \* _isAsync
          buffer,    \* _buffer
          count,     \* calls of write() that reached the buffer
          mixed,     \* two of them were in the buffer at once
          curLines,  \* _curLines
          curDay,    \* _curDay
          day,       \* the day on the calendar
          today,     \* ... when a writer that needs a new file looked at it
          lock,      \* holder of _lock
          file,      \* _fp: an open FILE, a closed one, or null
          written,   \* everything passed to fputs
          flushed,   \* how much of it has left the FILE's buffer
          hand,      \* `s' of _asyncWrite
          ended,     \* _asyncWrite has returned
          cleared,   \* what close() found in the queue and dropped
          proc       \* "up", or what ended the process

fileVars == <<lock, file, written, flushed>>
dayVars  == <<curLines, curDay, day, today>>
lineVars == <<isAsync, buffer, count, mixed>>
outVars  == <<hand, ended, cleared>>
logVars  == <<vars, lpc, lineVars, dayVars, fileVars, outVars, proc>>

LTypeOK ==
  /\ TypeOK
  /\ lpc \in [Writer -> {"idle", "write", "name", "reopen", "open", "enter", "handover", "push",
                         "sync", "clear", "flush", "drain", "shut", "close"}]
  /\ isAsync \in BOOLEAN
  /\ buffer \in Seq(0 .. MaxWrites)
  /\ count \in 0 .. MaxWrites
  /\ mixed \in BOOLEAN
  /\ curLines \in 0 .. count
  /\ curDay \in 0 .. MaxDay /\ day \in 0 .. MaxDay
  /\ today \in [Writer -> 0 .. MaxDay]
  /\ lock \in Writer \cup {None}
  /\ file \in {"open", "closed", "null"}
  /\ written \in Seq(0 .. MaxWrites)
  /\ flushed \in 0 .. Len(written)
  /\ hand \in Seq(0 .. MaxWrites)
  /\ ended \in BOOLEAN
  /\ cleared \in Seq(Item)
  /\ proc \in {"up", "exited", "terminated", "undefined"}

\* After Log::init, with maxQueueCapacity at least 1 or not.
LInit ==
  /\ Init
  /\ lpc = [w \in Writer |-> "idle"]
  /\ isAsync \in BOOLEAN
  /\ buffer = <<>> /\ count = 0 /\ mixed = FALSE
  /\ curLines = 0 /\ curDay = 0 /\ day = 0
  /\ today = [w \in Writer |-> 0]
  /\ lock = None
  /\ file = "open"
  /\ written = <<>> /\ flushed = 0
  /\ hand = <<>> /\ ended = FALSE /\ cleared = <<>>
  /\ proc = "up"

Die(reason) ==
  /\ proc' = reason
  /\ UNCHANGED <<vars, lpc, lineVars, dayVars, fileVars, outVars>>

WriterAt(w, step) == proc = "up" /\ lpc[w] = step

Goes(w, step) == lpc' = [lpc EXCEPT ![w] = step]

\* fflush: what fputs left in the FILE's buffer reaches the disk.
FFlush == flushed' = Len(written)

\* What follows the mixed line is not kept.
FPuts(s) == written' = IF mixed THEN written ELSE written \o s

\* What flush() and ~Log do to the queue: notify_one, if there is one.
WakeWriteThread == IF isAsync THEN NotifyConsumer ELSE UNCHANGED consumerVars

\* A LOG macro for a line that is not below _level, which is read under _lock.
GetLevel(w) ==
  /\ WriterAt(w, "idle")
  /\ count < MaxWrites
  /\ lock = None
  /\ Goes(w, "write")
  /\ UNCHANGED <<vars, lineVars, dayVars, fileVars, outVars, proc>>

-----------------------------------------------------------------------------
(* write(): a new file every day and every MAX_LINES lines.                *)

NeedsNewFile(w) ==
  \/ curDay # day
  \/ curLines > 0 /\ curLines % MaxLines = 0

Write(w) ==
  /\ WriterAt(w, "write")
  /\ IF NeedsNewFile(w)
     THEN today' = [today EXCEPT ![w] = day] /\ Goes(w, "name")
     ELSE UNCHANGED today /\ Goes(w, "enter")
  /\ UNCHANGED <<vars, lineVars, curLines, curDay, day, fileVars, outVars, proc>>

\* The name of the new file is made without the lock, and the writer's date is
\* not needed any more.
NameFile(w) ==
  /\ WriterAt(w, "name")
  /\ IF curDay # today[w]
     THEN curDay' = today[w] /\ curLines' = 0
     ELSE UNCHANGED <<curDay, curLines>>
  /\ today' = [today EXCEPT ![w] = 0]
  /\ Goes(w, "reopen")
  /\ UNCHANGED <<vars, lineVars, day, fileVars, outVars, proc>>

\* Mutant: no lock held from fclose to fopen.
LetsGo(w) == lock' = None

Holds(w) == lock' = w

\* lock, flush and fclose.
CloseFile(w) ==
  /\ WriterAt(w, "reopen")
  /\ lock = None /\ file = "open"
  /\ Holds(w)
  /\ WakeWriteThread
  /\ FFlush
  /\ file' = "closed"
  /\ Goes(w, "open")
  /\ UNCHANGED <<queue, isClose, producerVars, closing, lineVars, dayVars,
                 written, outVars, proc>>

OpenFile(w) ==
  /\ WriterAt(w, "open")
  /\ file' = "open"
  /\ lock' = None
  /\ Goes(w, "enter")
  /\ UNCHANGED <<vars, lineVars, dayVars, written, flushed, outVars, proc>>

\* errif calls exit() with _lock held: ~Log skips the null pointer, and the
\* lock is never given back.
OpenFails(w) ==
  /\ WriterAt(w, "open")
  /\ file' = "null"
  /\ Goes(w, IF isAsync THEN "drain" ELSE "close")
  /\ UNCHANGED <<vars, lineVars, dayVars, lock, written, flushed, outVars, proc>>

-----------------------------------------------------------------------------
(* write(): the line, and the flush() of the LOG macros.                   *)

\* The threads between their first and their last use of _buffer in write().
InBuffer == {w \in Writer : lpc[w] \in {"handover", "push", "sync", "clear"}}

\* What the buffer holds: a line, or the traces of several.
Text == IF mixed THEN <<0>> ELSE buffer

Enter(w) ==
  /\ WriterAt(w, "enter")
  /\ count < MaxWrites
  /\ count' = count + 1
  /\ curLines' = curLines + 1
  /\ mixed' = (mixed \/ InBuffer # {})
  /\ buffer' = IF mixed' THEN <<>> ELSE Append(buffer, count')
  /\ Goes(w, "handover")
  /\ UNCHANGED <<vars, isAsync, curDay, day, today, fileVars, outVars, proc>>

\* Two threads change the same sds at once, and the process does not live on.
BufferRace(w) ==
  /\ WriterAt(w, "enter")
  /\ InBuffer # {}
  /\ Die("undefined")

\* The line fills the buffer to its last byte: the line break moves the string,
\* and the result of that sdscat is dropped.
LineBreakMoves(w) ==
  /\ WriterAt(w, "enter")
  /\ InBuffer = {}
  /\ Die("undefined")

\* Mutant: the queue is not asked.
AsyncAlways == TRUE

AsyncReady == ~IsFull

HandOver(w) ==
  /\ WriterAt(w, "handover")
  /\ Goes(w, IF isAsync /\ AsyncReady THEN "push" ELSE "sync")
  /\ UNCHANGED <<vars, lineVars, dayVars, fileVars, outVars, proc>>

\* Mutant: the else is missing; a line handed over is written by its caller too.
AsyncLineAlso(w) ==
  /\ WriterAt(w, "push")
  /\ \/ PushItem(w, "back", Text) /\ Goes(w, "sync")
     \/ PushWaits(w, "back", Text) /\ UNCHANGED lpc
  /\ UNCHANGED <<lineVars, dayVars, fileVars, outVars, proc>>

AsyncLine(w) ==
  /\ WriterAt(w, "push")
  /\ \/ PushItem(w, "back", Text) /\ Goes(w, "clear")
     \/ PushWaits(w, "back", Text) /\ UNCHANGED lpc
  /\ UNCHANGED <<lineVars, dayVars, fileVars, outVars, proc>>

\* Mutant: no sdsclear.
KeepBuffer == UNCHANGED buffer

ClearBuffer == buffer' = <<>>

ClearLine(w) ==
  /\ WriterAt(w, "clear")
  /\ ClearBuffer
  /\ Goes(w, "flush")
  /\ UNCHANGED <<vars, isAsync, count, mixed, dayVars, fileVars, outVars, proc>>

\* The lock is held until the buffer is cleared.
SyncLine(w) ==
  /\ WriterAt(w, "sync")
  /\ lock = None /\ file = "open"
  /\ FPuts(Text)
  /\ ClearBuffer
  /\ Goes(w, "flush")
  /\ UNCHANGED <<vars, isAsync, count, mixed, dayVars, lock, file, flushed, outVars, proc>>

\* Log::flush wakes the write thread and calls fflush, without the lock;
\* fflush of a null pointer is no error.
FlushLog(w) ==
  /\ WriterAt(w, "flush")
  /\ file # "closed"
  /\ WakeWriteThread
  /\ FFlush
  /\ Goes(w, "idle")
  /\ UNCHANGED <<queue, isClose, producerVars, closing, lineVars, dayVars,
                 lock, file, written, outVars, proc>>

-----------------------------------------------------------------------------
(* _asyncWrite. *)

PopLine ==
  /\ proc = "up" /\ ~ended
  /\ hand = <<>>
  /\ \/ PopWaits(WriteThread) /\ UNCHANGED hand
     \/ PopItem(WriteThread) /\ hand' = Head(queue)
  /\ UNCHANGED <<lpc, lineVars, dayVars, fileVars, ended, cleared, proc>>

WriteLine ==
  /\ proc = "up"
  /\ hand # <<>>
  /\ lock = None /\ file = "open"
  /\ FPuts(hand)
  /\ hand' = <<>>
  /\ UNCHANGED <<vars, lpc, lineVars, dayVars, lock, file, flushed, ended, cleared, proc>>

\* pop returns false: the loop ends.
WriteThreadEnds ==
  /\ proc = "up" /\ ~ended
  /\ hand = <<>>
  /\ PopFails(WriteThread)
  /\ ended' = TRUE
  /\ UNCHANGED <<lpc, lineVars, dayVars, fileVars, hand, cleared, proc>>

-----------------------------------------------------------------------------
(* ~Log, run by exit() in the thread that called it while all others go    *)
(* on. Without a write thread there is nothing to drain or close.          *)

Exiting == \E w \in Writer : lpc[w] \in {"drain", "shut", "close"}

Exit(w) ==
  /\ WriterAt(w, "idle")
  /\ ~Exiting
  /\ lock = None /\ file = "open"
  /\ WakeWriteThread
  /\ FFlush
  /\ file' = "closed"
  /\ Goes(w, IF isAsync THEN "drain" ELSE "close")
  /\ UNCHANGED <<queue, isClose, producerVars, closing, lineVars, dayVars, lock,
                 written, outVars, proc>>

ExitFlushes(w) ==
  /\ WriterAt(w, "drain")
  /\ queue # <<>>
  /\ NotifyConsumer
  /\ UNCHANGED <<queue, isClose, producerVars, closing, lpc, lineVars, dayVars,
                 fileVars, outVars, proc>>

\* isEmpty() and close() take the mutex of the queue one after the other.
ExitFindsEmpty(w) ==
  /\ WriterAt(w, "drain")
  /\ queue = <<>>
  /\ Goes(w, "shut")
  /\ UNCHANGED <<vars, lineVars, dayVars, fileVars, outVars, proc>>

\* What was pushed in between is dropped.
ExitCloses(w) ==
  /\ WriterAt(w, "shut")
  /\ Close
  /\ cleared' = queue
  /\ Goes(w, "close")
  /\ UNCHANGED <<lineVars, dayVars, fileVars, hand, ended, proc>>

ExitNotifies ==
  /\ proc = "up"
  /\ CloseNotifies
  /\ UNCHANGED <<lpc, lineVars, dayVars, fileVars, outVars, proc>>

\* The thread object is destroyed without a join: std::terminate.
Terminate(w) ==
  /\ WriterAt(w, "close")
  /\ closing = "no"
  /\ Die(IF isAsync THEN "terminated" ELSE "exited")

\* _fp is used after ~Log or, without the lock, during a rotation.
UsesClosedFile(w) ==
  /\ proc = "up" /\ file = "closed"
  /\ lpc[w] \in {"flush"} \cup (IF lock = None THEN {"reopen", "sync"} ELSE {})
  /\ Die("undefined")

WritesClosedFile ==
  /\ proc = "up" /\ file = "closed"
  /\ lock = None /\ hand # <<>>
  /\ Die("undefined")

-----------------------------------------------------------------------------

Log(w) ==
  \/ Write(w) \/ NameFile(w) \/ CloseFile(w) \/ OpenFile(w) \/ OpenFails(w)
  \/ Enter(w) \/ BufferRace(w) \/ LineBreakMoves(w) \/ HandOver(w) \/ AsyncLine(w) \/ ClearLine(w)
  \/ SyncLine(w) \/ FlushLog(w)
  \/ ExitFlushes(w) \/ ExitFindsEmpty(w) \/ ExitCloses(w) \/ Terminate(w) \/ UsesClosedFile(w)

AsyncWrite == isAsync /\ (PopLine \/ WriteLine \/ WriteThreadEnds \/ WritesClosedFile)

DayPasses ==
  /\ proc = "up"
  /\ day < MaxDay
  /\ day' = day + 1
  /\ UNCHANGED <<vars, lpc, lineVars, curLines, curDay, today, fileVars, outVars, proc>>

Wakeup ==
  /\ proc = "up"
  /\ SpuriousWakeup
  /\ UNCHANGED <<lpc, lineVars, dayVars, fileVars, outVars, proc>>

LNext ==
  \/ \E w \in Writer : GetLevel(w) \/ Log(w) \/ Exit(w)
  \/ AsyncWrite \/ ExitNotifies \/ DayPasses \/ Wakeup

LSpec == LInit /\ [][LNext]_logVars

\* Every thread is scheduled; uses of the LOG macros come as they like.
LFairSpec ==
  /\ LSpec
  /\ \A w \in Writer : WF_logVars(Log(w))
  /\ WF_logVars(AsyncWrite) /\ WF_logVars(ExitNotifies)
-----------------------------------------------------------------------------
(* Properties. *)

\* The copies of line k that are on their way to the file, or in it.
Occurrences(k, s) == Cardinality({i \in DOMAIN s : s[i] = k})

Copies(k, q) == Cardinality({i \in DOMAIN q : Occurrences(k, q[i]) > 0})

Pending == IF \E w \in Writer : lpc[w] \in {"handover", "push", "sync"}
           THEN buffer ELSE <<>>

\* As long as one thread at a time uses the buffer, a line is in one place on
\* its way from write() to the file, and once.  It is lost only to close() of
\* an exiting process, when it was pushed after the isEmpty() before it.
EachLineOnce ==
  proc = "up" /\ ~mixed =>
    \A k \in 1 .. count :
      Occurrences(k, written) + Occurrences(k, hand) + Occurrences(k, Pending)
        + Copies(k, queue) + Copies(k, cleared) = 1

\* A rotation and the writing of lines exclude each other: whoever may take
\* the lock finds the file open, as long as the process is not exiting.
FileReady == proc = "up" /\ lock = None /\ ~Exiting => file = "open"

\* A thread whose isFull was overtaken by another's push_back sleeps in the
\* queue, and not for good: the write thread or close() wakes it, unless the
\* process ends or hangs on a file that cannot be opened.  (Of several sleepers,
\* notify_one wakes any.)
SleepersAreWoken ==
  \A w \in Writer :
    (asleepP = {w}) ~> (asleepP # {w} \/ proc # "up" \/ file = "null")

\* A line the caller writes itself overtakes at most a full queue and the line
\* that the write thread is holding, as long as one thread at a time logs.
Logged(k) == \E i \in DOMAIN written : written[i] = k

OvertakesFew ==
  ~mixed =>
    \A i \in DOMAIN written :
      Cardinality({k \in 1 .. written[i] : ~Logged(k)}) <= Capacity + 1

\* Whatever happens to its threads, its files and the process, the logger is a
\* LineLog: a line is written by its caller or handed over, never both, and the
\* write thread writes what it takes from the queue in order (Log.cpp:139-149,
\* 190-197), unless close() takes it (Log.cpp:25).
Handed == hand \o [i \in DOMAIN queue |-> queue[i][1]]

Lines == INSTANCE LineLog WITH begun <- count, current <- Pending, behind <- Handed,
                               closed <- isClose
LineLogSpec == Lines!Spec

\* The logger catches up: every line handed over is passed to fputs, unless the
\* process ends, or hangs because the file of a rotation could not be opened
\* (Log.cpp:121), or its text was lost to a second thread in the buffer.
LinesAreWritten ==
  []<>((\A k \in 1 .. count : Logged(k)) \/ mixed \/ proc # "up" \/ file = "null")

\* ... and reaches the file: flush() of the LOG macros comes after it.
LinesReachDisk ==
  []<>((\A k \in 1 .. count : \E i \in 1 .. flushed : written[i] = k)
       \/ mixed \/ proc # "up" \/ file = "null")
-----------------------------------------------------------------------------
(* The inductive invariant. *)

\* The lock is held over steps only by the thread that rotates the file, and
\* for good when that has failed.
LockInv ==
  /\ \A w \in Writer : lpc[w] = "open" => lock = w /\ file = "closed"
  /\ lock # None /\ file # "null" => lpc[lock] = "open" /\ ~Exiting
  /\ file = "null" => lock # None /\ lpc[lock] \in {"drain", "shut", "close"}
  /\ Exiting => file # "open"

\* Until two threads meet in the buffer, the one in it alone pushes, and finds
\* the room that isFull saw.
BufferInv ==
  ~mixed =>
    /\ \A w, u \in InBuffer : w = u
    /\ InBuffer = {} => buffer = <<>>
    /\ \A w \in Writer :
         /\ lpc[w] \in {"handover", "push", "sync"} => buffer = <<count>> /\ count > 0
         /\ lpc[w] = "push" => ~IsFull
    /\ asleepP = {} /\ awakeP = {}
    /\ arg = [w \in Writer |-> None]

\* close() is called once, by the thread that exits.
CloseInv ==
  /\ cleared # <<>> => isClose
  /\ isClose => \E w \in Writer : lpc[w] = "close"
  /\ \A w, u \in Writer :
       lpc[w] \in {"drain", "shut", "close"} /\ lpc[u] \in {"drain", "shut", "close"} => w = u

LInv == LTypeOK /\ SlotInv /\ LockInv /\ BufferInv /\ CloseInv /\ FileReady
=============================================================================
