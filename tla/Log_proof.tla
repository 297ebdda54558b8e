------------------------------ MODULE Log_proof ------------------------------
(***************************************************************************)
(* Proofs about the logger, for any number of threads, any capacity and    *)
(* any number of lines: it uses its queue as BlockQueue expects, so that   *)
(* the theorems about the queue hold in it; the file is open whenever the  *)
(* lock is free; and until two threads meet in the buffer no line is       *)
(* doubled, lost other than to close(), or overtaken by more lines than    *)
(* the queue holds: the logger is a LineLog.                               *)
(***************************************************************************)
EXTENDS Log, BlockQueue_proof, SequenceTheorems, FunctionTheorems

LEMMA LInit_LInv == LInit => LInv
<1> SUFFICES ASSUME LInit PROVE LInv
  OBVIOUS
<1> USE LogAssumption, QueueAssumption DEF LInit
<1>1. SlotInv
  BY QInit DEF SlotInv, NoLostSlot, Init
<1>2. LTypeOK
  <2>1. TypeOK
    BY <1>1 DEF SlotInv, QInv
  <2>2. /\ <<>> \in Seq(0 .. MaxWrites) /\ <<>> \in Seq(Item)
        /\ Len(<<>>) = 0 /\ 0 \in 0 .. MaxWrites /\ 0 \in 0 .. MaxDay /\ 0 \in 0 .. 0
    BY ONLY LogAssumption
  <2> QED
    BY <2>1, <2>2 DEF LTypeOK, Writer
<1>3. LockInv /\ FileReady /\ CloseInv
  BY DEF LockInv, FileReady, CloseInv, Exiting, Init, Writer
<1>4. BufferInv
  BY DEF BufferInv, InBuffer, Init, Writer
<1> QED
  BY <1>1, <1>2, <1>3, <1>4 DEF LInv

\* What a writer hands over is an item of the queue.
LEMMA BufferIsItem ==
  ASSUME LInv, NEW w \in Writer, lpc[w] = "push"
  PROVE  Text \in Item
BY LogAssumption DEF LInv, LTypeOK, BufferInv, Text

\* What the write thread takes is a line.
LEMMA HeadIsLine ==
  ASSUME TypeOK, queue # <<>>
  PROVE  Head(queue) \in Seq(0 .. MaxWrites)
<1>1. queue \in Seq(Item) /\ Len(queue) > 0
  BY DEF TypeOK
<1>2. Head(queue) \in Item
  BY <1>1
<1>3. PICK k \in 0 .. MaxWrites : Head(queue) = <<k>>
  BY <1>2, LogAssumption
<1>4. <<k>> \in Seq(0 .. MaxWrites)
  OBVIOUS
<1> QED
  BY <1>3, <1>4

LEMMA TextType ==
  ASSUME LTypeOK
  PROVE  Text \in Seq(0 .. MaxWrites)
<1>1. 0 \in 0 .. MaxWrites
  BY LogAssumption
<1>2. <<0>> \in Seq(0 .. MaxWrites)
  BY <1>1
<1> QED
  BY <1>2 DEF LTypeOK, Text

\* What fputs leaves behind; it flushes nothing.
LEMMA FPutsType ==
  ASSUME LTypeOK, NEW s \in Seq(0 .. MaxWrites), FPuts(s)
  PROVE  written' \in Seq(0 .. MaxWrites) /\ flushed \in 0 .. Len(written')
<1>1. written \in Seq(0 .. MaxWrites) /\ flushed \in 0 .. Len(written)
  BY DEF LTypeOK
<1>2. CASE mixed
  BY <1>1, <1>2 DEF FPuts
<1>3. CASE ~mixed
  <2>1. written' = written \o s
    BY <1>3 DEF FPuts
  <2>2. written \o s \in Seq(0 .. MaxWrites) /\ Len(written \o s) = Len(written) + Len(s)
    BY <1>1, ConcatProperties
  <2>3. Len(written) \in Nat /\ Len(s) \in Nat
    BY <1>1
  <2>4. flushed \in 0 .. Len(written) + Len(s)
    BY <1>1, <2>3
  <2> QED
    BY <2>1, <2>2, <2>4
<1> QED
  BY <1>2, <1>3

\* Every step of the logger is a step of its queue, or leaves it alone.
LEMMA LogStep == LInv /\ [LNext]_logVars => [Next]_vars
<1> SUFFICES ASSUME LInv, LNext, ~UNCHANGED vars
             PROVE  Next
  BY DEF logVars
<1> USE DEF vars, producerVars, consumerVars
<1>1. ASSUME NEW w \in Writer, GetLevel(w) \/ Log(w) \/ Exit(w) PROVE Next
  <2>1. CASE CloseFile(w) \/ FlushLog(w) \/ Exit(w) \/ ExitFlushes(w)
    BY <2>1 DEF CloseFile, FlushLog, Exit, ExitFlushes, WakeWriteThread, Next, Flush
  <2>2. CASE ExitCloses(w) \/ ExitFindsEmpty(w)
    BY <2>2 DEF ExitCloses, ExitFindsEmpty, Next
  <2>3. CASE AsyncLine(w)
    <3>1. PushItem(w, "back", Text) \/ PushWaits(w, "back", Text)
      BY <2>3 DEF AsyncLine
    <3>2. Text \in Item
      BY <2>3, BufferIsItem DEF AsyncLine, WriterAt
    <3> QED
      BY <3>1, <3>2 DEF Push, Next, Writer
  <2>4. CASE GetLevel(w) \/ Write(w) \/ NameFile(w) \/ OpenFile(w) \/ OpenFails(w) \/ Enter(w)
    BY <2>4 DEF GetLevel, Write, NameFile, OpenFile, OpenFails, Enter, Die
  <2>5. CASE BufferRace(w) \/ LineBreakMoves(w) \/ HandOver(w) \/ ClearLine(w) \/ SyncLine(w)
    BY <2>5 DEF BufferRace, LineBreakMoves, HandOver, ClearLine, SyncLine, Die
  <2>6. CASE Terminate(w) \/ UsesClosedFile(w)
    BY <2>6 DEF Terminate, UsesClosedFile, Die
  <2> QED
    BY <1>1, <2>1, <2>2, <2>3, <2>4, <2>5, <2>6 DEF Log
<1>2. CASE AsyncWrite
  BY <1>2, LogAssumption
     DEF AsyncWrite, PopLine, WriteLine, WriteThreadEnds, WritesClosedFile, Die, Next, Pop
<1>3. CASE ExitNotifies \/ DayPasses \/ Wakeup
  BY <1>3 DEF ExitNotifies, DayPasses, Wakeup, Next
<1> QED
  BY <1>1, <1>2, <1>3 DEF LNext

LEMMA GetLevelStep ==
  ASSUME LInv, SlotInv', NEW w \in Writer, GetLevel(w)
  PROVE  LInv'
<1> USE LogAssumption, QueueAssumption
    DEF LInv, GetLevel, Goes, WriterAt, Writer, lineVars, dayVars, fileVars, outVars, vars
<1>1. LTypeOK'
  BY DEF LTypeOK, SlotInv, QInv
<1>2. LockInv' /\ FileReady' /\ CloseInv'
  BY DEF LTypeOK, LockInv, FileReady, CloseInv, Exiting
<1>3. BufferInv'
  <2> SUFFICES ASSUME ~mixed' PROVE BufferInv'
    BY DEF BufferInv
  <2> USE DEF BufferInv
  <2>1. asleepP' = {} /\ awakeP' = {} /\ arg' = [v \in Writer |-> None]
    BY DEF IsFull, producerVars
  <2>2. \A v, u \in InBuffer' : v = u
    BY DEF InBuffer, LTypeOK
  <2>3. InBuffer' = {} => buffer' = <<>>
    BY DEF InBuffer, LTypeOK
  <2>4. ASSUME NEW v \in Writer
        PROVE  /\ lpc'[v] \in {"handover", "push", "sync"} => buffer' = <<count'>> /\ count' > 0
               /\ lpc'[v] = "push" => ~IsFull'
    BY DEF InBuffer, LTypeOK, IsFull
  <2> QED
    BY <2>1, <2>2, <2>3, <2>4
<1> QED
  BY <1>1, <1>2, <1>3

LEMMA WriteStep ==
  ASSUME LInv, SlotInv', NEW w \in Writer, Write(w)
  PROVE  LInv'
<1> USE LogAssumption, QueueAssumption
    DEF LInv, Write, Goes, WriterAt, Writer, lineVars, dayVars, fileVars, outVars, vars
<1>1. LTypeOK'
  BY DEF LTypeOK, SlotInv, QInv
<1>a. PICK step \in {"name", "enter"} : lpc' = [lpc EXCEPT ![w] = step]
  OBVIOUS
<1>2. LockInv' /\ FileReady' /\ CloseInv'
  BY <1>a DEF LTypeOK, LockInv, FileReady, CloseInv, Exiting
<1>3. BufferInv'
  <2> SUFFICES ASSUME ~mixed' PROVE BufferInv'
    BY DEF BufferInv
  <2> USE DEF BufferInv
  <2>1. asleepP' = {} /\ awakeP' = {} /\ arg' = [v \in Writer |-> None]
    BY DEF IsFull, producerVars
  <2>2. \A v, u \in InBuffer' : v = u
    BY ZenonT(60) DEF InBuffer, LTypeOK
  <2>3. InBuffer' = {} => buffer' = <<>>
    BY DEF InBuffer, LTypeOK
  <2>4. ASSUME NEW v \in Writer
        PROVE  /\ lpc'[v] \in {"handover", "push", "sync"} => buffer' = <<count'>> /\ count' > 0
               /\ lpc'[v] = "push" => ~IsFull'
    BY DEF InBuffer, LTypeOK, IsFull
  <2> QED
    BY <2>1, <2>2, <2>3, <2>4
<1> QED
  BY <1>1, <1>2, <1>3

LEMMA NameFileStep ==
  ASSUME LInv, SlotInv', NEW w \in Writer, NameFile(w)
  PROVE  LInv'
<1> USE LogAssumption, QueueAssumption
    DEF LInv, NameFile, Goes, WriterAt, Writer, lineVars, dayVars, fileVars, outVars, vars
<1>1. LTypeOK'
  BY DEF LTypeOK, SlotInv, QInv
<1>2. LockInv' /\ FileReady' /\ CloseInv'
  BY DEF LTypeOK, LockInv, FileReady, CloseInv, Exiting
<1>3. BufferInv'
  <2> SUFFICES ASSUME ~mixed' PROVE BufferInv'
    BY DEF BufferInv
  <2> USE DEF BufferInv
  <2>1. asleepP' = {} /\ awakeP' = {} /\ arg' = [v \in Writer |-> None]
    BY DEF IsFull, producerVars
  <2>2. \A v, u \in InBuffer' : v = u
    BY DEF InBuffer, LTypeOK
  <2>3. InBuffer' = {} => buffer' = <<>>
    BY DEF InBuffer, LTypeOK
  <2>4. ASSUME NEW v \in Writer
        PROVE  /\ lpc'[v] \in {"handover", "push", "sync"} => buffer' = <<count'>> /\ count' > 0
               /\ lpc'[v] = "push" => ~IsFull'
    BY DEF InBuffer, LTypeOK, IsFull
  <2> QED
    BY <2>1, <2>2, <2>3, <2>4
<1> QED
  BY <1>1, <1>2, <1>3

LEMMA CloseFileStep ==
  ASSUME LInv, SlotInv', NEW w \in Writer, CloseFile(w)
  PROVE  LInv'
<1> USE LogAssumption, QueueAssumption
    DEF LInv, CloseFile, WakeWriteThread, Goes, WriterAt, Writer, lineVars, dayVars, fileVars, outVars, vars, FFlush, Holds, NotifyConsumer, consumerVars, producerVars
<1>1. LTypeOK'
  BY DEF LTypeOK, SlotInv, QInv
<1>2. LockInv' /\ FileReady' /\ CloseInv'
  BY DEF LTypeOK, LockInv, FileReady, CloseInv, Exiting
<1>3. BufferInv'
  BY DEF LTypeOK, TypeOK, BufferInv, InBuffer, IsFull
<1> QED
  BY <1>1, <1>2, <1>3

LEMMA OpenFileStep ==
  ASSUME LInv, SlotInv', NEW w \in Writer, OpenFile(w)
  PROVE  LInv'
<1> USE LogAssumption, QueueAssumption
    DEF LInv, OpenFile, Goes, WriterAt, Writer, lineVars, dayVars, fileVars, outVars, vars
<1>1. LTypeOK'
  BY DEF LTypeOK, SlotInv, QInv
<1>2. LockInv' /\ FileReady' /\ CloseInv'
  BY DEF LTypeOK, LockInv, FileReady, CloseInv, Exiting
<1>3. BufferInv'
  <2> SUFFICES ASSUME ~mixed' PROVE BufferInv'
    BY DEF BufferInv
  <2> USE DEF BufferInv
  <2>1. asleepP' = {} /\ awakeP' = {} /\ arg' = [v \in Writer |-> None]
    BY DEF IsFull, producerVars
  <2>2. \A v, u \in InBuffer' : v = u
    BY DEF InBuffer, LTypeOK
  <2>3. InBuffer' = {} => buffer' = <<>>
    BY DEF InBuffer, LTypeOK
  <2>4. ASSUME NEW v \in Writer
        PROVE  /\ lpc'[v] \in {"handover", "push", "sync"} => buffer' = <<count'>> /\ count' > 0
               /\ lpc'[v] = "push" => ~IsFull'
    BY DEF InBuffer, LTypeOK, IsFull
  <2> QED
    BY <2>1, <2>2, <2>3, <2>4
<1> QED
  BY <1>1, <1>2, <1>3

LEMMA OpenFailsStep ==
  ASSUME LInv, SlotInv', NEW w \in Writer, OpenFails(w)
  PROVE  LInv'
<1> USE LogAssumption, QueueAssumption
    DEF LInv, OpenFails, Goes, WriterAt, Writer, lineVars, dayVars, fileVars, outVars, vars
<1>1. LTypeOK'
  BY DEF LTypeOK, SlotInv, QInv
<1>2. LockInv' /\ FileReady' /\ CloseInv'
  BY DEF LTypeOK, LockInv, FileReady, CloseInv, Exiting
<1>3. BufferInv'
  <2> SUFFICES ASSUME ~mixed' PROVE BufferInv'
    BY DEF BufferInv
  <2> USE DEF BufferInv
  <2>1. asleepP' = {} /\ awakeP' = {} /\ arg' = [v \in Writer |-> None]
    BY DEF IsFull, producerVars
  <2>2. \A v, u \in InBuffer' : v = u
    BY DEF InBuffer, LTypeOK
  <2>3. InBuffer' = {} => buffer' = <<>>
    BY DEF InBuffer, LTypeOK
  <2>4. ASSUME NEW v \in Writer
        PROVE  /\ lpc'[v] \in {"handover", "push", "sync"} => buffer' = <<count'>> /\ count' > 0
               /\ lpc'[v] = "push" => ~IsFull'
    BY DEF InBuffer, LTypeOK, IsFull
  <2> QED
    BY <2>1, <2>2, <2>3, <2>4
<1> QED
  BY <1>1, <1>2, <1>3

LEMMA EnterStep ==
  ASSUME LInv, SlotInv', NEW w \in Writer, Enter(w)
  PROVE  LInv'
<1> USE LogAssumption, QueueAssumption
    DEF LInv, Enter, Goes, WriterAt, Writer, lineVars, dayVars, fileVars, outVars, vars
<1>1. LTypeOK'
  <2>1. count' \in 0 .. MaxWrites /\ curLines' \in 0 .. count' /\ mixed' \in BOOLEAN
    BY DEF LTypeOK
  <2>2. buffer' \in Seq(0 .. MaxWrites)
    <3>1. buffer \in Seq(0 .. MaxWrites) /\ <<>> \in Seq(0 .. MaxWrites)
      BY DEF LTypeOK
    <3>2. Append(buffer, count') \in Seq(0 .. MaxWrites)
      BY <2>1, <3>1
    <3> QED
      BY <3>1, <3>2
  <2> QED
    BY <2>1, <2>2 DEF LTypeOK, SlotInv, QInv
<1>2. LockInv' /\ FileReady' /\ CloseInv'
  BY DEF LTypeOK, LockInv, FileReady, CloseInv, Exiting
<1>3. BufferInv'
  <2> SUFFICES ASSUME ~mixed' PROVE BufferInv'
    BY DEF BufferInv
  <2> USE DEF BufferInv
  <2>0. buffer' = <<count'>> /\ count' > 0
    <3>1. InBuffer = {} /\ ~mixed
      OBVIOUS
    <3>2. buffer = <<>> /\ count \in Nat
      BY <3>1 DEF LTypeOK
    <3> QED
      BY <3>1, <3>2
  <2>1. asleepP' = {} /\ awakeP' = {} /\ arg' = [v \in Writer |-> None]
    BY DEF IsFull, producerVars
  <2>2. \A v, u \in InBuffer' : v = u
    BY ZenonT(60) DEF InBuffer, LTypeOK
  <2>3. InBuffer' = {} => buffer' = <<>>
    BY DEF InBuffer, LTypeOK
  <2>4. ASSUME NEW v \in Writer
        PROVE  /\ lpc'[v] \in {"handover", "push", "sync"} => buffer' = <<count'>> /\ count' > 0
               /\ lpc'[v] = "push" => ~IsFull'
    BY <2>0 DEF InBuffer, LTypeOK, IsFull
  <2> QED
    BY <2>1, <2>2, <2>3, <2>4
<1> QED
  BY <1>1, <1>2, <1>3

LEMMA HandOverStep ==
  ASSUME LInv, SlotInv', NEW w \in Writer, HandOver(w)
  PROVE  LInv'
<1> USE LogAssumption, QueueAssumption
    DEF LInv, HandOver, Goes, WriterAt, Writer, lineVars, dayVars, fileVars, outVars, vars, AsyncReady
<1>1. LTypeOK'
  BY DEF LTypeOK, SlotInv, QInv
<1>2. LockInv' /\ FileReady' /\ CloseInv'
  BY DEF LTypeOK, LockInv, FileReady, CloseInv, Exiting
<1>3. BufferInv'
  <2> SUFFICES ASSUME ~mixed' PROVE BufferInv'
    BY DEF BufferInv
  <2> USE DEF BufferInv
  <2>1. asleepP' = {} /\ awakeP' = {} /\ arg' = [v \in Writer |-> None]
    BY DEF IsFull, producerVars
  <2>2. \A v, u \in InBuffer' : v = u
    BY DEF InBuffer, LTypeOK
  <2>3. InBuffer' = {} => buffer' = <<>>
    BY DEF InBuffer, LTypeOK
  <2>4. ASSUME NEW v \in Writer
        PROVE  /\ lpc'[v] \in {"handover", "push", "sync"} => buffer' = <<count'>> /\ count' > 0
               /\ lpc'[v] = "push" => ~IsFull'
    BY DEF InBuffer, LTypeOK, IsFull
  <2> QED
    BY <2>1, <2>2, <2>3, <2>4
<1> QED
  BY <1>1, <1>2, <1>3

LEMMA AsyncLineStep ==
  ASSUME LInv, SlotInv', NEW w \in Writer, AsyncLine(w)
  PROVE  LInv'
<1> USE LogAssumption, QueueAssumption
    DEF LInv, AsyncLine, Goes, WriterAt, Writer, lineVars, dayVars, fileVars, outVars, vars, PushItem, PushWaits, NotifyConsumer, consumerVars, producerVars
<1>1. LTypeOK'
  BY DEF LTypeOK, SlotInv, QInv
<1>a. PICK step \in {"push", "clear"} : lpc' = [lpc EXCEPT ![w] = step]
  <2>1. lpc = [lpc EXCEPT ![w] = "push"]
    BY DEF LTypeOK
  <2> QED
    BY <2>1
<1>2. LockInv' /\ FileReady' /\ CloseInv'
  <2>1. /\ isClose' = isClose /\ cleared' = cleared /\ proc' = proc
        /\ lock' = lock /\ file' = file
    OBVIOUS
  <2>2. /\ lpc[w] = "push" /\ lpc'[w] \in {"push", "clear"}
        /\ \A u \in Writer : u # w => lpc'[u] = lpc[u]
    <3>1. DOMAIN lpc = Writer /\ lpc[w] = "push"
      BY DEF LTypeOK
    <3> QED
      BY ONLY <3>1, <1>a
  <2>3. LockInv' /\ FileReady'
    BY <1>a DEF LTypeOK, LockInv, FileReady, Exiting
  <2>4. \A u \in Writer : lpc[u] \in {"drain", "shut", "close"} => lpc'[u] = lpc[u]
    BY <2>2
  <2>5. \A u \in Writer : lpc'[u] \in {"drain", "shut", "close"} => lpc'[u] = lpc[u]
    BY <2>2
  <2>6. CloseInv
    BY DEF LInv
  <2> QED
    BY ONLY <2>1, <2>3, <2>4, <2>5, <2>6 DEF CloseInv
<1>3. BufferInv'
  <2> SUFFICES ASSUME ~mixed' PROVE BufferInv'
    BY DEF BufferInv
  <2> USE DEF BufferInv
  <2>0. lpc' = [lpc EXCEPT ![w] = "clear"] /\ buffer' = buffer /\ count' = count
    OBVIOUS
  <2>1. asleepP' = {} /\ awakeP' = {} /\ arg' = [v \in Writer |-> None]
    BY DEF IsFull, producerVars
  <2>2. \A v, u \in InBuffer' : v = u
    BY ZenonT(60) DEF InBuffer, LTypeOK
  <2>3. InBuffer' = {} => buffer' = <<>>
    BY DEF InBuffer, LTypeOK
  <2>4. ASSUME NEW v \in Writer
        PROVE  /\ lpc'[v] \in {"handover", "push", "sync"} => buffer' = <<count'>> /\ count' > 0
               /\ lpc'[v] = "push" => ~IsFull'
    BY <2>0 DEF InBuffer, LTypeOK, IsFull
  <2> QED
    BY <2>1, <2>2, <2>3, <2>4
<1> QED
  BY <1>1, <1>2, <1>3

LEMMA ClearLineStep ==
  ASSUME LInv, SlotInv', NEW w \in Writer, ClearLine(w)
  PROVE  LInv'
<1> USE LogAssumption, QueueAssumption
    DEF LInv, ClearLine, Goes, WriterAt, Writer, lineVars, dayVars, fileVars, outVars, vars, ClearBuffer
<1>1. LTypeOK'
  BY DEF LTypeOK, SlotInv, QInv
<1>2. LockInv' /\ FileReady' /\ CloseInv'
  BY DEF LTypeOK, LockInv, FileReady, CloseInv, Exiting
<1>3. BufferInv'
  <2> SUFFICES ASSUME ~mixed' PROVE BufferInv'
    BY DEF BufferInv
  <2> USE DEF BufferInv
  <2>1. asleepP' = {} /\ awakeP' = {} /\ arg' = [v \in Writer |-> None]
    BY DEF IsFull, producerVars
  <2>2. \A v, u \in InBuffer' : v = u
    BY DEF InBuffer, LTypeOK
  <2>3. InBuffer' = {} => buffer' = <<>>
    BY DEF InBuffer, LTypeOK
  <2>4. ASSUME NEW v \in Writer
        PROVE  /\ lpc'[v] \in {"handover", "push", "sync"} => buffer' = <<count'>> /\ count' > 0
               /\ lpc'[v] = "push" => ~IsFull'
    BY DEF InBuffer, LTypeOK, IsFull
  <2> QED
    BY <2>1, <2>2, <2>3, <2>4
<1> QED
  BY <1>1, <1>2, <1>3

LEMMA SyncLineStep ==
  ASSUME LInv, SlotInv', NEW w \in Writer, SyncLine(w)
  PROVE  LInv'
<1> USE LogAssumption, QueueAssumption
    DEF LInv, SyncLine, Goes, WriterAt, Writer, lineVars, dayVars, fileVars, outVars, vars, ClearBuffer
<1>1. LTypeOK'
  <2>1. Text \in Seq(0 .. MaxWrites) /\ <<>> \in Seq(0 .. MaxWrites)
    BY TextType DEF LTypeOK
  <2>2. written' \in Seq(0 .. MaxWrites) /\ flushed' \in 0 .. Len(written')
    BY <2>1, FPutsType
  <2> QED
    BY <2>1, <2>2 DEF LTypeOK, SlotInv, QInv
<1>2. LockInv' /\ FileReady' /\ CloseInv'
  BY DEF LTypeOK, LockInv, FileReady, CloseInv, Exiting
<1>3. BufferInv'
  <2> SUFFICES ASSUME ~mixed' PROVE BufferInv'
    BY DEF BufferInv
  <2> USE DEF BufferInv
  <2>1. asleepP' = {} /\ awakeP' = {} /\ arg' = [v \in Writer |-> None]
    BY DEF IsFull, producerVars
  <2>2. \A v, u \in InBuffer' : v = u
    BY DEF InBuffer, LTypeOK
  <2>3. InBuffer' = {} => buffer' = <<>>
    BY DEF InBuffer, LTypeOK
  <2>4. ASSUME NEW v \in Writer
        PROVE  /\ lpc'[v] \in {"handover", "push", "sync"} => buffer' = <<count'>> /\ count' > 0
               /\ lpc'[v] = "push" => ~IsFull'
    BY DEF InBuffer, LTypeOK, IsFull
  <2> QED
    BY <2>1, <2>2, <2>3, <2>4
<1> QED
  BY <1>1, <1>2, <1>3

LEMMA FlushLogStep ==
  ASSUME LInv, SlotInv', NEW w \in Writer, FlushLog(w)
  PROVE  LInv'
<1> USE LogAssumption, QueueAssumption
    DEF LInv, FlushLog, WakeWriteThread, Goes, WriterAt, Writer, lineVars, dayVars, fileVars, outVars, vars, FFlush, NotifyConsumer, consumerVars, producerVars
<1>1. LTypeOK'
  BY DEF LTypeOK, SlotInv, QInv
<1>2. LockInv' /\ FileReady' /\ CloseInv'
  BY DEF LTypeOK, LockInv, FileReady, CloseInv, Exiting
<1>3. BufferInv'
  BY DEF LTypeOK, TypeOK, BufferInv, InBuffer, IsFull
<1> QED
  BY <1>1, <1>2, <1>3

LEMMA ExitStep ==
  ASSUME LInv, SlotInv', NEW w \in Writer, Exit(w)
  PROVE  LInv'
<1> USE LogAssumption, QueueAssumption
    DEF LInv, Exit, WakeWriteThread, Goes, WriterAt, Writer, lineVars, dayVars, fileVars, outVars, vars, FFlush, NotifyConsumer, consumerVars, producerVars
<1>1. LTypeOK'
  BY DEF LTypeOK, SlotInv, QInv
<1>2. LockInv' /\ FileReady' /\ CloseInv'
  BY DEF LTypeOK, LockInv, FileReady, CloseInv, Exiting
<1>3. BufferInv'
  BY DEF LTypeOK, TypeOK, BufferInv, InBuffer, IsFull
<1> QED
  BY <1>1, <1>2, <1>3

LEMMA ExitFlushesStep ==
  ASSUME LInv, SlotInv', NEW w \in Writer, ExitFlushes(w)
  PROVE  LInv'
<1> USE LogAssumption, QueueAssumption
    DEF LInv, ExitFlushes, Goes, WriterAt, Writer, lineVars, dayVars, fileVars, outVars, vars, NotifyConsumer, consumerVars, producerVars
<1>1. LTypeOK'
  BY DEF LTypeOK, SlotInv, QInv
<1>2. LockInv' /\ FileReady' /\ CloseInv'
  BY DEF LTypeOK, LockInv, FileReady, CloseInv, Exiting
<1>3. BufferInv'
  BY DEF LTypeOK, TypeOK, BufferInv, InBuffer, IsFull
<1> QED
  BY <1>1, <1>2, <1>3

LEMMA ExitFindsEmptyStep ==
  ASSUME LInv, SlotInv', NEW w \in Writer, ExitFindsEmpty(w)
  PROVE  LInv'
<1> USE LogAssumption, QueueAssumption
    DEF LInv, ExitFindsEmpty, Goes, WriterAt, Writer, lineVars, dayVars, fileVars, outVars, vars, producerVars
<1>1. LTypeOK'
  BY DEF LTypeOK, SlotInv, QInv
<1>2. LockInv' /\ FileReady' /\ CloseInv'
  BY DEF LTypeOK, LockInv, FileReady, CloseInv, Exiting
<1>3. BufferInv'
  BY DEF LTypeOK, TypeOK, BufferInv, InBuffer, IsFull
<1> QED
  BY <1>1, <1>2, <1>3

LEMMA ExitClosesStep ==
  ASSUME LInv, SlotInv', NEW w \in Writer, ExitCloses(w)
  PROVE  LInv'
<1> USE LogAssumption, QueueAssumption
    DEF LInv, ExitCloses, Goes, WriterAt, Writer, lineVars, dayVars, fileVars, outVars, vars, Close, producerVars, consumerVars
<1>1. LTypeOK'
  <2>1. cleared' \in Seq(Item)
    BY ONLY LInv, ExitCloses(w) DEF LInv, LTypeOK, TypeOK, ExitCloses
  <2> QED
    BY <2>1 DEF LTypeOK, SlotInv, QInv
<1>2. LockInv' /\ FileReady' /\ CloseInv'
  BY DEF LTypeOK, LockInv, FileReady, CloseInv, Exiting
<1>3. BufferInv'
  BY DEF LTypeOK, TypeOK, BufferInv, InBuffer, IsFull
<1> QED
  BY <1>1, <1>2, <1>3

LEMMA PopLineStep ==
  ASSUME LInv, SlotInv', PopLine
  PROVE  LInv'
<1> USE LogAssumption, QueueAssumption
    DEF LInv, PopLine, Goes, WriterAt, Writer, lineVars, dayVars, fileVars, outVars, vars, PopWaits, PopItem, NotifyProducer, producerVars
<1>1. LTypeOK'
  BY HeadIsLine DEF LTypeOK, SlotInv, QInv
<1>2. LockInv' /\ FileReady' /\ CloseInv'
  BY DEF LTypeOK, LockInv, FileReady, CloseInv, Exiting
<1>3. BufferInv'
  BY DEF LTypeOK, TypeOK, BufferInv, InBuffer, IsFull
<1> QED
  BY <1>1, <1>2, <1>3

LEMMA WriteLineStep ==
  ASSUME LInv, SlotInv', WriteLine
  PROVE  LInv'
<1> USE LogAssumption, QueueAssumption
    DEF LInv, WriteLine, Goes, WriterAt, Writer, lineVars, dayVars, fileVars, outVars, vars
<1>1. LTypeOK'
  <2>1. hand \in Seq(0 .. MaxWrites) /\ <<>> \in Seq(0 .. MaxWrites)
    BY TextType DEF LTypeOK
  <2>2. written' \in Seq(0 .. MaxWrites) /\ flushed' \in 0 .. Len(written')
    BY <2>1, FPutsType
  <2> QED
    BY <2>1, <2>2 DEF LTypeOK, SlotInv, QInv
<1>2. LockInv' /\ FileReady' /\ CloseInv'
  BY DEF LTypeOK, LockInv, FileReady, CloseInv, Exiting
<1>3. BufferInv'
  <2> SUFFICES ASSUME ~mixed' PROVE BufferInv'
    BY DEF BufferInv
  <2> USE DEF BufferInv
  <2>1. asleepP' = {} /\ awakeP' = {} /\ arg' = [v \in Writer |-> None]
    BY DEF IsFull, producerVars
  <2>2. \A v, u \in InBuffer' : v = u
    BY DEF InBuffer, LTypeOK
  <2>3. InBuffer' = {} => buffer' = <<>>
    BY DEF InBuffer, LTypeOK
  <2>4. ASSUME NEW v \in Writer
        PROVE  /\ lpc'[v] \in {"handover", "push", "sync"} => buffer' = <<count'>> /\ count' > 0
               /\ lpc'[v] = "push" => ~IsFull'
    BY DEF InBuffer, LTypeOK, IsFull
  <2> QED
    BY <2>1, <2>2, <2>3, <2>4
<1> QED
  BY <1>1, <1>2, <1>3

LEMMA WriteThreadEndsStep ==
  ASSUME LInv, SlotInv', WriteThreadEnds
  PROVE  LInv'
<1> USE LogAssumption, QueueAssumption
    DEF LInv, WriteThreadEnds, Goes, WriterAt, Writer, lineVars, dayVars, fileVars, outVars, vars, PopFails, producerVars
<1>1. LTypeOK'
  BY DEF LTypeOK, SlotInv, QInv
<1>2. LockInv' /\ FileReady' /\ CloseInv'
  BY DEF LTypeOK, LockInv, FileReady, CloseInv, Exiting
<1>3. BufferInv'
  BY DEF LTypeOK, TypeOK, BufferInv, InBuffer, IsFull
<1> QED
  BY <1>1, <1>2, <1>3

LEMMA ExitNotifiesStep ==
  ASSUME LInv, SlotInv', ExitNotifies
  PROVE  LInv'
<1> USE LogAssumption, QueueAssumption
    DEF LInv, ExitNotifies, Goes, WriterAt, Writer, lineVars, dayVars, fileVars, outVars, vars, CloseNotifies, WakeAllConsumers, producerVars
<1>1. LTypeOK'
  BY DEF LTypeOK, SlotInv, QInv
<1>2. LockInv' /\ FileReady' /\ CloseInv'
  BY DEF LTypeOK, LockInv, FileReady, CloseInv, Exiting
<1>3. BufferInv'
  BY DEF LTypeOK, TypeOK, BufferInv, InBuffer, IsFull
<1> QED
  BY <1>1, <1>2, <1>3

LEMMA DayPassesStep ==
  ASSUME LInv, SlotInv', DayPasses
  PROVE  LInv'
<1> USE LogAssumption, QueueAssumption
    DEF LInv, DayPasses, Goes, WriterAt, Writer, lineVars, dayVars, fileVars, outVars, vars
<1>1. LTypeOK'
  BY DEF LTypeOK, SlotInv, QInv
<1>2. LockInv' /\ FileReady' /\ CloseInv'
  BY DEF LTypeOK, LockInv, FileReady, CloseInv, Exiting
<1>3. BufferInv'
  <2> SUFFICES ASSUME ~mixed' PROVE BufferInv'
    BY DEF BufferInv
  <2> USE DEF BufferInv
  <2>1. asleepP' = {} /\ awakeP' = {} /\ arg' = [v \in Writer |-> None]
    BY DEF IsFull, producerVars
  <2>2. \A v, u \in InBuffer' : v = u
    BY DEF InBuffer, LTypeOK
  <2>3. InBuffer' = {} => buffer' = <<>>
    BY DEF InBuffer, LTypeOK
  <2>4. ASSUME NEW v \in Writer
        PROVE  /\ lpc'[v] \in {"handover", "push", "sync"} => buffer' = <<count'>> /\ count' > 0
               /\ lpc'[v] = "push" => ~IsFull'
    BY DEF InBuffer, LTypeOK, IsFull
  <2> QED
    BY <2>1, <2>2, <2>3, <2>4
<1> QED
  BY <1>1, <1>2, <1>3

LEMMA WakeupStep ==
  ASSUME LInv, SlotInv', Wakeup
  PROVE  LInv'
<1> USE LogAssumption, QueueAssumption
    DEF LInv, Wakeup, Goes, WriterAt, Writer, lineVars, dayVars, fileVars, outVars, vars, SpuriousWakeup, producerVars
<1>1. LTypeOK'
  BY DEF LTypeOK, SlotInv, QInv
<1>2. LockInv' /\ FileReady' /\ CloseInv'
  BY DEF LTypeOK, LockInv, FileReady, CloseInv, Exiting
<1>3. BufferInv'
  BY DEF LTypeOK, TypeOK, BufferInv, InBuffer, IsFull
<1> QED
  BY <1>1, <1>2, <1>3

LEMMA DieStep ==
  ASSUME LInv, NEW reason \in {"exited", "terminated", "undefined"}, Die(reason)
  PROVE  LInv'
<1> USE DEF LInv, Die, vars, lineVars, dayVars, fileVars, outVars, producerVars, consumerVars
<1>1. LTypeOK' /\ SlotInv'
  BY DEF LTypeOK, SlotInv, QInv, TypeOK, InCall, Bounded, NoLostItem, NoLostSlot
<1>2. LockInv' /\ FileReady' /\ BufferInv' /\ CloseInv'
  BY DEF LockInv, FileReady, Exiting, BufferInv, InBuffer, CloseInv, IsFull
<1> QED
  BY <1>1, <1>2

LEMMA LInvStep == LInv /\ [LNext]_logVars => LInv'
<1> SUFFICES ASSUME LInv, [LNext]_logVars PROVE LInv'
  OBVIOUS
<1>1. SlotInv'
  BY LogStep, NextStep DEF LInv
<1>2. ASSUME NEW w \in Writer, GetLevel(w) \/ Log(w) \/ Exit(w) PROVE LInv'
  <2>1. CASE BufferRace(w) \/ LineBreakMoves(w) \/ Terminate(w) \/ UsesClosedFile(w)
    BY <2>1, DieStep DEF BufferRace, LineBreakMoves, Terminate,
                         UsesClosedFile
  <2> QED
    BY <1>1, <1>2, <2>1, GetLevelStep, WriteStep, NameFileStep, CloseFileStep, OpenFileStep, OpenFailsStep,
       EnterStep,
       HandOverStep, AsyncLineStep, ClearLineStep, SyncLineStep, FlushLogStep,
       ExitStep, ExitFlushesStep, ExitFindsEmptyStep, ExitClosesStep DEF Log
<1>3. CASE AsyncWrite
  <2>1. CASE WritesClosedFile
    BY <2>1, DieStep DEF WritesClosedFile
  <2> QED
    BY <1>1, <1>3, <2>1, PopLineStep, WriteLineStep, WriteThreadEndsStep DEF AsyncWrite
<1>4. CASE ExitNotifies \/ DayPasses \/ Wakeup
  BY <1>1, <1>4, ExitNotifiesStep, DayPassesStep, WakeupStep
<1>5. CASE UNCHANGED logVars
  BY <1>1, <1>5 DEF logVars, vars, producerVars, consumerVars, lineVars, dayVars, fileVars, outVars,
     LInv, LTypeOK, TypeOK, LockInv, FileReady, Exiting, BufferInv, InBuffer,
     CloseInv, IsFull
<1> QED
  BY <1>2, <1>3, <1>4, <1>5 DEF LNext
-----------------------------------------------------------------------------
\* LInv is an inductive invariant of the logger (write, flush, ~Log and the
\* write thread).
THEOREM LogInvariance == LSpec => []LInv
<1>1. LInit => LInv
  BY LInit_LInv
<1>2. LInv /\ [LNext]_logVars => LInv'
  BY LInvStep
<1> QED
  BY <1>1, <1>2, PTL DEF LSpec

\* The logger implements what BlockQueue models of its users: the theorems
\* about the queue hold for the queue of the logger.
THEOREM LogUsesQueue == LSpec => Spec
<1>1. LInit => Init
  BY DEF LInit
<1>2. LInv /\ [LNext]_logVars => [Next]_vars
  BY LogStep
<1> QED
  BY <1>1, <1>2, LogInvariance, PTL DEF LSpec, Spec

\* A rotation and the writing of lines exclude each other.
THEOREM FileIsReady == LSpec => []FileReady
<1>1. LInv => FileReady
  BY DEF LInv
<1> QED
  BY <1>1, LogInvariance, PTL
-----------------------------------------------------------------------------
(* Counting in sequences. *)

\* How often a member of T is in a sequence.
Places(s, T)  == {i \in DOMAIN s : s[i] \in T}
CountIn(s, T) == Cardinality(Places(s, T))

LEMMA CountType ==
  ASSUME NEW S, NEW s \in Seq(S), NEW T
  PROVE  /\ IsFiniteSet(Places(s, T))
         /\ CountIn(s, T) \in Nat
         /\ CountIn(s, T) = 0 <=> \A i \in DOMAIN s : s[i] \notin T
<1>1. Len(s) \in Nat /\ DOMAIN s = 1 .. Len(s)
  OBVIOUS
<1>2. Places(s, T) \in SUBSET (1 .. Len(s))
  BY <1>1 DEF Places
<1>3. IsFiniteSet(Places(s, T))
  <2>1. IsFiniteSet(1 .. Len(s))
    <3>1. 1 \in Int /\ Len(s) \in Int
      BY <1>1
    <3> QED BY <3>1, FS_Interval
  <2> QED BY <1>2, <2>1, FS_Subset
<1>4. CountIn(s, T) \in Nat /\ (CountIn(s, T) = 0 <=> Places(s, T) = {})
  BY <1>3, FS_CardinalityType, FS_EmptySet DEF CountIn
<1>5. Places(s, T) = {} <=> \A i \in DOMAIN s : s[i] \notin T
  BY DEF Places
<1> QED BY <1>3, <1>4, <1>5

LEMMA CountOne ==
  ASSUME NEW x, NEW T
  PROVE  /\ CountIn(<<>>, T) = 0
         /\ CountIn(<<x>>, T) = IF x \in T THEN 1 ELSE 0
<1>1. Places(<<>>, T) = {}
  BY DEF Places
<1>2. Places(<<x>>, T) = IF x \in T THEN {1} ELSE {}
  <2>1. DOMAIN <<x>> = {1} /\ <<x>>[1] = x
    OBVIOUS
  <2> QED BY <2>1 DEF Places
<1> QED BY <1>1, <1>2, FS_EmptySet, FS_Singleton DEF CountIn

\* A set of numbers moved up by n has as many members.
LEMMA Shift ==
  ASSUME NEW A \in SUBSET Nat, IsFiniteSet(A), NEW n \in Nat
  PROVE  LET B == {n + i : i \in A}
         IN  IsFiniteSet(B) /\ Cardinality(B) = Cardinality(A)
<1> DEFINE B == {n + i : i \in A}
           f == [i \in A |-> n + i]
<1>1. f \in [A -> B]
  OBVIOUS
<1>2. \A i, j \in A : f[i] = f[j] => i = j
  OBVIOUS
<1>3. \A b \in B : \E i \in A : f[i] = b
  OBVIOUS
<1>4. f \in Bijection(A, B)
  <2> HIDE DEF f, B
  <2> QED BY <1>1, <1>2, <1>3, Fun_IsBij
<1>5. ExistsBijection(A, B)
  <2> HIDE DEF f, B
  <2> QED BY <1>4 DEF ExistsBijection
<1> HIDE DEF B
<1>6. IsFiniteSet(B) /\ Cardinality(B) = Cardinality(A)
  BY <1>5, FS_Bijection
<1> QED BY <1>6 DEF B

LEMMA CountConcat ==
  ASSUME NEW S, NEW s \in Seq(S), NEW t \in Seq(S), NEW T
  PROVE  CountIn(s \o t, T) = CountIn(s, T) + CountIn(t, T)
<1> DEFINE A == Places(s, T)
           B == Places(t, T)
           C == {Len(s) + i : i \in B}
<1>1. /\ Len(s) \in Nat /\ DOMAIN s = 1 .. Len(s)
      /\ Len(t) \in Nat /\ DOMAIN t = 1 .. Len(t)
  OBVIOUS
<1>2. /\ s \o t \in Seq(S) /\ DOMAIN (s \o t) = 1 .. Len(s) + Len(t)
      /\ \A i \in 1 .. Len(s) + Len(t) : (s \o t)[i] = IF i <= Len(s) THEN s[i] ELSE t[i - Len(s)]
  BY <1>1, ConcatProperties
<1>3. /\ IsFiniteSet(A) /\ Cardinality(A) \in Nat /\ A \in SUBSET (1 .. Len(s))
      /\ IsFiniteSet(B) /\ Cardinality(B) \in Nat /\ B \in SUBSET (1 .. Len(t))
  BY <1>1, CountType DEF CountIn, Places
<1>4. IsFiniteSet(C) /\ Cardinality(C) = Cardinality(B)
  <2>1. B \in SUBSET Nat
    BY <1>1, <1>3
  <2> HIDE DEF B
  <2> QED BY <1>1, <1>3, <2>1, Shift
<1>5. A \cap C = {}
  <2> HIDE DEF A, B
  <2> QED BY <1>1, <1>3
<1>6. Places(s \o t, T) = A \cup C
  <2>1. ASSUME NEW i \in 1 .. Len(s) + Len(t), i <= Len(s)
        PROVE  i \in Places(s \o t, T) <=> i \in A
    BY <1>1, <1>2, <2>1 DEF Places
  <2>2. ASSUME NEW i \in 1 .. Len(s) + Len(t), i > Len(s)
        PROVE  i \in Places(s \o t, T) <=> i - Len(s) \in B
    <3>1. i - Len(s) \in 1 .. Len(t) /\ (s \o t)[i] = t[i - Len(s)]
      BY <1>1, <1>2, <2>2
    <3> QED BY <1>1, <1>2, <3>1 DEF Places
  <2>3. Places(s \o t, T) \in SUBSET (1 .. Len(s) + Len(t))
    BY <1>2 DEF Places
  <2>4. \A i \in C : i \in 1 .. Len(s) + Len(t) /\ i > Len(s) /\ i - Len(s) \in B
    <3> HIDE DEF B
    <3> QED BY <1>1, <1>3
  <2>5. \A i \in 1 .. Len(s) + Len(t) : i - Len(s) \in B => i \in C
    <3> SUFFICES ASSUME NEW i \in 1 .. Len(s) + Len(t), i - Len(s) \in B PROVE i \in C
      OBVIOUS
    <3>1. i = Len(s) + (i - Len(s))
      BY <1>1
    <3> HIDE DEF B
    <3> QED BY <3>1
  <2>6. \A i \in A : i \in 1 .. Len(s) + Len(t) /\ i <= Len(s)
    <3> HIDE DEF A
    <3> QED BY <1>1, <1>3
  <2> HIDE DEF A, B, C
  <2>7. \A i \in 1 .. Len(s) + Len(t) : i <= Len(s) \/ i > Len(s)
    BY <1>1
  <2> QED BY <2>1, <2>2, <2>3, <2>4, <2>5, <2>6, <2>7
<1>7. Cardinality(A \cup C) = Cardinality(A) + Cardinality(B)
  <2> HIDE DEF A, B, C
  <2>1. Cardinality(A \cup C) = Cardinality(A) + Cardinality(C) - Cardinality(A \cap C)
    BY <1>3, <1>4, FS_Union
  <2>2. Cardinality(A \cap C) = 0
    BY <1>5, FS_EmptySet
  <2> QED BY <1>3, <1>4, <2>1, <2>2
<1> QED BY <1>6, <1>7 DEF CountIn

-----------------------------------------------------------------------------
(* Every line is in one place. *)

Sum(k) == CountIn(written, {k}) + CountIn(hand, {k}) + CountIn(Pending, {k})
            + CountIn(queue, {<<k>>}) + CountIn(cleared, {<<k>>})

\* The inductive invariant behind EachLineOnce: a line that was begun is in
\* one of the five places and once, one that was not is nowhere.
LineInv == ~mixed => \A k \in 1 .. MaxWrites : Sum(k) = IF k <= count THEN 1 ELSE 0

\* While a thread hands its line over, it alone is in the buffer.
HandingOver(w) == lpc[w] \in {"handover", "push", "sync"}

LEMMA PendingLine ==
  ASSUME LInv, ~mixed
  PROVE  /\ \A w \in Writer : HandingOver(w) => Pending = <<count>> /\ count \in 1 .. MaxWrites
         /\ (\A w \in Writer : ~HandingOver(w)) => Pending = <<>>
         /\ Pending \in Seq(0 .. MaxWrites)
         /\ \A w, u \in Writer : HandingOver(w) /\ HandingOver(u) => w = u
<1>1. \A w \in Writer : HandingOver(w) => Pending = <<count>> /\ count \in 1 .. MaxWrites
  BY LogAssumption DEF LInv, BufferInv, LTypeOK, HandingOver, Pending
<1>2. (\A w \in Writer : ~HandingOver(w)) => Pending = <<>>
  BY DEF HandingOver, Pending
<1>3. Pending \in Seq(0 .. MaxWrites)
  <2>1. <<>> \in Seq(0 .. MaxWrites) /\ buffer \in Seq(0 .. MaxWrites)
    BY DEF LInv, LTypeOK
  <2> QED BY <2>1 DEF Pending
<1>4. \A w, u \in Writer : HandingOver(w) /\ HandingOver(u) => w = u
  BY DEF LInv, BufferInv, InBuffer, HandingOver
<1> QED BY <1>1, <1>2, <1>3, <1>4

LEMMA SumType ==
  ASSUME LInv, ~mixed, NEW k
  PROVE  /\ CountIn(written, {k}) \in Nat /\ CountIn(hand, {k}) \in Nat
         /\ CountIn(Pending, {k}) \in Nat /\ CountIn(queue, {<<k>>}) \in Nat
         /\ CountIn(cleared, {<<k>>}) \in Nat
<1>1. /\ written \in Seq(0 .. MaxWrites) /\ hand \in Seq(0 .. MaxWrites)
      /\ Pending \in Seq(0 .. MaxWrites) /\ queue \in Seq(Item)
      /\ cleared \in Seq(Item)
  BY PendingLine DEF LInv, LTypeOK, TypeOK
<1> QED BY <1>1, CountType

\* Steps that leave the lines where they are.
LEMMA LinesStay ==
  ASSUME LineInv, UNCHANGED <<written, hand, queue, cleared, count, mixed>>, Pending' = Pending
  PROVE  LineInv'
BY DEF LineInv, Sum

LEMMA PendingSame ==
  ASSUME LInv, UNCHANGED buffer, NEW w \in Writer, NEW step,
         lpc' = [lpc EXCEPT ![w] = step],
         HandingOver(w) <=> step \in {"handover", "push", "sync"}
  PROVE  Pending' = Pending
<1>1. \A u \in Writer : lpc'[u] \in {"handover", "push", "sync"} <=> lpc[u] \in {"handover", "push", "sync"}
  BY DEF LInv, LTypeOK, HandingOver
<1> QED BY <1>1 DEF Pending

\* A writer has handed its line over.
LEMMA PendingGone ==
  ASSUME LInv, ~mixed, NEW w \in Writer, HandingOver(w), NEW step,
         lpc' = [lpc EXCEPT ![w] = step], step \notin {"handover", "push", "sync"}
  PROVE  Pending' = <<>>
<1>1. \A u \in Writer : lpc'[u] \notin {"handover", "push", "sync"}
  BY PendingLine DEF LInv, LTypeOK, HandingOver
<1> QED BY <1>1 DEF Pending

LEMMA EnterLine ==
  ASSUME LInv, LineInv, ~mixed', NEW w \in Writer, Enter(w)
  PROVE  LineInv'
<1>1. /\ proc = "up" /\ count' = count + 1 /\ count \in Nat /\ count < MaxWrites
      /\ lpc' = [lpc EXCEPT ![w] = "handover"] /\ InBuffer = {}
      /\ buffer' = Append(buffer, count')
      /\ written' = written /\ hand' = hand /\ queue' = queue /\ cleared' = cleared
      /\ ~mixed
  <2>1. ~mixed /\ InBuffer = {}
    BY DEF Enter
  <2>2. /\ proc = "up" /\ count' = count + 1 /\ count < MaxWrites
        /\ lpc' = [lpc EXCEPT ![w] = "handover"]
        /\ written' = written /\ hand' = hand /\ queue' = queue /\ cleared' = cleared
    BY DEF Enter, WriterAt, Goes, fileVars, outVars, vars
  <2>3. buffer' = Append(buffer, count')
    BY DEF Enter
  <2> QED BY <2>1, <2>2, <2>3 DEF LInv, LTypeOK
<1>2. Pending = <<>>
  BY <1>1 DEF Pending, InBuffer
<1>3. Pending' = <<count'>>
  <2>1. buffer = <<>>
    BY <1>1 DEF LInv, BufferInv
  <2>2. lpc'[w] = "handover"
    BY <1>1 DEF LInv, LTypeOK
  <2> QED BY <1>1, <2>1, <2>2 DEF Pending
<1>4. ASSUME NEW k \in 1 .. MaxWrites
      PROVE  Sum(k)' = IF k <= count' THEN 1 ELSE 0
  <2>1. CountIn(Pending, {k}) = 0 /\ CountIn(Pending', {k}) = IF k = count' THEN 1 ELSE 0
    BY <1>2, <1>3, CountOne
  <2>2. Sum(k) = IF k <= count THEN 1 ELSE 0
    BY <1>1 DEF LineInv
  <2>3. /\ Sum(k) = CountIn(written, {k}) + CountIn(hand, {k}) + CountIn(Pending, {k})
                      + CountIn(queue, {<<k>>}) + CountIn(cleared, {<<k>>})
        /\ Sum(k)' = CountIn(written, {k}) + CountIn(hand, {k}) + CountIn(Pending', {k})
                      + CountIn(queue, {<<k>>}) + CountIn(cleared, {<<k>>})
    BY <1>1 DEF Sum
  <2>4. k \in Int /\ count \in Int /\ count' = count + 1
    BY <1>1
  <2>5. /\ CountIn(written, {k}) \in Nat /\ CountIn(hand, {k}) \in Nat
        /\ CountIn(Pending, {k}) \in Nat /\ CountIn(queue, {<<k>>}) \in Nat
         /\ CountIn(cleared, {<<k>>}) \in Nat
    BY <1>1, SumType
  <2>6. /\ k = count' => CountIn(Pending', {k}) = 1 /\ Sum(k) = 0 /\ k <= count'
        /\ k # count' => CountIn(Pending', {k}) = 0
        /\ k # count' => (k <= count' <=> k <= count)
    BY <2>1, <2>2, <2>4
  <2> QED BY <2>1, <2>2, <2>3, <2>5, <2>6
<1> QED BY <1>4 DEF LineInv

\* The line goes from the buffer to the queue.
LEMMA PushLine ==
  ASSUME LInv, LineInv, ~mixed', NEW w \in Writer, AsyncLine(w)
  PROVE  LineInv'
<1>1. proc = "up" /\ lpc[w] = "push" /\ ~mixed /\ Text = buffer
  BY DEF AsyncLine, WriterAt, lineVars, Text
<1>2. CASE PushWaits(w, "back", Text)
  BY <1>1, <1>2 DEF LInv, BufferInv, PushWaits
<1>3. CASE PushItem(w, "back", Text)
  <2>1. /\ queue' = Append(queue, buffer) /\ lpc' = [lpc EXCEPT ![w] = "clear"]
        /\ UNCHANGED <<written, hand, cleared, count, buffer>>
    <3>1. /\ queue' = Append(queue, buffer)
          /\ UNCHANGED <<written, hand, cleared, count, buffer>>
      BY <1>1, <1>3 DEF PushItem, AsyncLine, lineVars, fileVars, outVars
    <3>2. ~PushWaits(w, "back", Text)
      BY <1>3 DEF PushItem, PushWaits
    <3> QED BY <1>1, <3>1, <3>2 DEF AsyncLine, Goes
  <2>2. HandingOver(w)
    BY <1>1 DEF HandingOver
  <2>3. Pending = <<count>> /\ Pending' = <<>> /\ buffer = <<count>> /\ count \in 1 .. MaxWrites
    BY <1>1, <2>1, <2>2, PendingLine, PendingGone DEF LInv, BufferInv
  <2>4. queue \in Seq(Item) /\ <<buffer>> \in Seq(Item) /\ queue' = queue \o <<buffer>>
    <3>1. buffer \in Item /\ queue \in Seq(Item)
      BY <1>1, BufferIsItem DEF LInv, LTypeOK, TypeOK
    <3> QED BY <2>1, <3>1, AppendIsConcat
  <2>5. ASSUME NEW k \in 1 .. MaxWrites
        PROVE  Sum(k)' = Sum(k)
    <3>1. CountIn(queue', {<<k>>}) = CountIn(queue, {<<k>>}) + CountIn(<<buffer>>, {<<k>>})
      <4> DEFINE T == {<<k>>}
                 last == <<buffer>>
      <4>1. queue' = queue \o last /\ queue \in Seq(Item) /\ last \in Seq(Item)
        BY <2>4
      <4> HIDE DEF T, last
      <4>2. CountIn(queue', T) = CountIn(queue, T) + CountIn(last, T)
        BY <4>1, CountConcat
      <4> QED BY <4>2 DEF T, last
    <3>2. CountIn(<<buffer>>, {<<k>>}) = IF buffer \in {<<k>>} THEN 1 ELSE 0
      BY CountOne
    <3>3. buffer \in {<<k>>} <=> k = count
      <4>1. <<count>>[1] = count /\ <<k>>[1] = k
        OBVIOUS
      <4> QED BY <2>3, <4>1
    <3>4. CountIn(Pending', {k}) = 0 /\ CountIn(Pending, {k}) = IF k = count THEN 1 ELSE 0
      BY <2>3, CountOne
    <3>5. /\ Sum(k) = CountIn(written, {k}) + CountIn(hand, {k}) + CountIn(Pending, {k})
                        + CountIn(queue, {<<k>>}) + CountIn(cleared, {<<k>>})
          /\ Sum(k)' = CountIn(written, {k}) + CountIn(hand, {k}) + CountIn(Pending', {k})
                        + CountIn(queue', {<<k>>}) + CountIn(cleared, {<<k>>})
      BY <2>1 DEF Sum
    <3>6. /\ CountIn(written, {k}) \in Nat /\ CountIn(hand, {k}) \in Nat
          /\ CountIn(Pending, {k}) \in Nat /\ CountIn(queue, {<<k>>}) \in Nat
         /\ CountIn(cleared, {<<k>>}) \in Nat
      BY <1>1, SumType
    <3>7. k = count => CountIn(<<buffer>>, {<<k>>}) = 1 /\ CountIn(Pending, {k}) = 1
      BY <3>2, <3>3, <3>4
    <3>8. k # count => CountIn(<<buffer>>, {<<k>>}) = 0 /\ CountIn(Pending, {k}) = 0
      BY <3>2, <3>3, <3>4
    <3> QED BY <3>1, <3>4, <3>5, <3>6, <3>7, <3>8
  <2> QED BY <1>1, <2>1, <2>5 DEF LineInv
<1> QED BY <1>2, <1>3 DEF AsyncLine

\* The writer passes its line to fputs itself.
LEMMA SyncLineLine ==
  ASSUME LInv, LineInv, ~mixed', NEW w \in Writer, SyncLine(w)
  PROVE  LineInv'
<1>1. /\ proc = "up" /\ HandingOver(w) /\ lpc' = [lpc EXCEPT ![w] = "flush"]
      /\ written' = written \o buffer
      /\ UNCHANGED <<hand, queue, cleared, count>> /\ ~mixed
  BY DEF SyncLine, WriterAt, Goes, FPuts, Text, HandingOver, vars, outVars
<1>2. /\ Pending = buffer /\ Pending' = <<>>
      /\ buffer \in Seq(0 .. MaxWrites) /\ written \in Seq(0 .. MaxWrites)
  BY <1>1, PendingGone DEF Pending, HandingOver, LInv, LTypeOK
<1>3. ASSUME NEW k \in 1 .. MaxWrites
      PROVE  Sum(k)' = Sum(k)
  <2>1. CountIn(written', {k}) = CountIn(written, {k}) + CountIn(Pending, {k})
    BY <1>1, <1>2, CountConcat
  <2>2. CountIn(Pending', {k}) = 0
    BY <1>2, CountOne
  <2>3. /\ Sum(k) = CountIn(written, {k}) + CountIn(hand, {k}) + CountIn(Pending, {k})
                      + CountIn(queue, {<<k>>}) + CountIn(cleared, {<<k>>})
        /\ Sum(k)' = CountIn(written', {k}) + CountIn(hand, {k}) + CountIn(Pending', {k})
                      + CountIn(queue, {<<k>>}) + CountIn(cleared, {<<k>>})
    BY <1>1 DEF Sum
  <2>4. /\ CountIn(written, {k}) \in Nat /\ CountIn(hand, {k}) \in Nat
        /\ CountIn(Pending, {k}) \in Nat /\ CountIn(queue, {<<k>>}) \in Nat
         /\ CountIn(cleared, {<<k>>}) \in Nat
    BY <1>1, SumType
  <2> QED BY <2>1, <2>2, <2>3, <2>4
<1> QED BY <1>1, <1>3 DEF LineInv

\* The write thread takes the oldest line of the queue.
LEMMA PopLineLine ==
  ASSUME LInv, LineInv, ~mixed, PopLine
  PROVE  LineInv'
<1>1. proc = "up" /\ hand = <<>> /\ UNCHANGED <<written, cleared, count, mixed, Pending>>
  BY DEF PopLine, lineVars, fileVars, Pending
<1>2. CASE PopWaits(WriteThread) /\ UNCHANGED hand
  BY <1>1, <1>2, LinesStay DEF PopWaits
<1>3. CASE PopItem(WriteThread) /\ hand' = Head(queue)
  <2>1. queue' = Tail(queue) /\ queue # <<>> /\ queue \in Seq(Item)
    BY <1>3 DEF PopItem, LInv, LTypeOK, TypeOK
  <2>2. PICK j \in 0 .. MaxWrites : Head(queue) = <<j>>
    <3>1. Head(queue) \in Item
      BY <2>1
    <3> QED BY <3>1, LogAssumption
  <2>3. queue = <<Head(queue)>> \o Tail(queue) /\ <<Head(queue)>> \in Seq(Item) /\ Tail(queue) \in Seq(Item)
    BY <2>1, HeadTailProperties
  <2>4. ASSUME NEW k \in 1 .. MaxWrites
        PROVE  Sum(k)' = Sum(k)
    <3>1. CountIn(queue, {<<k>>}) = CountIn(<<Head(queue)>>, {<<k>>}) + CountIn(queue', {<<k>>})
      <4> DEFINE T == {<<k>>}
                 first == <<Head(queue)>>
      <4>1. queue = first \o queue' /\ first \in Seq(Item) /\ queue' \in Seq(Item)
        BY <2>1, <2>3
      <4> HIDE DEF T, first
      <4>2. CountIn(queue, T) = CountIn(first, T) + CountIn(queue', T)
        BY <4>1, CountConcat
      <4> QED BY <4>2 DEF T, first
    <3>2. CountIn(<<Head(queue)>>, {<<k>>}) = IF Head(queue) \in {<<k>>} THEN 1 ELSE 0
      BY CountOne
    <3>3. Head(queue) \in {<<k>>} <=> k = j
      <4>1. <<j>>[1] = j /\ <<k>>[1] = k
        OBVIOUS
      <4> QED BY <2>2, <4>1
    <3>4. CountIn(hand, {k}) = 0 /\ CountIn(hand', {k}) = IF k = j THEN 1 ELSE 0
      BY <1>1, <1>3, <2>2, CountOne
    <3>5. /\ Sum(k) = CountIn(written, {k}) + CountIn(hand, {k}) + CountIn(Pending, {k})
                        + CountIn(queue, {<<k>>}) + CountIn(cleared, {<<k>>})
          /\ Sum(k)' = CountIn(written, {k}) + CountIn(hand', {k}) + CountIn(Pending, {k})
                        + CountIn(queue', {<<k>>}) + CountIn(cleared, {<<k>>})
      BY <1>1 DEF Sum
    <3>6. CountIn(queue', {<<k>>}) \in Nat
      BY <2>1, <2>3, CountType
    <3>7. /\ CountIn(written, {k}) \in Nat /\ CountIn(hand, {k}) \in Nat
          /\ CountIn(Pending, {k}) \in Nat /\ CountIn(queue, {<<k>>}) \in Nat
         /\ CountIn(cleared, {<<k>>}) \in Nat
      BY SumType
    <3>8. k = j => CountIn(<<Head(queue)>>, {<<k>>}) = 1 /\ CountIn(hand', {k}) = 1
      BY <3>2, <3>3, <3>4
    <3>9. k # j => CountIn(<<Head(queue)>>, {<<k>>}) = 0 /\ CountIn(hand', {k}) = 0
      BY <3>2, <3>3, <3>4
    <3> QED BY <3>1, <3>4, <3>5, <3>6, <3>7, <3>8, <3>9
  <2> QED BY <1>1, <2>4 DEF LineInv
<1> QED BY <1>2, <1>3 DEF PopLine

\* ... and passes it to fputs.
LEMMA WriteLineLine ==
  ASSUME LInv, LineInv, ~mixed, WriteLine
  PROVE  LineInv'
<1>1. /\ proc = "up" /\ written' = written \o hand /\ hand' = <<>>
      /\ UNCHANGED <<queue, cleared, count, Pending>>
      /\ written \in Seq(0 .. MaxWrites) /\ hand \in Seq(0 .. MaxWrites)
  BY DEF WriteLine, FPuts, vars, lineVars, Pending, LInv, LTypeOK
<1>2. ASSUME NEW k \in 1 .. MaxWrites
      PROVE  Sum(k)' = Sum(k)
  <2>1. CountIn(written', {k}) = CountIn(written, {k}) + CountIn(hand, {k})
    BY <1>1, CountConcat
  <2>2. CountIn(hand', {k}) = 0
    BY <1>1, CountOne
  <2>3. /\ Sum(k) = CountIn(written, {k}) + CountIn(hand, {k}) + CountIn(Pending, {k})
                      + CountIn(queue, {<<k>>}) + CountIn(cleared, {<<k>>})
        /\ Sum(k)' = CountIn(written', {k}) + CountIn(hand', {k}) + CountIn(Pending, {k})
                      + CountIn(queue, {<<k>>}) + CountIn(cleared, {<<k>>})
    BY <1>1 DEF Sum
  <2>4. /\ CountIn(written, {k}) \in Nat /\ CountIn(hand, {k}) \in Nat
        /\ CountIn(Pending, {k}) \in Nat /\ CountIn(queue, {<<k>>}) \in Nat
         /\ CountIn(cleared, {<<k>>}) \in Nat
    BY SumType
  <2> QED BY <2>1, <2>2, <2>3, <2>4
<1> QED BY <1>1, <1>2 DEF LineInv

\* close() moves what is queued to what is lost; nothing was lost before.
LEMMA CloseLine ==
  ASSUME LInv, LineInv, ~mixed', NEW w \in Writer, ExitCloses(w)
  PROVE  LineInv'
<1>1. /\ queue' = <<>> /\ cleared' = queue /\ lpc' = [lpc EXCEPT ![w] = "close"]
      /\ UNCHANGED <<written, hand, count, mixed, buffer>>
      /\ lpc[w] = "shut"
  BY DEF ExitCloses, Close, WriterAt, Goes, lineVars, fileVars
<1>2. cleared = <<>>
  BY <1>1 DEF LInv, CloseInv
<1>3. Pending' = Pending
  BY <1>1, PendingSame DEF HandingOver
<1>4. ASSUME NEW k \in 1 .. MaxWrites
      PROVE  Sum(k)' = Sum(k)
  <2>1. CountIn(queue', {<<k>>}) = 0 /\ CountIn(cleared, {<<k>>}) = 0
    BY <1>1, <1>2, CountOne
  <2>2. /\ CountIn(written, {k}) \in Nat /\ CountIn(hand, {k}) \in Nat
        /\ CountIn(Pending, {k}) \in Nat /\ CountIn(queue, {<<k>>}) \in Nat
    BY <1>1, SumType
  <2> QED BY <1>1, <1>3, <2>1, <2>2 DEF Sum
<1> QED BY <1>1, <1>4 DEF LineInv

LEMMA LineInit == LInit => LineInv
<1> SUFFICES ASSUME LInit PROVE LineInv
  OBVIOUS
<1>1. /\ count = 0 /\ written = <<>> /\ hand = <<>> /\ queue = <<>> /\ cleared = <<>>
      /\ Pending = <<>>
  BY DEF LInit, Init, Pending
<1>2. ASSUME NEW k \in 1 .. MaxWrites
      PROVE  Sum(k) = 0 /\ ~(k <= count)
  <2>1. /\ CountIn(written, {k}) = 0 /\ CountIn(hand, {k}) = 0
        /\ CountIn(Pending, {k}) = 0 /\ CountIn(queue, {<<k>>}) = 0
        /\ CountIn(cleared, {<<k>>}) = 0
    BY <1>1, CountOne
  <2> QED BY <1>1, <2>1 DEF Sum
<1> QED BY <1>2 DEF LineInv

\* A writer elsewhere goes on, and the lines stay where they are.
LEMMA WriterElsewhere ==
  ASSUME LInv, LineInv, NEW w \in Writer, NEW step, lpc' = [lpc EXCEPT ![w] = step],
         HandingOver(w) <=> step \in {"handover", "push", "sync"},
         UNCHANGED <<written, hand, queue, cleared, count, mixed, buffer>>
  PROVE  LineInv'
<1>1. Pending' = Pending
  BY PendingSame
<1> QED BY <1>1, LinesStay

\* The buffer is cleared when its line has been handed over.
LEMMA ClearLineLine ==
  ASSUME LInv, LineInv, ~mixed', NEW w \in Writer, ClearLine(w)
  PROVE  LineInv'
<1>1. /\ proc = "up" /\ lpc[w] = "clear" /\ lpc' = [lpc EXCEPT ![w] = "flush"]
      /\ UNCHANGED <<written, hand, queue, cleared, count, mixed>>
  BY DEF ClearLine, WriterAt, Goes, vars, fileVars, outVars
<1>2. \A u \in Writer : ~HandingOver(u)
  BY <1>1 DEF LInv, BufferInv, InBuffer, HandingOver
<1>3. Pending = <<>> /\ Pending' = <<>>
  <2>1. \A u \in Writer : lpc'[u] \notin {"handover", "push", "sync"}
    BY <1>1, <1>2 DEF LInv, LTypeOK, HandingOver
  <2> QED BY <1>2, <2>1 DEF Pending, HandingOver
<1> QED BY <1>1, <1>3, LinesStay

LEMMA LineNext ==
  ASSUME LInv, LineInv, [LNext]_logVars
  PROVE  LineInv'
<1> USE DEF vars, producerVars, lineVars, dayVars, fileVars, outVars
<1> SUFFICES ASSUME ~mixed' PROVE LineInv'
  BY DEF LineInv
<1>1. ASSUME NEW w \in Writer, GetLevel(w) \/ Log(w) \/ Exit(w)
      PROVE  LineInv'
  <2>1. CASE GetLevel(w) \/ Write(w) \/ NameFile(w)
    BY <2>1, WriterElsewhere DEF GetLevel, Write, NameFile, WriterAt, Goes, HandingOver
  <2>2. CASE CloseFile(w) \/ OpenFile(w) \/ OpenFails(w)
    BY <2>2, WriterElsewhere DEF CloseFile, OpenFile, OpenFails, WriterAt, Goes, HandingOver
  <2>3. CASE HandOver(w)
    BY <2>3, WriterElsewhere DEF HandOver, WriterAt, Goes, HandingOver
  <2>4. CASE FlushLog(w) \/ Exit(w)
    BY <2>4, WriterElsewhere DEF FlushLog, Exit, WriterAt, Goes, HandingOver
  <2>5. CASE ExitFlushes(w)
    BY <2>5, LinesStay DEF ExitFlushes, WriterAt, Pending
  <2>6. CASE ExitFindsEmpty(w)
    BY <2>6, WriterElsewhere DEF ExitFindsEmpty, WriterAt, Goes, HandingOver
  <2>7. CASE \/ BufferRace(w) \/ LineBreakMoves(w) \/ Terminate(w) \/ UsesClosedFile(w)
    BY <2>7, LinesStay DEF BufferRace, LineBreakMoves, Terminate, UsesClosedFile, Die, Pending
  <2> QED BY <1>1, <2>1, <2>2, <2>3, <2>4, <2>5, <2>6, <2>7,
             EnterLine, PushLine, SyncLineLine, ClearLineLine, CloseLine DEF Log
<1>2. CASE PopLine \/ WriteLine
  <2>1. ~mixed
    BY <1>2 DEF PopLine, WriteLine
  <2> QED BY <1>2, <2>1, PopLineLine, WriteLineLine
<1>3. CASE WriteThreadEnds
  BY <1>3, LinesStay DEF WriteThreadEnds, PopFails, Pending
<1>4. CASE WritesClosedFile
  BY <1>4, LinesStay DEF WritesClosedFile, Die, Pending
<1>5. CASE ExitNotifies
  BY <1>5, LinesStay DEF ExitNotifies, CloseNotifies, Pending
<1>6. CASE DayPasses \/ Wakeup
  BY <1>6, LinesStay DEF DayPasses, Wakeup, SpuriousWakeup, Pending
<1>7. CASE UNCHANGED logVars
  BY <1>7, LinesStay DEF logVars, Pending
<1> QED BY <1>1, <1>2, <1>3, <1>4, <1>5, <1>6, <1>7 DEF LNext, AsyncWrite

\* A line in the queue is an item of its own.
LEMMA LineInv_Once == LInv /\ LineInv => EachLineOnce
<1> SUFFICES ASSUME LInv, LineInv, ~mixed, NEW k \in 1 .. count
             PROVE  Occurrences(k, written) + Occurrences(k, hand) + Occurrences(k, Pending)
                      + Copies(k, queue) + Copies(k, cleared) = 1
  BY DEF EachLineOnce
<1>1. k \in 0 .. MaxWrites /\ k <= count
  BY LogAssumption DEF LInv, LTypeOK, TypeOK
<1>2. \A s : Occurrences(k, s) = CountIn(s, {k})
  <2> SUFFICES ASSUME NEW s PROVE Occurrences(k, s) = CountIn(s, {k})
    OBVIOUS
  <2>1. {i \in DOMAIN s : s[i] = k} = Places(s, {k})
    BY DEF Places
  <2> QED BY <2>1 DEF Occurrences, CountIn
<1>3. ASSUME NEW q \in Seq(Item) PROVE Copies(k, q) = CountIn(q, {<<k>>})
  <2>1. ASSUME NEW i \in DOMAIN q
        PROVE  Occurrences(k, q[i]) > 0 <=> q[i] \in {<<k>>}
    <3>1. PICK j \in 0 .. MaxWrites : q[i] = <<j>>
      <4>1. q[i] \in Item
        OBVIOUS
      <4> QED BY <4>1, LogAssumption
    <3>2. CountIn(<<j>>, {k}) = IF j = k THEN 1 ELSE 0
      BY CountOne
    <3>3. <<j>> = <<k>> <=> j = k
      <4>1. <<j>>[1] = j /\ <<k>>[1] = k
        OBVIOUS
      <4> QED BY <4>1
    <3>4. Occurrences(k, q[i]) = CountIn(<<j>>, {k})
      BY <1>2, <3>1
    <3>5. j = k => Occurrences(k, q[i]) = 1
      BY <3>2, <3>4
    <3>6. j # k => Occurrences(k, q[i]) = 0
      BY <3>2, <3>4
    <3>7. q[i] \in {<<k>>} <=> j = k
      BY <3>1, <3>3
    <3> QED BY <3>5, <3>6, <3>7
  <2>2. {i \in DOMAIN q : Occurrences(k, q[i]) > 0} = Places(q, {<<k>>})
    BY <2>1 DEF Places
  <2> QED BY <2>2 DEF Copies, CountIn
<1>4. Sum(k) = 1
  BY <1>1 DEF LineInv
<1>5. queue \in Seq(Item) /\ cleared \in Seq(Item)
  BY DEF LInv, LTypeOK, TypeOK
<1> QED BY <1>2, <1>3, <1>4, <1>5 DEF Sum

\* The write thread holds one line at most.
OneInHand == Len(hand) <= 1

LEMMA OneInHandNext ==
  ASSUME LInv, OneInHand, [LNext]_logVars
  PROVE  OneInHand'
<1> USE DEF vars, producerVars, lineVars, dayVars, fileVars, outVars, OneInHand
<1>1. CASE PopLine
  <2>1. CASE PopWaits(WriteThread) /\ UNCHANGED hand
    BY <2>1
  <2>2. CASE PopItem(WriteThread) /\ hand' = Head(queue)
    <3>1. Head(queue) \in Item
      BY <2>2 DEF PopItem, LInv, LTypeOK, TypeOK
    <3>2. PICK j \in 0 .. MaxWrites : Head(queue) = <<j>>
      BY <3>1, LogAssumption
    <3>3. hand' = <<j>>
      BY <2>2, <3>2
    <3>4. Len(hand') = 1
      BY <3>3
    <3> QED BY <3>4
  <2> QED BY <1>1, <2>1, <2>2 DEF PopLine
<1>2. CASE WriteLine
  BY <1>2 DEF WriteLine
<1>3. ASSUME NEW w \in Writer, GetLevel(w) \/ Log(w) \/ Exit(w)
      PROVE  hand' = hand
  BY <1>3 DEF GetLevel, Log, Write, NameFile, CloseFile, OpenFile, OpenFails, Enter, BufferRace,
     LineBreakMoves, HandOver, AsyncLine, ClearLine, SyncLine, FlushLog, ExitFlushes,
     ExitFindsEmpty, ExitCloses, Terminate, UsesClosedFile, Exit, Die
<1>4. CASE \/ WriteThreadEnds \/ WritesClosedFile \/ ExitNotifies \/ DayPasses \/ Wakeup
           \/ UNCHANGED logVars
  BY <1>4 DEF WriteThreadEnds, WritesClosedFile, ExitNotifies, DayPasses, Wakeup, Die, logVars
<1> QED BY <1>1, <1>2, <1>3, <1>4 DEF LNext, AsyncWrite

\* A line that was begun earlier than one in the file, and is not in the file,
\* is in the hand of the write thread or in the queue.
LEMMA LateLine ==
  ASSUME LInv, LineInv, OneInHand, ~mixed, cleared = <<>>, NEW i \in DOMAIN written,
         NEW k \in 1 .. written[i], ~Logged(k)
  PROVE  \/ k = hand[1]
         \/ \E j \in DOMAIN queue : queue[j] = <<k>>
<1>1. /\ written \in Seq(0 .. MaxWrites) /\ hand \in Seq(0 .. MaxWrites) /\ queue \in Seq(Item)
      /\ MaxWrites \in Nat /\ count \in Nat
  BY LogAssumption DEF LInv, LTypeOK, TypeOK
<1>2. written[i] \in 1 .. MaxWrites /\ k \in 1 .. MaxWrites
  <2>1. written[i] \in 0 .. MaxWrites
    BY <1>1
  <2> QED BY <1>1, <2>1
<1>3. written[i] <= count
  <2>1. PICK n \in 1 .. MaxWrites : n = written[i]
    BY <1>2
  <2>2. CountIn(written, {n}) # 0
    BY <1>1, <2>1, CountType
  <2>3. Sum(n) = CountIn(written, {n}) + CountIn(hand, {n}) + CountIn(Pending, {n})
                   + CountIn(queue, {<<n>>}) + CountIn(cleared, {<<n>>})
    BY DEF Sum
  <2>4. /\ CountIn(written, {n}) \in Nat /\ CountIn(hand, {n}) \in Nat
        /\ CountIn(Pending, {n}) \in Nat /\ CountIn(queue, {<<n>>}) \in Nat
        /\ CountIn(cleared, {<<n>>}) \in Nat
    BY SumType
  <2>5. Sum(n) # 0
    BY <2>2, <2>3, <2>4
  <2>6. Sum(n) = IF n <= count THEN 1 ELSE 0
    BY <2>1 DEF LineInv
  <2> QED BY <2>1, <2>5, <2>6
<1>4. CountIn(written, {k}) = 0
  BY <1>1, CountType DEF Logged
<1>5. CountIn(Pending, {k}) = 0
  <2>1. CASE Pending = <<>>
    BY <2>1, CountOne
  <2>2. CASE Pending = <<count>>
    <3>1. k # count
      BY <1>1, <1>2, <1>3 DEF Logged
    <3> QED BY <2>2, <3>1, CountOne
  <2> QED BY <2>1, <2>2, PendingLine
<1>6. CountIn(hand, {k}) # 0 \/ CountIn(queue, {<<k>>}) # 0
  <2>1. Sum(k) = 1
    BY <1>1, <1>2, <1>3 DEF LineInv
  <2>2. CountIn(cleared, {<<k>>}) = 0
    BY CountOne
  <2> QED BY <1>4, <1>5, <2>1, <2>2, SumType DEF Sum
<1>7. CASE CountIn(hand, {k}) # 0
  <2>1. PICK j \in DOMAIN hand : hand[j] = k
    BY <1>1, <1>7, CountType
  <2>2. j = 1
    BY <1>1 DEF OneInHand
  <2> QED BY <2>1, <2>2
<1>8. CASE CountIn(queue, {<<k>>}) # 0
  <2> DEFINE T == {<<k>>}
  <2>1. CountIn(queue, T) # 0
    BY <1>8
  <2> HIDE DEF T
  <2>2. PICK j \in DOMAIN queue : queue[j] \in T
    BY <1>1, <2>1, CountType
  <2> QED BY <2>2 DEF T
<1> QED BY <1>6, <1>7, <1>8

LEMMA LineInv_Few == LInv /\ LineInv /\ OneInHand /\ cleared = <<>> => OvertakesFew
<1> SUFFICES ASSUME LInv, LineInv, OneInHand, ~mixed, cleared = <<>>, NEW i \in DOMAIN written
             PROVE  Cardinality({k \in 1 .. written[i] : ~Logged(k)}) <= Capacity + 1
  BY DEF OvertakesFew
<1> DEFINE Late  == {k \in 1 .. written[i] : ~Logged(k)}
           first == [j \in DOMAIN queue |-> queue[j][1]]
           Queued == {first[j] : j \in DOMAIN queue}
<1>1. Late \in SUBSET (Queued \cup {hand[1]})
  <2> SUFFICES ASSUME NEW k \in 1 .. written[i], ~Logged(k), k # hand[1]
               PROVE  k \in Queued
    OBVIOUS
  <2>1. PICK j \in DOMAIN queue : queue[j] = <<k>>
    BY LateLine
  <2>2. first[j] = k
    BY <2>1
  <2> QED BY <2>1, <2>2
<1>2. Len(queue) \in Nat /\ Len(queue) <= Capacity /\ DOMAIN queue = 1 .. Len(queue) /\ Capacity \in Nat
  BY QueueAssumption DEF LInv, SlotInv, QInv, TypeOK, Bounded
<1>3. IsFiniteSet(DOMAIN queue) /\ Cardinality(DOMAIN queue) = Len(queue)
  <2>1. 1 \in Int /\ Len(queue) \in Int
    BY <1>2
  <2>2. /\ IsFiniteSet(1 .. Len(queue))
        /\ Cardinality(1 .. Len(queue)) = IF 1 > Len(queue) THEN 0 ELSE Len(queue) - 1 + 1
    BY <2>1, FS_Interval
  <2> QED BY <1>2, <2>2
<1>4. first \in Surjection(DOMAIN queue, Queued)
  <2>1. first \in [DOMAIN queue -> Queued]
    OBVIOUS
  <2> QED BY <2>1 DEF Surjection
<1> HIDE DEF Late, Queued, first
<1>5. IsFiniteSet(Queued) /\ Cardinality(Queued) <= Len(queue) /\ Cardinality(Queued) \in Nat
  BY <1>3, <1>4, FS_Surjection, FS_CardinalityType
<1>6. /\ IsFiniteSet(Queued \cup {hand[1]})
      /\ Cardinality(Queued \cup {hand[1]}) \in Nat
      /\ Cardinality(Queued \cup {hand[1]}) <= Cardinality(Queued) + 1
  <2>1. /\ IsFiniteSet(Queued \cup {hand[1]})
        /\ Cardinality(Queued \cup {hand[1]})
             = IF hand[1] \in Queued THEN Cardinality(Queued) ELSE Cardinality(Queued) + 1
    BY <1>5, FS_AddElement
  <2>2. CASE hand[1] \in Queued
    BY <1>5, <2>1, <2>2
  <2>3. CASE hand[1] \notin Queued
    BY <1>5, <2>1, <2>3
  <2> QED BY <2>2, <2>3
<1>7. IsFiniteSet(Late) /\ Cardinality(Late) \in Nat
        /\ Cardinality(Late) <= Cardinality(Queued \cup {hand[1]})
  BY <1>1, <1>6, FS_Subset, FS_CardinalityType
<1>8. Cardinality(Late) <= Capacity + 1
  BY <1>2, <1>5, <1>6, <1>7
<1> QED BY <1>8 DEF Late

\* After close() nothing is written: the file was closed before.
AfterClose == cleared # <<>> => OvertakesFew

LEMMA ClosedNext ==
  ASSUME LInv, [LNext]_logVars, cleared' # <<>>
  PROVE  written' = written
<1> USE DEF vars, producerVars, lineVars, dayVars, fileVars, outVars
<1>1. \/ cleared' = cleared
      \/ \E w \in Writer : ExitCloses(w)
  BY DEF LNext, GetLevel, Log, Write, NameFile, CloseFile, OpenFile, OpenFails, Enter, BufferRace,
     LineBreakMoves, HandOver, AsyncLine, ClearLine, SyncLine, FlushLog, ExitFlushes,
     ExitFindsEmpty, Terminate, UsesClosedFile, Exit, Die, AsyncWrite, PopLine, WriteLine,
     WriteThreadEnds, WritesClosedFile, ExitNotifies, DayPasses, Wakeup, logVars
<1>2. cleared # <<>> => file # "open"
  BY DEF LInv, CloseInv, LockInv, Exiting
<1>3. ASSUME NEW w \in Writer, ExitCloses(w) PROVE written' = written
  BY <1>3 DEF ExitCloses
<1>4. file # "open" => written' = written
  BY DEF LNext, GetLevel, Log, Write, NameFile, CloseFile, OpenFile, OpenFails, Enter, BufferRace,
     LineBreakMoves, HandOver, AsyncLine, ClearLine, SyncLine, FlushLog, ExitFlushes,
     ExitFindsEmpty, ExitCloses, Terminate, UsesClosedFile, Exit, Die, AsyncWrite, PopLine,
     WriteLine, WriteThreadEnds, WritesClosedFile, ExitNotifies, DayPasses, Wakeup, logVars
<1> QED BY <1>1, <1>2, <1>3, <1>4

LEMMA MixedStays == LInv /\ [LNext]_logVars /\ ~mixed' => ~mixed
BY DEF vars, producerVars, lineVars, dayVars, fileVars, outVars,
   LNext, GetLevel, Log, Write, NameFile, CloseFile, OpenFile, OpenFails, Enter, BufferRace,
   LineBreakMoves, HandOver, AsyncLine, ClearLine, SyncLine, FlushLog, ExitFlushes,
   ExitFindsEmpty, ExitCloses, Terminate, UsesClosedFile, Exit, Die, AsyncWrite, PopLine,
   WriteLine, WriteThreadEnds, WritesClosedFile, ExitNotifies, DayPasses, Wakeup, logVars,
   LInv, LTypeOK

LEMMA AfterCloseNext ==
  ASSUME LInv, LineInv, OneInHand, AfterClose, [LNext]_logVars
  PROVE  AfterClose'
<1> SUFFICES ASSUME cleared' # <<>>, ~mixed' PROVE OvertakesFew'
  BY DEF AfterClose, OvertakesFew
<1>1. OvertakesFew /\ ~mixed
  BY LineInv_Few, MixedStays DEF AfterClose
<1>2. written' = written
  BY ClosedNext
<1>3. \A i \in DOMAIN written :
         Cardinality({k \in 1 .. written[i] : ~Logged(k)}) <= Capacity + 1
  BY <1>1 DEF OvertakesFew
<1>4. \A k : Logged(k)' <=> Logged(k)
  BY <1>2 DEF Logged
<1>5. ASSUME NEW i \in DOMAIN written'
      PROVE  Cardinality({k \in 1 .. written'[i] : ~Logged(k)'}) <= Capacity + 1
  <2>1. {k \in 1 .. written'[i] : ~Logged(k)'} = {k \in 1 .. written[i] : ~Logged(k)}
    BY <1>2, <1>4
  <2> QED BY <1>2, <1>3, <2>1
<1> QED BY <1>5 DEF OvertakesFew

LEMMA LinesInvariance == LSpec => [](LInv /\ LineInv /\ OneInHand /\ AfterClose)
<1>1. LInit => OneInHand /\ AfterClose
  BY DEF LInit, OneInHand, AfterClose
<1>2. LInv /\ LineInv /\ OneInHand /\ AfterClose /\ [LNext]_logVars
        => LineInv' /\ OneInHand' /\ AfterClose'
  BY LineNext, OneInHandNext, AfterCloseNext
<1>3. LSpec => []LInv
  BY LogInvariance
<1> QED BY <1>1, <1>2, <1>3, LineInit, PTL DEF LSpec

\* Until two threads meet in the buffer, no line is written twice, and none is
\* lost between the buffer of write() and the file other than to the close() of
\* an exiting process (Log.cpp:22-25, 60-155), in both modes and whatever happens
\* to the queue.
THEOREM LinesAreOnce == LSpec => []EachLineOnce
<1>1. LInv /\ LineInv => EachLineOnce
  BY LineInv_Once
<1> QED BY <1>1, LinesInvariance, PTL

\* Until then a line that its caller writes itself, because the queue is full,
\* overtakes no more lines than the queue and the write thread hold
\* (Log.cpp:145-155).
THEOREM LinesOvertakeFew == LSpec => []OvertakesFew
<1>1. LInv /\ LineInv /\ OneInHand /\ AfterClose => OvertakesFew
  BY LineInv_Few DEF AfterClose
<1> QED BY <1>1, LinesInvariance, PTL

-----------------------------------------------------------------------------
(* The logger is a LineLog. *)

FirstOf(q) == [i \in DOMAIN q |-> q[i][1]]

\* A line put behind the queue is put behind the lines in it.
LEMMA FirstsAppended ==
  ASSUME NEW q \in Seq(Item), NEW k
  PROVE  FirstOf(q \o <<<<k>>>>) = FirstOf(q) \o <<k>>
<1> DEFINE x == <<k>>
           r == q \o <<x>>
           s == FirstOf(q)
<1>1. /\ DOMAIN r = 1 .. Len(q) + 1 /\ r[Len(q) + 1] = x
      /\ \A i \in 1 .. Len(q) : r[i] = q[i]
  <2> HIDE DEF x
  <2> QED OBVIOUS
<1>2. x[1] = k
  OBVIOUS
<1>3. Len(s) = Len(q) /\ s = [i \in 1 .. Len(q) |-> q[i][1]]
  BY DEF FirstOf
<1>4. /\ s \o <<k>> = [i \in 1 .. Len(q) + 1 |-> (s \o <<k>>)[i]]
      /\ (s \o <<k>>)[Len(q) + 1] = k
      /\ \A i \in 1 .. Len(q) : (s \o <<k>>)[i] = s[i]
  <2>1. s \in Seq({s[i] : i \in 1 .. Len(q)})
    BY <1>3
  <2> HIDE DEF s
  <2> QED BY <1>3, <2>1
<1>5. FirstOf(r) = [i \in 1 .. Len(q) + 1 |-> r[i][1]]
  BY <1>1 DEF FirstOf
<1>6. \A i \in 1 .. Len(q) + 1 : r[i][1] = (s \o <<k>>)[i]
  <2> SUFFICES ASSUME NEW i \in 1 .. Len(q) + 1 PROVE r[i][1] = (s \o <<k>>)[i]
    OBVIOUS
  <2>1. CASE i = Len(q) + 1
    <3> HIDE DEF r, s, x
    <3> QED BY <1>1, <1>2, <1>4, <2>1
  <2>2. CASE i # Len(q) + 1
    <3>1. i \in 1 .. Len(q)
      BY <2>2
    <3> HIDE DEF r, s, x
    <3> QED BY <1>1, <1>3, <1>4, <3>1
  <2> QED BY <2>1, <2>2
<1> HIDE DEF r, s, x
<1>7. FirstOf(r) = s \o <<k>>
  BY <1>4, <1>5, <1>6
<1> QED BY <1>7 DEF r, s, x

\* The line in front of the queue is in front of the lines in it.
LEMMA FirstsHead ==
  ASSUME NEW q \in Seq(Item), q # <<>>
  PROVE  <<>> \o FirstOf(q) = Head(q) \o FirstOf(Tail(q))
<1>1. PICK j \in 0 .. MaxWrites : Head(q) = <<j>>
  <2>1. Head(q) \in Item
    OBVIOUS
  <2> QED BY <2>1, LogAssumption
<1> DEFINE s == FirstOf(q)
           t == FirstOf(Tail(q))
           n == Len(q)
<1>2. n \in Nat \ {0} /\ Len(Tail(q)) = n - 1 /\ Tail(q) \in Seq(Item) /\ q[1] = <<j>>
      /\ \A i \in 1 .. n - 1 : Tail(q)[i] = q[i + 1]
  BY <1>1
<1>3. s = [i \in 1 .. n |-> q[i][1]]
  BY DEF FirstOf
<1>4. t = [i \in 1 .. n - 1 |-> q[i + 1][1]]
  BY <1>2 DEF FirstOf
<1>5. s \in Seq({s[i] : i \in 1 .. n}) /\ Len(s) = n
  BY <1>2, <1>3
<1>6. t \in Seq({t[i] : i \in 1 .. n - 1}) /\ Len(t) = n - 1
  <2>1. n - 1 \in Nat /\ t = [i \in 1 .. n - 1 |-> t[i]]
    BY <1>2, <1>4
  <2> HIDE DEF t, n
  <2> QED BY <2>1
<1>7. s[1] = j
  <2>1. <<j>>[1] = j
    OBVIOUS
  <2> HIDE DEF s, n
  <2> QED BY <1>2, <1>3, <2>1
<1>8. \A i \in 1 .. n - 1 : s[i + 1] = t[i]
  <2> HIDE DEF s, t, n
  <2> QED BY <1>2, <1>3, <1>4
<1> HIDE DEF s, t, n
<1>9. <<>> \o s = s
  BY <1>5
<1>10. <<j>> \o t = s
  <2>1. /\ <<j>> \o t = [i \in 1 .. n |-> (<<j>> \o t)[i]]
        /\ (<<j>> \o t)[1] = j
        /\ \A i \in 2 .. n : (<<j>> \o t)[i] = t[i - 1]
    BY <1>2, <1>6
  <2>2. \A i \in 2 .. n : s[i] = t[i - 1]
    <3> TAKE i \in 2 .. n
    <3>1. i - 1 \in 1 .. n - 1 /\ (i - 1) + 1 = i
      BY <1>2
    <3> QED BY <1>8, <3>1
  <2>3. s = [i \in 1 .. n |-> s[i]]
    BY <1>5
  <2>4. \A i \in 1 .. n : i = 1 \/ i \in 2 .. n
    BY <1>2
  <2> QED BY <1>7, <2>1, <2>2, <2>3, <2>4
<1> QED BY <1>1, <1>9, <1>10 DEF s, t

\* Lines handed over are lines, and never more than the queue and the hand hold.
LEMMA HandedIs ==
  ASSUME LInv, OneInHand
  PROVE  /\ queue \in Seq(Item) /\ FirstOf(queue) \in Seq(0 .. MaxWrites)
         /\ hand \in Seq(0 .. MaxWrites) /\ Len(FirstOf(queue)) = Len(queue)
         /\ Handed = hand \o FirstOf(queue)
         /\ Len(Handed) <= Len(queue) + 1
<1>1. queue \in Seq(Item) /\ hand \in Seq(0 .. MaxWrites) /\ Len(hand) <= 1
  BY DEF LInv, LTypeOK, TypeOK, OneInHand
<1>2. \A i \in DOMAIN queue : queue[i][1] \in 0 .. MaxWrites
  <2> TAKE i \in DOMAIN queue
  <2>1. queue[i] \in Item
    BY <1>1
  <2>2. PICK j \in 0 .. MaxWrites : queue[i] = <<j>>
    BY <2>1, LogAssumption
  <2>3. <<j>>[1] = j
    OBVIOUS
  <2> QED BY <2>2, <2>3
<1>3. DOMAIN queue = 1 .. Len(queue) /\ Len(queue) \in Nat
  BY <1>1
<1>4. FirstOf(queue) \in Seq(0 .. MaxWrites) /\ Len(FirstOf(queue)) = Len(queue)
  BY <1>2, <1>3 DEF FirstOf
<1>5. Handed = hand \o FirstOf(queue)
  BY DEF Handed, FirstOf
<1>6. Len(hand \o FirstOf(queue)) = Len(hand) + Len(FirstOf(queue))
  BY <1>1, <1>4
<1> QED BY <1>1, <1>3, <1>4, <1>5, <1>6

\* What a LineLog sees of a step.
LineStep ==
  Lines!Next \/ UNCHANGED <<count, Pending, Handed, written, isClose, mixed>>

LEMMA NoLineStep ==
  ASSUME LInv, UNCHANGED <<count, hand, queue, written, isClose, mixed>>, Pending' = Pending
  PROVE  LineStep
BY DEF LineStep, Handed

\* A writer elsewhere takes no step of a LineLog.
LEMMA ElsewhereStep ==
  ASSUME LInv, NEW w \in Writer, NEW step, lpc' = [lpc EXCEPT ![w] = step],
         HandingOver(w) <=> step \in {"handover", "push", "sync"},
         UNCHANGED <<written, hand, queue, count, isClose, mixed, buffer>>
  PROVE  LineStep
<1>1. Pending' = Pending
  BY PendingSame
<1> QED BY <1>1, NoLineStep

LEMMA EnterBegins ==
  ASSUME LInv, ~mixed', NEW w \in Writer, Enter(w)
  PROVE  Lines!Begin
<1>1. /\ count' = count + 1 /\ lpc' = [lpc EXCEPT ![w] = "handover"] /\ InBuffer = {}
      /\ buffer' = Append(buffer, count')
      /\ written' = written /\ hand' = hand /\ queue' = queue
      /\ isClose' = isClose /\ mixed' = mixed /\ ~mixed
  <2>1. ~mixed /\ InBuffer = {}
    BY DEF Enter
  <2>2. /\ count' = count + 1 /\ lpc' = [lpc EXCEPT ![w] = "handover"]
        /\ written' = written /\ hand' = hand /\ queue' = queue /\ isClose' = isClose
    BY DEF Enter, Goes, fileVars, outVars, vars
  <2>3. buffer' = Append(buffer, count') /\ mixed' = mixed
    BY <2>1 DEF Enter, LInv, LTypeOK
  <2> QED BY <2>1, <2>2, <2>3
<1>2. Pending = <<>>
  BY <1>1 DEF Pending, InBuffer
<1>3. Pending' = <<count'>>
  <2>1. buffer = <<>>
    BY <1>1 DEF LInv, BufferInv
  <2>2. lpc'[w] = "handover"
    BY <1>1 DEF LInv, LTypeOK
  <2> QED BY <1>1, <2>1, <2>2 DEF Pending
<1> QED BY <1>1, <1>2, <1>3 DEF Lines!Begin, Handed

LEMMA AsyncLineHandsOver ==
  ASSUME LInv, ~mixed', OneInHand, NEW w \in Writer, AsyncLine(w)
  PROVE  Lines!HandOver
<1>1. lpc[w] = "push" /\ ~IsFull /\ ~mixed /\ Text = buffer
  BY DEF AsyncLine, WriterAt, LInv, BufferInv, lineVars, Text
<1>2. /\ queue' = Append(queue, buffer) /\ lpc' = [lpc EXCEPT ![w] = "clear"]
      /\ UNCHANGED <<written, hand, count, isClose, mixed, buffer>>
  BY <1>1 DEF AsyncLine, PushItem, PushWaits, Goes, lineVars, fileVars, outVars
<1>3. /\ Pending = <<count>> /\ Pending' = <<>> /\ buffer = <<count>>
  <2>1. HandingOver(w)
    BY <1>1 DEF HandingOver
  <2> QED BY <1>1, <1>2, <2>1, PendingLine, PendingGone DEF LInv, BufferInv
<1>4. Handed' = Handed \o Pending
  <2>1. queue' = queue \o <<buffer>>
    <3>1. buffer \in Item /\ queue \in Seq(Item)
      BY <1>1, BufferIsItem DEF LInv, LTypeOK, TypeOK
    <3> QED BY <1>2, <3>1, AppendIsConcat
  <2>2. FirstOf(queue') = FirstOf(queue) \o Pending
    BY <1>3, <2>1, HandedIs, FirstsAppended
  <2>3. Handed' = hand' \o FirstOf(queue')
    BY DEF Handed, FirstOf
  <2>4. hand \o (FirstOf(queue) \o Pending) = (hand \o FirstOf(queue)) \o Pending
    <3> DEFINE first == FirstOf(queue)
    <3>1. /\ hand \in Seq(0 .. MaxWrites) /\ first \in Seq(0 .. MaxWrites)
          /\ Pending \in Seq(0 .. MaxWrites)
      BY <1>1, HandedIs, PendingLine
    <3> HIDE DEF first
    <3>2. hand \o (first \o Pending) = (hand \o first) \o Pending
      BY <3>1, ConcatAssociative
    <3> QED BY <3>2 DEF first
  <2> QED BY <1>2, <2>2, <2>3, <2>4, HandedIs
<1>5. Len(Handed) <= Capacity
  <2>1. Len(queue) \in Nat /\ Len(queue) < Capacity /\ Capacity \in Nat
    BY <1>1, HandedIs, QueueAssumption DEF IsFull
  <2>2. Len(Handed) \in Nat
    <3>1. Handed \in Seq(0 .. MaxWrites)
      BY HandedIs, ConcatProperties
    <3> QED BY <3>1
  <2> QED BY <2>1, <2>2, HandedIs
<1>6. Pending # <<>>
  BY <1>3
<1> QED BY <1>2, <1>3, <1>4, <1>5, <1>6 DEF Lines!HandOver

LEMMA SyncLineWrites ==
  ASSUME LInv, ~mixed', NEW w \in Writer, SyncLine(w)
  PROVE  Lines!WriteOwn
<1>1. /\ HandingOver(w) /\ lpc' = [lpc EXCEPT ![w] = "flush"]
      /\ written' = written \o buffer
      /\ UNCHANGED <<hand, queue, count, isClose, mixed>> /\ ~mixed
  BY DEF SyncLine, WriterAt, Goes, FPuts, Text, HandingOver, vars, outVars
<1>2. Pending = buffer /\ Pending' = <<>> /\ Pending # <<>>
  <2>1. Pending = buffer
    BY <1>1 DEF Pending, HandingOver
  <2>2. Pending = <<count>>
    BY <1>1, PendingLine
  <2>3. Pending # <<>>
    BY <2>2
  <2>4. "flush" \notin {"handover", "push", "sync"}
    OBVIOUS
  <2>5. Pending' = <<>>
    BY <1>1, <2>4, PendingGone
  <2> QED BY <2>1, <2>3, <2>5
<1> QED BY <1>1, <1>2 DEF Lines!WriteOwn, Handed

\* The write thread takes a line from the queue to its hand.
LEMMA PopLineKeeps ==
  ASSUME LInv, OneInHand, PopLine
  PROVE  UNCHANGED <<count, Pending, Handed, written, isClose, mixed>>
<1>1. hand = <<>> /\ UNCHANGED <<written, count, Pending, isClose, mixed>>
  BY DEF PopLine, PopWaits, PopItem, producerVars, lineVars, fileVars, Pending
<1>2. CASE PopWaits(WriteThread) /\ UNCHANGED hand
  BY <1>1, <1>2 DEF PopWaits, Handed
<1>3. CASE PopItem(WriteThread) /\ hand' = Head(queue)
  <2>1. queue' = Tail(queue) /\ queue # <<>> /\ queue \in Seq(Item)
    BY <1>3, HandedIs DEF PopItem
  <2>2. <<>> \o FirstOf(queue) = Head(queue) \o FirstOf(Tail(queue))
    BY <2>1, FirstsHead
  <2>3. Handed = hand \o FirstOf(queue) /\ Handed' = hand' \o FirstOf(queue')
    BY DEF Handed, FirstOf
  <2> QED BY <1>1, <1>3, <2>1, <2>2, <2>3
<1> QED BY <1>2, <1>3 DEF PopLine

LEMMA WriteLineWrites ==
  ASSUME LInv, ~mixed', OneInHand, WriteLine
  PROVE  Lines!WriteOldest
<1>1. /\ hand # <<>> /\ written' = written \o hand /\ hand' = <<>>
      /\ UNCHANGED <<queue, count, Pending, isClose, mixed>>
  BY DEF WriteLine, FPuts, vars, lineVars, Pending
<1> DEFINE t == FirstOf(queue)
<1>2. /\ hand \in Seq(0 .. MaxWrites) /\ t \in Seq(0 .. MaxWrites)
      /\ written \in Seq(0 .. MaxWrites)
      /\ Handed = hand \o t
  BY HandedIs DEF LInv, LTypeOK
<1>3. Handed' = <<>> \o t
  BY <1>1 DEF Handed, FirstOf
<1> HIDE DEF t
<1>4. Len(hand) = 1 /\ hand[1] \in 0 .. MaxWrites /\ hand = <<hand[1]>>
  <2> DEFINE n == Len(hand)
  <2>1. n \in Nat /\ n # 0 /\ n <= 1
    BY <1>1, <1>2 DEF OneInHand
  <2> HIDE DEF n
  <2>2. n = 1
    BY ONLY <2>1
  <2> USE DEF n
  <2>3. hand = [i \in 1 .. 1 |-> hand[i]] /\ hand[1] \in 0 .. MaxWrites
    <3> DEFINE S == 0 .. MaxWrites
    <3>1. hand \in Seq(S)
      BY <1>2
    <3> HIDE DEF S
    <3>2. hand \in [1 .. Len(hand) -> S]
      BY ONLY <3>1
    <3>3. hand \in [1 .. 1 -> S]
      BY ONLY <2>2, <3>2
    <3>4. hand = [i \in 1 .. 1 |-> hand[i]] /\ hand[1] \in S
      BY ONLY <3>3
    <3> QED BY <3>4 DEF S
  <2>4. hand = <<hand[1]>>
    BY <2>3
  <2> QED BY <2>2, <2>3, <2>4
<1>5. /\ Handed # <<>> /\ Head(Handed) = hand[1] /\ Tail(Handed) = t
  <2>1. Head(<<hand[1]>> \o t) = hand[1] /\ Tail(<<hand[1]>> \o t) = t /\ <<hand[1]>> \o t # <<>>
    BY <1>2, <1>4
  <2> QED BY <1>2, <1>4, <2>1
<1>6. <<>> \o t = t
  BY <1>2
<1>7. written \o <<hand[1]>> = Append(written, hand[1])
  BY <1>2, <1>4, AppendIsConcat
<1> QED BY <1>1, <1>3, <1>4, <1>5, <1>6, <1>7 DEF Lines!WriteOldest

\* close() drops what is queued; the line in the hand of the write thread stays.
LEMMA ExitClosesCloses ==
  ASSUME LInv, OneInHand, NEW w \in Writer, ExitCloses(w)
  PROVE  Lines!Close
<1>1. /\ lpc[w] = "shut" /\ lpc' = [lpc EXCEPT ![w] = "close"]
      /\ queue' = <<>> /\ isClose' = TRUE
      /\ UNCHANGED <<written, hand, count, mixed, buffer>>
  BY DEF ExitCloses, Close, WriterAt, Goes, lineVars, fileVars
<1>2. ~isClose
  <2>1. isClose => \E u \in Writer : lpc[u] = "close"
    BY DEF LInv, CloseInv
  <2>2. \A u \in Writer : lpc[u] \in {"drain", "shut", "close"} => u = w
    BY <1>1 DEF LInv, CloseInv
  <2> QED BY <1>1, <2>1, <2>2 DEF LInv, LTypeOK, TypeOK
<1>3. Pending' = Pending
  <2>1. ~HandingOver(w)
    BY <1>1 DEF HandingOver
  <2> QED BY <1>1, <2>1, PendingSame
<1> DEFINE t == FirstOf(queue)
           n == Len(hand)
<1>4. /\ hand \in Seq(0 .. MaxWrites) /\ t \in Seq(0 .. MaxWrites) /\ Handed = hand \o t
  BY HandedIs
<1>5. Handed' = hand
  <2>1. FirstOf(queue') = <<>>
    BY <1>1 DEF FirstOf
  <2>2. Handed' = hand' \o FirstOf(queue')
    BY DEF Handed, FirstOf
  <2>3. hand \o <<>> = hand
    BY <1>4
  <2> QED BY <1>1, <2>1, <2>2, <2>3
<1> HIDE DEF t
<1>6. n \in 0 .. 1 /\ n <= Len(hand \o t) /\ SubSeq(hand \o t, 1, n) = hand
  <2>1. n \in Nat /\ n <= 1 /\ Len(t) \in Nat /\ Len(hand \o t) = n + Len(t)
    BY <1>4 DEF OneInHand
  <2>2. SubSeq(hand \o t, 1, n) = hand
    BY <1>4
  <2> QED BY <2>1, <2>2
<1>7. n \in 0 .. 1 /\ n <= Len(Handed) /\ Handed' = SubSeq(Handed, 1, n)
  BY <1>4, <1>5, <1>6
<1> HIDE DEF n
<1> QED BY <1>1, <1>2, <1>3, <1>7 DEF Lines!Close

LEMMA LineLogStep == LInv /\ OneInHand /\ [LNext]_logVars => LineStep
<1> SUFFICES ASSUME LInv, OneInHand, [LNext]_logVars PROVE LineStep
  OBVIOUS
<1> SUFFICES ASSUME ~mixed' PROVE LineStep
  <2>1. mixed' \in BOOLEAN
    <3>1. LInv'
      BY LInvStep
    <3> QED BY <3>1 DEF LInv, LTypeOK
  <2>2. mixed' => LineStep
    BY <2>1 DEF LineStep, Lines!Next, Lines!Mix
  <2> QED BY <2>2
<1> USE DEF vars, producerVars, lineVars, dayVars, fileVars, outVars
<1>1. ASSUME NEW w \in Writer, GetLevel(w) \/ Log(w) \/ Exit(w)
      PROVE  LineStep
  <2>1. CASE GetLevel(w) \/ Write(w) \/ NameFile(w)
    BY <2>1, ElsewhereStep DEF GetLevel, Write, NameFile, WriterAt, Goes, HandingOver
  <2>2. CASE CloseFile(w) \/ OpenFile(w) \/ OpenFails(w)
    BY <2>2, ElsewhereStep DEF CloseFile, OpenFile, OpenFails, WriterAt, Goes, HandingOver
  <2>3. CASE HandOver(w)
    BY <2>3, ElsewhereStep DEF HandOver, WriterAt, Goes, HandingOver
  <2>4. CASE FlushLog(w) \/ Exit(w)
    BY <2>4, ElsewhereStep DEF FlushLog, Exit, WriterAt, Goes, HandingOver
  <2>5. CASE ExitFlushes(w)
    BY <2>5, NoLineStep DEF ExitFlushes, WriterAt, Pending
  <2>6. CASE ExitFindsEmpty(w)
    BY <2>6, ElsewhereStep DEF ExitFindsEmpty, WriterAt, Goes, HandingOver
  <2>7. CASE BufferRace(w) \/ LineBreakMoves(w) \/ Terminate(w) \/ UsesClosedFile(w)
    BY <2>7, NoLineStep DEF BufferRace, LineBreakMoves, Terminate, UsesClosedFile, Die, Pending
  <2>8. CASE Enter(w) \/ AsyncLine(w) \/ SyncLine(w) \/ ExitCloses(w)
    BY <2>8, EnterBegins, AsyncLineHandsOver, SyncLineWrites, ExitClosesCloses
       DEF LineStep, Lines!Next
  <2>9. CASE ClearLine(w)
    <3>1. /\ lpc[w] = "clear" /\ lpc' = [lpc EXCEPT ![w] = "flush"]
          /\ UNCHANGED <<written, hand, queue, count, isClose, mixed>>
      BY <2>9 DEF ClearLine, WriterAt, Goes
    <3>2. \A u \in Writer : ~HandingOver(u)
      BY <3>1 DEF LInv, BufferInv, InBuffer, HandingOver
    <3>3. \A u \in Writer : lpc'[u] \notin {"handover", "push", "sync"}
      BY <3>1, <3>2 DEF LInv, LTypeOK, HandingOver
    <3>4. Pending = <<>> /\ Pending' = <<>>
      BY <3>2, <3>3 DEF Pending, HandingOver
    <3> QED BY <3>1, <3>4, NoLineStep
  <2> QED BY <1>1, <2>1, <2>2, <2>3, <2>4, <2>5, <2>6, <2>7, <2>8, <2>9 DEF Log
<1>2. CASE PopLine \/ WriteLine
  BY <1>2, PopLineKeeps, WriteLineWrites DEF LineStep, Lines!Next
<1>3. CASE WriteThreadEnds
  BY <1>3, NoLineStep DEF WriteThreadEnds, PopFails, Pending
<1>4. CASE WritesClosedFile
  BY <1>4, NoLineStep DEF WritesClosedFile, Die, Pending
<1>5. CASE ExitNotifies
  BY <1>5, NoLineStep DEF ExitNotifies, CloseNotifies, Pending
<1>6. CASE DayPasses \/ Wakeup
  BY <1>6, NoLineStep DEF DayPasses, Wakeup, SpuriousWakeup, Pending
<1>7. CASE UNCHANGED logVars
  BY <1>7, NoLineStep DEF logVars, Pending
<1> QED BY <1>1, <1>2, <1>3, <1>4, <1>5, <1>6, <1>7 DEF LNext, AsyncWrite

\* The logger, with all its threads, its rotations and its exit, implements
\* LineLog: each line goes one of two ways (Log.cpp:139-149, 190-197).
THEOREM ImplementsLineLog == LSpec => LineLogSpec
<1>1. LInit => Lines!Init
  <2> SUFFICES ASSUME LInit PROVE Lines!Init
    OBVIOUS
  <2>1. /\ count = 0 /\ Pending = <<>> /\ hand = <<>> /\ written = <<>> /\ queue = <<>>
        /\ isClose = FALSE /\ mixed = FALSE
    BY DEF LInit, Init, Pending
  <2>2. Handed = <<>>
    BY <2>1 DEF Handed
  <2> QED BY <2>1, <2>2 DEF Lines!Init
<1>2. LInv /\ OneInHand /\ [LNext]_logVars
        => [Lines!Next]_<<count, Pending, Handed, written, isClose, mixed>>
  BY LineLogStep DEF LineStep
<1> QED BY <1>1, <1>2, LinesInvariance, PTL DEF LSpec, LineLogSpec, Lines!Spec
=============================================================================
