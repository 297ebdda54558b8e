# MixedWebServer: a TLA+ model

This directory models the web server under `src/webserver`: a multi-reactor HTTP
server in C++ with an asynchronous logger, a pool of MySQL connections, a thread
pool, and the `sds` string library as its buffer type. Sections 1 and 2 are the
inventory, 3 the modules, 4 the runs, 5 the proofs, 6 where code and intent differ,
7 what is left out, 8 what is planned. Paths below are relative to
`src/webserver/src`.

To check a module: `tlc -workers 2 -config ReactorSafety.cfg MCReactor.tla`; to
check proofs: `tlapm Reactor_proof.tla`.

## 1. The system

| part | state | operations | talks to |
|---|---|---|---|
| main thread (`WebServer`, `Acceptor`) | `_map` (descriptor -> `Connection*`), sub-reactors | accept, `handleConnection`, `deleteConnection` (called back by sub-reactors) | kernel, every sub-reactor |
| sub-reactor (`EventLoop`, `Epoll`, `Channel`) | epoll instance, batch of active channels | `loop`, `getPoll`, `handleEvent`, `updateChannel` | kernel, `Connection` callbacks |
| `Connection`, `Socket` | descriptor, state, two `sds` buffers, callbacks | constructor, `Read`, `Write`, destructor | `deleteConnection`, `HttpRequest`, `HttpResponse` |
| `HttpRequest` | parser state, headers, form fields | `Init`, `Parse`, `UserVerify` | `SqlPool` |
| `HttpResponse` | status, path, mapped file | `Init`, `MakeResponse`, `UnmapFile` | file system |
| `SqlPool`, `SqlRAII` | queue of handles, semaphore, mutex | `Init`, `GetConn`, `FreeConn` | MySQL |
| `ThreadPool` | task queue, `_stop`, workers | `addTask`, worker loop, destructor | runs the sub-reactors |
| `Log` | `FILE*`, shared `sds` buffer, line counter, day | `init`, `write`, `flush`, `_asyncWrite`, destructor | `BlockQueue` |
| `BlockQueue` | deque, `_isClose`, two condition variables | push, pop, close, flush, clear | threads of the logger |
| `sds` | length, capacity, header type | grow, append, trim, range, print into a string, split, join, quote | everything above |

The main thread accepts a client, chooses the sub-reactor `fd % n`, builds the
`Connection` (which registers its channel with that sub-reactor's epoll, level-
and then edge-triggered), sets its callbacks and enters it in `_map`. Each
sub-reactor runs `EventLoop::loop` as a task of the `ThreadPool`, one worker per
loop. A readable channel makes its `Connection` read until `EAGAIN`, then run
the user callback (`test/server.cpp`): parse, log in or register through the
database pool, make the response, write it. End of file or an error ends in
`deleteConnection`, which looks in `_map` and deletes the `Connection`, from the
sub-reactor's thread. Every thread logs.

## 2. What is hard, and what must hold

**Reactor.** `_map`, the `Connection` and `Channel` objects and the descriptor
table are shared by all threads without a lock. A channel is registered before
its callback is set and before it is in `_map`. `~Channel` and `~Socket` both
close the descriptor; `accept` may have reused its number in between. Epoll is
edge-triggered, and a batch of `Channel` pointers outlives the destruction of
some of them. Each answer opens and closes a file (`HttpResponse.cpp:121,137`), whose
number comes from the same table: the second close of a client's number may hit a
file, and the file's own close then another client. Required: an entry of `_map` is a
live connection under its own number; the close of a connection never takes the
socket of a client that is being served; epoll never reports a freed channel; no input
is lost; a client that hangs up is cleaned up.

**Request and response.** The client's bytes arrive in arbitrary segments, the
kernel takes a response in arbitrary portions, files may be absent, unreadable,
empty or binary. Required: a request read whole is understood as it was meant;
only readable files are answered with status 200; what is on the wire is a row
of well-formed responses; at most one file is mapped; the loop gets back to its
other clients, unless one sends without end faster than `ReadNoBlocking` reads.

**Database pool.** `GetConn` looks at the queue without the mutex; `UserVerify`
gives its handle back at once (its `SqlRAII` is a temporary), and once more at
the end. Required: the semaphore counts the queue, so that no one takes the front
of an empty deque; `GetConn` ends the server only when all handles are out, or when its
unlocked look races with a change of the queue; no connection is lost; threads go on
getting through the pool, whatever becomes of their queries; no two threads use one
connection.

**Logger and queue.** Notifications must reach enough sleepers; the buffer and
counters of the logger are used without its lock; rotation closes the file that
others write; opening the next one may fail with the lock held; lines overtake each
other when the queue is full; two threads may find the same free slot of the queue;
`exit()` runs the destructor while other threads log. Required: no lost wake-up; no
line doubled, and none lost but to the `close()` of an exiting process; the file open
whenever the lock is free; every line written; a thread that sleeps in the queue woken.

**Thread pool.** `notify_one` comes after the mutex is released; tasks never end
(event loops), throw, or add tasks, also during the shutdown. Required: no lost
wake-up, every task runs once, the destructor returns and leaves nothing behind.

**sds.** Five header types of different width, switched when a string grows or
shrinks. Required: no length is cut to its field, the string ends in a zero byte
inside its block, each operation does to the text what it says; quoting and reading,
splitting and joining undo each other.

`PROJECT.json` lists these hazards one by one at their lines.

## 3. The modules

    Kernel <- Reactor <- MCReactor, Reactor_proof
    BoundedFifo <= BlockQueue <- MCBlockQueue, BlockQueue_proof
    LineLog     <= Log (EXTENDS BlockQueue) <- MCLog, Log_proof
    SqlPool <- UserVerify <- MCUserVerify, UserVerify_proof
    TaskPool    <= ThreadPool <- MCThreadPool, ThreadPool_proof
    HttpRequest <- HttpConnection <- MCHttpConnection, HttpConnection_proof
    Sds <- SdsFormat <- SdsText <- MCSds, Sds_proof
    SequenceFacts <- HttpConnection_proof, Sds_proof

(`<-` is EXTENDS, `<=` is implemented by.) `PROJECT.json` maps every definition
to its lines. Definitions marked "Mutant" in a comment are deliberate errors used
to see that a property notices them; no specification uses them. A step of a
module is one system call, one critical section, or one access to unlocked shared
memory.

**Undefined behaviour.** Where threads race on plain memory or freed memory is
used, the modelled run ends: `proc` (or `pc`) takes the value `"undefined"`
(`"overrun"` for the search behind the read buffer), alongside the outcomes that a
build can also show, such as the callback not being called. The race itself stays a
visible action of the model (`MapRace`, `TornCallback`, `StaleRevents`, `BufferRace`,
`QueryRace`, `UsesClosedFile`, ...). What follows is modelled in two places, where a
process commonly lives on and the rest of the component matters then: two threads in
the logger's buffer (`mixed`: texts are not followed any more, threads, locks and the
queue are), and two threads on one MYSQL object (`spoilt`). Elsewhere the properties
say what holds until a race strikes.

- `Kernel` (external): descriptor table `file`, what the peer did, segments
  received, epoll registration and ready list. One member of `Conn` is one TCP
  connection. Sockets and the files of answers share the numbers (`SysOpen`, `File`);
  `accept` and `open` may return any free one, since the process opens other
  descriptors too. `read`, `write` and `close` go to whatever the number stands for.
- `Reactor`: `map` is `_map`; `obj` the memory of the channel and connection;
  `st` is `_state`; `hooked` whether the read callback is set; `mainPc` and `pc`
  the program points; `opened` is the descriptor of the page of an answer.
  `AcceptNewConnection`, `EnableReading`, `UseET`, `SetCallbacks`, `Publish` are the main
  thread; `GetPoll`, `HandleEvent`, `ReadData/Again/Closes`, `NoAnswer` (a callback that
  returns without a write), `OpenPage`, `MapPage`, `ClosePage`, `LeavePageOpen`,
  `Respond`, `RespondFails`, `LookupMisses/Erases`, `CloseChannel`, `CloseSocket`, `Tail`
  a sub-reactor. Failures are actions of their own (`AcceptFails`, `EpollCtlFails`,
  `ReadAsserts`, `BadFunctionCall`, `CallbackThrows`, `MapFails`, `RespondKilled`).
- `BlockQueue`: a condition variable is the set of threads asleep on it; a
  notified thread is in `awakeP` or `awakeC` until it takes the mutex. `close()`
  is three steps, since its notifications are sent after the mutex is released;
  wake-ups may be spurious. `BoundedFifo` is what a user of the queue may rely on.
- `Log`: extends `BlockQueue`, with the writers as producers and the write thread as the
  consumer, so a step of the logger contains the queue's step. `isAsync` is free in the
  initial state: without the write thread every line is written by its caller. A `LOG`
  macro begins with `GetLevel`, which needs the lock, so that a rotation that failed
  (`OpenFails`: `exit()` with the lock held) stops every thread that logs. `lpc` is
  where a thread is in `write()`, `flush()` or `~Log`. A line is its number; `written`
  is everything passed to `fputs`, `flushed` how much of it left the FILE's buffer. A
  thread that enters the buffer while another is in it either ends the run
  (`BufferRace`) or sets `mixed` and goes on to `isFull` and `push_back` like any other.
  The destructor's `isEmpty()` and `close()` are two critical sections
  (`ExitFindsEmpty`, `ExitCloses`); `cleared` is what the latter drops. `LineLog` is
  what a thread that logs may rely on: its line goes one of two ways to the file, and
  those handed over keep their order; closing gives up lines, once, and after two lines
  were mixed nothing is promised.
- `SqlPool`: the operations, `GetConn` in three steps (unlocked look, `sem_wait`, pop),
  `FreeConn` in two. `UserVerify` is their one use in the server, with every return path
  of the function, and has the specification. `GetsNull` is the look that ends the
  server; a query may take for ever; one on a handle that two threads use, or have used
  (`spoilt`), may also end the process (`QueryRace`). `served` counts the calls that get
  to the last `FreeConn`, the only ones that add a handle to the queue for good.
- `ThreadPool`: worker loop, `addTask` (mutex, then notification) and destructor.
  In `Reactor` the pool shows only as the thread each loop runs in. `TaskPool` is the
  pool without its mutex and condition variable: when a task starts, and when the
  destructor may return.
- `HttpRequest`: a text is a sequence of tokens, so that CR LF may be torn apart
  by a segment but a word may not. Lines, request line, headers, form decoding
  are operators. `HttpConnection`: the client, `Connection::Read`, the turns of
  `Parse`, `MakeResponse`, `SetWriteBuffer` and the loop of `Write` as actions. A
  `read` takes at most `BufferSize` tokens; one that fills the array has no zero byte
  behind it, and either appends exactly the array or makes the run undefined. A client
  whose requests are all sent may go on sending as fast as the server reads (`Flood`),
  for as long as it likes (`Pause`): each read finds data then (`ReadFlood`) and
  `ReadAgain` has to wait; any of those reads may fill the array (`FloodFills`). A
  response is five parts of one answer; the text of headers is left out. `lost` counts
  the mappings that nobody knows of any more: those of files that begin with four bytes
  `0xff`, which the code takes for a failed `mmap` (`MapMistaken`).
- `Sds`: the operations as functions from string to string. `buf` holds the bytes
  of the heap block `block`; a write behind the block would make `buf` longer, so
  that an overflow is seen. Header fields are taken modulo their width. `sdsIncrLen` is
  there for both signs of its argument.
- `SdsFormat`: the functions that print into a string, turn by turn where they make room
  as they go (`sdscatfmt`), with the conversion of numbers. A format is a row of
  directives, each with the bytes it takes in the format and what it prints; the last
  may be a `%` with nothing behind it. `SdsText`: the functions from texts to texts,
  `sdssplitlen`, `sdssplitargs`, `sdscatrepr` and their like; a string is its bytes
  here, as codes. A loop is a recursive function from the number of turns to what the
  loop's variables hold then, with one operator for a turn (`Turn`, `SplitTurn`,
  `ArgsTurn`).
- `SequenceFacts` models nothing: lemmas on sequences and recursive functions that
  two of the proof modules share.

## 4. The runs

| run | question | instance | answer |
|---|---|---|---|
| `reactor_safety` | Do the unlocked structures stay consistent while the process runs? What can take the socket of a client that is being served? | 3 clients, 2 numbers for clients and files, 2 sub-reactors, 1 segment each, clients symmetric | holds |
| `reactor_live` | Is all input read, and is a client that hangs up cleaned up? Does a batch survive the destruction of one of its members? | 2 clients, 2 numbers, 1 loop, 2 segments | holds |
| `reactor_assert` | Is the assertion of `Connection::Read` true? | as `reactor_safety` | violated |
| `reactor_epoll_ctl` | Does `epoll_ctl` always succeed? | as `reactor_safety` | violated |
| `block_queue` | Lost wake-ups; overfilling; refinement of `BoundedFifo`; are blocked threads released? | 3 producers, 2 consumers, 2 slots, 2 items | holds |
| `user_verify` | Does the semaphore count the queue although handles are freed twice; when does `errif` end the server; can the pool jam? | 3 threads, 2 handles, 2 calls that reach the last `FreeConn`, any number that do not | holds |
| `user_verify_shared` | Does each query have its connection to itself? | the same | violated |
| `log` | With a write thread and without: are lines lost, doubled or delayed without end, is the file open when the lock is free, are sleepers woken; refinement of `LineLog`? | 2 writers, queue of 1, file of 2 lines, 4 lines, 1 change of day | holds |
| `log_disk` | Does every line reach the disk? | as `log` | violated |
| `thread_pool` | Lost wake-ups, a destructor that waits for ever; refinement of `TaskPool`: are tasks run once, in order, and none left behind? | 3 workers, 4 tasks | holds |
| `http` | Is a request understood, which file is answered, what is on the wire, does the loop get back to its other clients? | 3 kinds of request, 2 directories, 2 requests or one and a flood, 2 segments to a request, 9 tokens to a read, 2 writes, 6 parts in the send buffer | holds |
| `sds` | Headers, terminator, meaning of each operation, what the text functions compute | limits 2, 4, 6, 7 for the header types, `SDS_MAX_PREALLOC` 2, strings to 5 bytes, 3 byte values; 9 formats; texts of 2 bytes from 14, lines of 5 from 7, texts to split of 9 from 2 | holds |

Why the bounds suffice:

- *Reactor.* The reuse of a descriptor between its two closes takes a client that
  leaves, one that gets its number, and a further one for a second round: three clients.
  Two numbers and two loops let loops work at once, make `Dispatch` choose, let numbers
  run out, and let a file take the number of a client between its two closes and a
  client that of the file: `SocketKept` without its exception is violated there. In
  `reactor_live` one loop serves two clients in a batch, and two segments let data
  arrive while the loop reads. Without symmetry, as liveness needs.
- *BlockQueue.* A lost wake-up takes two sleepers on one side and two slots or items;
  the third producer is the one that comes in between.
- *UserVerify.* Two handles and three threads: one has to wait, and two can hold the
  same handle; two calls that reach the last `FreeConn` put as many duplicates in the
  queue as there are handles, and bring the first handle around again while it is in use.
  The calls whose query fails are not bounded, so that threads compete for the semaphore
  without end.
- *Log.* Capacity 1 makes the queue full after one line; `MAX_LINES` 2 and four calls
  give two rotations by lines, the new day one more. Two writers and one slot are what
  it takes for one to be overtaken between `isFull` and `push_back`.
- *ThreadPool.* Two workers can sleep while a third adds a task; a fourth task is queued
  when three run.
- *http.* With two segments a request is cut in two at every place; with two requests
  the second may follow the first or be pipelined with its half; the send buffer of 6
  takes one response of 5 parts and a part of the next. Nine tokens to a read are fewer
  than any of the requests has, so that a whole request takes several reads, one or two
  of them full. A flood has no bound in time; what it adds to the read buffer is one
  token, however long. The directories hold each kind of file as page and as error page.
- *sds.* The limits are as close as they can be for every type to be reached with 5
  bytes, so that a capacity crosses two limits at once; real strings cross the same
  limits at 32, 256, 65536 and 2^32. The formats print up to 15 bytes behind any of
  these strings, through every header type and past each preallocation; `StaticBuf` 6
  lets a text fit in the static buffer, fill it and exceed it. `LLMax` 127 stands for
  `LLONG_MAX`: every number from `LLONG_MIN` to `ULLONG_MAX` is printed. The bytes of
  `MCBytes` are one of each class that quoting tells apart; 9 bytes are 10 tokens at
  most, which double an array of `FirstSlots` 2 three times (the code starts at 5).

`CHECK_DEADLOCK FALSE` stands where the system may stop: the process has ended,
clients have left or the bounds are used up. `block_queue` and `sds` check it.

**Fairness.** The operating system schedules every thread, so each thread's
next step is weakly fair where the thread is inside a call: `Main` and each
`Loop(r)`; a producer that was woken, the consumer (it pops in an endless
loop), the rest of `close()`; a thread inside `UserVerify`, except in a query, which
need not return (`UsesPool`); a writer inside `write()`; the worker's own steps and
pending notifications; `Serve` for a connection. Nothing is assumed of how often a
thread logs or verifies, of tasks (they may run for ever) or of spurious wake-ups. Of
clients one thing is assumed, and only by `Handled`: that none sends for ever as fast as
the loop reads. `ReadNoBlocking` reads until `EAGAIN` (`Connection.cpp:73-108`), so
without that premise TLC finds `Handled` violated, by a flood.

Weak fairness gives a thread a mutex or a semaphore only when it stays available to it,
and nothing stronger is assumed. `PoolNeverJams` therefore speaks of the pool and not of
a thread: some waiting thread gets through, again and again; which one is not said, and
one may wait in `sem_wait` for ever while others pass it. In the same way
`SleepersAreWoken` speaks of a thread that sleeps alone. The locks of the logger are
contended by `MaxWrites` lines at most, which bounds the times a thread can be passed;
`LinesAreWritten` says that the logger catches up once the logging pauses.

Several properties name what may stop progress, since the code allows it: the process
ends, or an exception has ended a loop (`pc = "dead"`); `Handled` excuses responses
that took a second `write`, after which `data_left` is counted wrongly
(`Connection.cpp:170`) and the loop may go on while the client reads;
`LinesAreWritten` and `SleepersAreWoken` excuse a rotation whose file could not be
opened, after which the lock is taken for good (`Log.cpp:121`); `Joins` has the premise
that tasks end.

What the passing runs show about the code, in short: with all its unlocked
sharing, the reactor keeps `_map` sound and never touches a freed channel through
epoll, until one of the races listed above strikes; `_map` can be stale for the *next*
owner of a number only in ways that keep its entries sound. The two closes of a
connection never take the socket of a client that is being served. They may take the
file of another sub-reactor's answer, and the close of that file then the client
accepted under its number: this is the one way a client being served loses its socket,
and its `read` or `write` then meets a closed number, a file or another client. The
queue, the pool's semaphore and the thread pool are right under every interleaving;
the pool may refuse a call, and so end the server, when it is looked at while it is
changing. As long as one thread at a time is in its buffer, the logger loses no line on
its way to `fputs`, except those pushed between `isEmpty()` and `close()` of an exiting
process. Threads that meet in the buffer lose their texts; one that is overtaken between
`isFull` and `push_back` may sleep in the queue, and is woken.

## 5. The proofs

TLAPS proves the following for every value of the constants that satisfies the
named assumptions (`KernelAssumption`, `ReactorAssumption`, `QueueAssumption`,
`LogAssumption`, `PoolAssumption`, `VerifyAssumption`, `HttpAssumption`,
`SdsAssumption`, `FormatAssumption`, `TextAssumption`): finite sets of threads where
they are counted, positive capacities, "no such thing" values that are none of the
things, requests with forms of any number of fields (`RequestType`),
strictly rising limits of the header types, bytes from 0 to 255, a buffer for numbers
that has room for the digits of `ULLONG_MAX` (`SDS_LLSTR_SIZE` is 21, `sds.c:450`).

**Reactor_proof** (`Invariance` and its corollaries `TypeCorrect`, `MapIsSound`,
`OpenConnectionIsMapped`, `EdgesAreKept`, `SocketsAreKept`, `ChannelsAreLive`). None of
the safety properties is inductive: whether a close hits a foreign socket depends on
which threads can be using that number. `IInv` adds that the *clients* a number is given
to belong to one sub-reactor (`Dispatch` is a function of the number): so the thread
that closes a client's number twice is the only one that could be serving its next
client, and while it closes it is not. Files belong to any sub-reactor, hence the
exception in `SocketKept`; that it is another's page, never one's own, is `PageInv`. No
part of `IInv` says that a client being served has its socket. `FileInv` ties the
descriptor table and registrations to the objects, `BatchInv` and `CurInv` say what a
loop works on is registered with it, `VictimInv` that a connection being destroyed is
out of `_map` and no channel of the batch has its number, `MainInv` that the connection
under construction is reachable from nowhere else. One lemma per action; `CloseHits`
carries the double close.

**BlockQueue_proof.** `QInv` is inductive for all operations, `clear()` included
(`ApiInvariance`); `SlotInv` adds the producers' side, which `clear()` breaks (it frees
slots and wakes nobody, but the server never calls it). The core is counting: each
queued item has an awake consumer as long as one sleeps. `ImplementsFifo` shows each
step to be a step of `BoundedFifo` or a stutter.

**UserVerify_proof.** `Accounting`: the length of the queue is the
semaphore plus the threads between `sem_wait` and pop plus those between push and
`sem_post`. With it a pop finds a handle (`VerifyPopsAreSafe`). `VInv` keeps
`Accounting`, that `FreeConn` is given a handle, and that no connection is lost, also
when queries race. `VerifyEndsOnlyWhenBusy`: a look that sees an empty queue either
races with a change of it, or the queue is empty, no one is in the pool, and each of the
`MaxConn` handles is with a thread between pop and push (`Kept`); one thread has one.
Exclusiveness is false (section 6).

**Log_proof.** `LogUsesQueue`: every step of the logger is a step of `BlockQueue` or
leaves the queue alone, so the queue's step lemma gives `SlotInv`, with any number of
threads asleep in it. `LInv` adds who holds the lock (`LockInv`), who closes the queue
and that it is done once (`CloseInv`), and what is true until two threads meet in the
buffer: the one in it alone pushes, and finds the room `isFull` saw (`BufferInv`). For
`LinesAreOnce`, `LineInv` counts a line in five places (file, hand of the write thread,
buffer, queue, what `close()` dropped): once in all when it was begun, never before.
`LinesOvertakeFew` follows: a line begun before one that is in the file, and not there
itself, is not the one in the buffer, so it is in the hand or in the bounded queue.
`ImplementsLineLog` maps the hand and the queue, one behind the other, to the lines
handed over (`Handed`): popping leaves it as it is (`FirstsHead`), a push adds the line
of the buffer, which is the one begun last, and the free slot bounds it; `close()`
leaves the hand alone, which is `LineLog`'s `Close`; the step that mixes lines, and each
after it, is `Mix`.

**ThreadPool_proof.** `PoolInv`: while a worker sleeps, every queued task has a
notification under way or a worker about to look (`WakeupsSuffice`); each task is
queued, with one worker or ended; after `notify_all` of the shutdown no one
sleeps. `DestructorRunsAll` follows, and that each step is a step of `TaskPool` or a stutter
(`ImplementsTaskPool`): a task that is added is new because each is in one place; a
worker that looks for a task has none; and when all have been joined, no task runs, so
none can be in `addTask`.

**SequenceFacts.** What a loop or a recursive function computes is proved here without
an induction theorem that takes an operator, which the provers cannot instantiate.
`Induction` is about a *set* of numbers: one that has 0 and with each number below a
bound its successor has them all; it follows from `Least`. `Recursion` says that a
function given by a base and a step exists as the recursive definition means it, and
follows from it. A proof then collects the turns after which a loop's invariant holds in
a set and cites `Induction`. The rest is about `FlattenSeq`: where its parts lie
(`Flattened`), what begins it, what ends it, when pieces cut from a text join to it
(`PiecesJoin`).

**HttpConnection_proof.** `HInv` is inductive as it stands: the write buffer is
empty whenever a response is made (`BufferInv`), which is why an answer holds
nothing of the one before; a mapping is undone before the next (`PageInv`); the
page of an answer is readable by others or the page of its error
(`ServesReadable`, from `AnswerOK`, which goes through the order of `stat`,
permission check and `_ErrorPage`). `LineEndRange` bounds the parser's position: it
passes the end of its buffer by the two bytes of a line break at most.
`WireIsARow` (from `HttpInv`) says that what is on the wire is whole responses and
a beginning of the current one, in which the order of its parts is kept however often
the socket takes only some of them. `WireInv` ties the end of the wire to
`data_left` (`Connection.cpp:151-170`): after one write it ends with the parts that
were taken; after two `data_left` is never zero, so the loop ends by an error,
`EAGAIN` among them, or by a third write. `garbled` records a third write and a
response broken off in the middle.

`WholeIsUnderstood` states `WholeRequest` for every request of `RequestType`: any path,
any method and version, either header line or none, a form of any number of fields with
names and values of any length. `WholeRequest` says what is true at the end of a parse,
`WholeInv` what is true after each of its turns: the parser stands at the start of a
line the client wrote, in the state for that line, with the lines before understood; and
it is never behind the buffer. Where the lines are is read off `Encode`; a line ends at
the first line break behind its start, since no word is one. A form is `FlattenSeq` of
its fields: `FormPlaces` gives where each lies, from `Flattened` of `SequenceFacts`; a
separator is where a field ends and nowhere else, so the names and values that `Fields`
cuts out are those the client joined (`FormRead`).

**Sds_proof.** `Fits` (the header's numbers below its width, length <= capacity < block,
no byte behind the block) and `Ends` (written bytes, then a zero byte), one lemma per
operation, for any limits. `AppendsMoveSeldom` states what `Log.cpp:137` and
`Connection.cpp:188` live on: an append moves the string only when it must. In the order
of the module:

- *`OperationsMean`.* Every operation is a write (`WrittenMeans`), a cut (`CutMeans`) or
  a new string, once its indexes are what they should be; `sdsupdatelen` needs where the
  first zero byte is (`FirstZero`).
- *`FormatsAreWhole`.* `Holds(x, v)` is the invariant of `sdscatfmt`'s loop: the first
  bytes of the string are `v` and its numbers fit. It says nothing of a terminator, for
  there is none until the loop is over. Each turn keeps it for the texts printed so far.
- *`TextsMean`.* `DigitsTo` and `Number` go through a number in opposite directions;
  `Says` relates a text to the number that its digits from one place on denote. A number
  below 10^n has n digits at most, hence the buffer suffices. `Orders` follows from the
  first byte that differs (`Compares`), `Maps` byte by byte.
- *`TextsSplit`.* `Splits` is the loop's invariant: the tokens found lie one behind the
  other, with a separator behind each, none holds one, and there is room for one more.
  The loop is over within as many turns as the text has bytes. `PiecesJoin` turns places
  into a joined text.
- *`ReprsReadBack`.* `Lined` says where each quoted text lies in the line, `Written` and
  `Block` where each byte's escape does. `Reading` says of the reader where in this
  layout it stands and that it has the texts and bytes before. Each turn goes on
  (`Further`), so `2 * Len(line) + 2` turns reach the end. A line that is accepted, of
  whatever form, gives texts of bytes (`TokensAreTexts`); so it too reads back from its
  quoted form.

**Only model-checked:** the liveness properties, since fairness and ENABLED are beyond
this prover: `InputIsRead` and `HangupReclaims` of the reactor, `PushesGoOn` and
`CloseReleases` of the queue, `PoolNeverJams` of the database pool, `LinesAreWritten`
and `SleepersAreWoken` of the logger, `TasksStart` and `Joins` of the thread pool,
`Handled` of a connection. Every invariant that a passing run checks is a theorem.

## 6. Where the code and its intent differ

Four runs end in a violation, each of a statement of the repository:

- `reactor_assert`: `assert(_state != State::Closed)` at the head of
  `Connection::Read`. A write that fails sets `Closed` and returns without
  closing anything (`Connection.cpp:163-168`); the reset that made it fail is
  an event of the same socket, and the assertion aborts the server.
- `reactor_epoll_ctl`: the open `Bad file descriptor` of `README.md:57`. The
  second close of a number (`Socket.cpp:23`) hits the client just accepted under
  it; its `epoll_ctl` fails and `errif` ends the server.
- `user_verify_shared`: the pool's RAII (`README.md:45`). The `SqlRAII` in
  `HttpRequest.cpp:237` is an unnamed temporary; the handle is back in the pool
  before the query, and a second thread can be given it.
- `log_disk`: `README.md:35`, the first client's connection is not logged. `fflush`
  runs before the write thread's `fputs`; that line stays in the FILE's buffer
  until another is logged.

The passing properties are stated so as to claim no more than the code gives. A
descriptor can leak when the end of file is handled before `Publish` (`LookupMisses`):
`HangupReclaims` is about published connections. A client that is being served may lose
its socket to the close of another's page: `SocketKept` names that one case. A client
that sends without end keeps its loop in `ReadNoBlocking`: `Handled` has the premise
that none does. A line can be lost to `close()` at exit, and `GetConn` can refuse a call
with handles in the pool: `EachLineOnce` and `EndsOnlyWhenBusy` say when. A request cut
in two is parsed as two (`Connection.cpp:58`), and the search behind the buffer is
reachable: `WholeRequest` is about requests read at once. Escapes in forms are replaced
by `%` and two bytes, not decoded. A registration is posted to a path spelt
`/reigster.html` (the key in `HttpRequest.cpp`), unlike the page.

## 7. What is not modelled

- What happens after undefined behaviour; see section 3 for the two exceptions. Of a
  MYSQL object that two threads have used it is assumed that it does not write into the
  pool, of a mixed log buffer that it does not write into the rest of the logger.
- Descriptors the process opens besides clients and pages: that of a new log file is not
  in the number space, so a second close that hits it is not seen. That a client given
  the number of another is blocking until `SetNonBlocking` (`Acceptor.cpp:43`).
- Allocation failure, in sds and elsewhere.
- `setLevel` and a second `init` of the logger, which the server never calls; the text
  of a line.
- `SqlPool::ClosePool` (never called) and what MySQL does: queries answer freely, or not
  at all.
- Blocking sockets: the server uses `ReadNoBlocking` and `WriteNoBlocking` only.
  `EPOLLOUT`: never requested.
- What lies behind the array that a `read` has filled (a choice between nothing and
  undefined behaviour, see section 3); zero bytes in requests; a text file that fills
  its last page.
- `InetAddress` (a wrapper without behaviour), the accessors, `Content-Length`
  of a request, which the parser does not look at.

## 8. Plan

The order was by importance: reactor, queue, database pool, logger, thread pool,
request and response, strings; then a theorem for each invariant. Done as described
above. Left:

1. The write and log buffers as values of `Sds`, so that `"undefined"` in
   `SetWriteBuffer` and `LineBreakMoves` depends on the capacity instead of being
   a free choice.
2. An abstract specification of the pool of database connections under `UserVerify`, in
   which a connection may be out more than once.
