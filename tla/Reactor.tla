------------------------------ MODULE Reactor ------------------------------
(***************************************************************************)
(* The multi-reactor server: the main thread accepts clients, builds a     *)
(* Connection for each and registers it with one sub-reactor; every        *)
(* sub-reactor runs EventLoop::loop in a thread of its own, reads and      *)
(* answers the clients registered with it and destroys the Connections     *)
(* whose client went away.  An answer opens and closes a file.             *)
(* WebServer::_map, the Connection and Channel objects and the descriptor  *)
(* table are shared by all these threads and no lock protects them.        *)
(*                                                                         *)
(* One step is one system call or one access to an object that another     *)
(* thread may be using at that moment.                                     *)
(***************************************************************************)
EXTENDS Kernel

CONSTANT NReactor    \* std::thread::hardware_concurrency()

ASSUME ReactorAssumption == NReactor \in Nat \ {0}

SubReactor == 0 .. NReactor - 1

VARIABLES map,       \* WebServer::_map, from descriptor to Connection
          obj,       \* memory of the Channel / Connection objects
          fdOf,      \* Socket::_sockFd and Channel::_fd of a connection
          home,      \* Connection::_loop
          hooked,    \* the channel's read callback is installed
          st,        \* Connection::_state
          mainPc,    \* where the main thread is, and the client it accepted
          mainConn,
          pc,        \* where each sub-reactor thread is
          batch,     \* `actives': reported channels not handled yet
          cur,       \* the channel whose event is being handled
          victim,    \* the Connection being destroyed
          opened,    \* `fd' of HttpResponse::_AddContent
          proc       \* "up", or what ended the process

objVars   == <<obj, fdOf, home, hooked, st>>
mainVars  == <<mainPc, mainConn>>
loopVars  == <<pc, batch, cur, victim, opened>>
vars == <<kernelVars, map, objVars, mainVars, loopVars, proc>>

TypeOK ==
  /\ KernelTypeOK
  /\ map \in [Fd -> Conn \cup {None}]
  /\ obj \in [Conn -> {"none", "live", "freed"}]
  /\ fdOf \in [Conn -> Fd]
  /\ home \in [Conn -> SubReactor]
  /\ hooked \in [Conn -> BOOLEAN]
  /\ st \in [Conn -> {"Invalid", "Connected", "Closed"}]
  /\ mainPc \in {"poll", "enableReading", "useET", "setCallbacks", "publish"}
  /\ mainConn \in Conn \cup {None}
  /\ pc \in [SubReactor -> {"loop", "read", "respond", "page", "mapped", "answer",
                            "lookup", "closeChannel", "closeSocket", "tail", "dead"}]
  /\ batch \in [SubReactor -> SUBSET Conn]
  /\ cur \in [SubReactor -> Conn \cup {None}]
  /\ victim \in [SubReactor -> Conn \cup {None}]
  /\ opened \in [SubReactor -> Fd \cup {None}]
  /\ proc \in {"up", "accept_failed", "epoll_failed", "assert_failed",
               "sigpipe", "segfault", "undefined"}

Init ==
  /\ KernelInit
  /\ map = [fd \in Fd |-> None]
  /\ obj = [c \in Conn |-> "none"]
  /\ fdOf = [c \in Conn |-> 0]
  /\ home = [c \in Conn |-> 0]
  /\ hooked = [c \in Conn |-> FALSE]
  /\ st = [c \in Conn |-> "Invalid"]
  /\ mainPc = "poll"
  /\ mainConn = None
  /\ pc = [r \in SubReactor |-> "loop"]
  /\ batch = [r \in SubReactor |-> {}]
  /\ cur = [r \in SubReactor |-> None]
  /\ victim = [r \in SubReactor |-> None]
  /\ opened = [r \in SubReactor |-> None]
  /\ proc = "up"

\* The process ends: errif() exits, assert() aborts, a signal kills it, or
\* its behaviour is undefined from here on.
Die(reason) ==
  /\ proc' = reason
  /\ UNCHANGED <<kernelVars, map, objVars, mainVars, loopVars>>

-----------------------------------------------------------------------------
(* The main thread: Acceptor::acceptNewConnection and, called from it,     *)
(* WebServer::handleConnection and the constructor of Connection.          *)

Waiting(c) == peer[c] \notin {"absent", "gone"} /\ obj[c] = "none"

MainAt(step) == proc = "up" /\ mainPc = step

AcceptNewConnection(c) ==
  /\ MainAt("poll") /\ Waiting(c)
  /\ \E fd \in Fd : SysAccept(c, fd) /\ fdOf' = [fdOf EXCEPT ![c] = fd]
  /\ obj' = [obj EXCEPT ![c] = "live"]
  /\ mainPc' = "enableReading"
  /\ mainConn' = c
  /\ UNCHANGED <<map, home, hooked, st, loopVars, proc>>

AcceptFails ==
  /\ MainAt("poll")
  /\ \E c \in Conn : Waiting(c)
  /\ \A fd \in Fd : file[fd] # None
  /\ Die("accept_failed")

\* Mutant: the "random" sub-reactor the comment of handleConnection names.
DispatchRandomly(fd) == SubReactor
\* The sub-reactors handleConnection may hand the descriptor to.
Dispatch(fd) == {fd % NReactor}

EnableReading ==
  /\ MainAt("enableReading")
  /\ \E r \in Dispatch(fdOf[mainConn]) : home' = [home EXCEPT ![mainConn] = r]
  /\ SysEpollCtl(mainConn, fdOf[mainConn], "LT")
  /\ mainPc' = "useET"
  /\ UNCHANGED <<map, obj, fdOf, hooked, st, mainConn, loopVars, proc>>

UseET ==
  /\ MainAt("useET")
  /\ SysEpollCtl(mainConn, fdOf[mainConn], "ET")
  /\ mainPc' = "setCallbacks"
  /\ UNCHANGED <<map, objVars, mainConn, loopVars, proc>>

EpollCtlFails ==
  /\ MainAt("enableReading") \/ MainAt("useET")
  /\ file[fdOf[mainConn]] # mainConn
  /\ Die("epoll_failed")

\* The end of the constructor (buffers, _state) and the two Set...Callback.
SetCallbacks ==
  /\ MainAt("setCallbacks")
  /\ st' = [st EXCEPT ![mainConn] = "Connected"]
  /\ hooked' = [hooked EXCEPT ![mainConn] = TRUE]
  /\ mainPc' = "publish"
  /\ UNCHANGED <<kernelVars, map, obj, fdOf, home, mainConn, loopVars, proc>>

\* Mutant: insert() keeps the entry that is there, operator[] replaces it.
InsertIfAbsent(fd, c) == IF map[fd] = None THEN [map EXCEPT ![fd] = c] ELSE map

Insert(fd, c) == [map EXCEPT ![fd] = c]

Publish ==
  /\ MainAt("publish")
  /\ map' = Insert(fdOf[mainConn], mainConn)
  /\ mainPc' = "poll"
  /\ mainConn' = None
  /\ UNCHANGED <<kernelVars, objVars, loopVars, proc>>

Main ==
  \/ \E c \in Conn : AcceptNewConnection(c)
  \/ AcceptFails
  \/ EnableReading \/ UseET \/ EpollCtlFails
  \/ SetCallbacks
  \/ Publish

-----------------------------------------------------------------------------
(* A sub-reactor: EventLoop::loop, Epoll::getPoll, Channel::handleEvent    *)
(* and the read callback that Connection::SetOnConnectionCallback sets.    *)

LoopAt(r, step) == proc = "up" /\ pc[r] = step

GoTo(r, step) == pc' = [pc EXCEPT ![r] = step]

Watched(r) == {c \in Conn : home[c] = r /\ trigger[c] # "off"}

GetPoll(r) ==
  /\ LoopAt(r, "loop") /\ batch[r] = {}
  /\ \E c \in ready \cap Watched(r) : Readable(c)
  /\ batch' = [batch EXCEPT ![r] = {c \in ready \cap Watched(r) : Readable(c)}]
  /\ SysEpollWait(Watched(r))
  /\ UNCHANGED <<map, objVars, mainVars, pc, cur, victim, opened, proc>>

\* handleEvent calls _readCallback, whose first act is Connection::Read.
HandleEvent(r) ==
  /\ LoopAt(r, "loop")
  /\ \E c \in batch[r] :
       /\ hooked[c] /\ st[c] # "Closed"
       /\ cur' = [cur EXCEPT ![r] = c]
       /\ batch' = [batch EXCEPT ![r] = @ \ {c}]
  /\ GoTo(r, "read")
  /\ UNCHANGED <<kernelVars, map, objVars, mainVars, victim, opened, proc>>

\* The assertion at the head of Connection::Read.
ReadAsserts(r) ==
  /\ LoopAt(r, "loop")
  /\ \E c \in batch[r] : hooked[c] /\ st[c] = "Closed"
  /\ Die("assert_failed")

\* The exception leaves loop(); the packaged_task that runs it swallows it
\* and the thread goes back to waiting for tasks of the ThreadPool.
LoopEnds(r) ==
  /\ GoTo(r, "dead")
  /\ batch' = [batch EXCEPT ![r] = {}]
  /\ cur' = [cur EXCEPT ![r] = None]
  /\ UNCHANGED <<kernelVars, map, objVars, mainVars, victim, opened, proc>>

\* std::function is empty: the main thread has not installed the callback yet.
BadFunctionCall(r) ==
  /\ LoopAt(r, "loop")
  /\ \E c \in batch[r] : ~hooked[c]
  /\ LoopEnds(r)

\* ... or while the main thread is assigning it (a data race).
TornCallback(r) ==
  /\ LoopAt(r, "loop") /\ MainAt("setCallbacks")
  /\ mainConn \in batch[r]
  /\ Die("undefined")

\* Mutant: one read() per event.
AfterReadOnce == "respond"

\* ReadNoBlocking goes on reading after a read() that returned data.
AfterRead == "read"

ReadData(r) ==
  /\ LoopAt(r, "read")
  /\ SysReadData(fdOf[cur[r]])
  /\ GoTo(r, AfterRead)
  /\ UNCHANGED <<map, objVars, mainVars, batch, cur, victim, opened, proc>>

ReadAgain(r) ==
  /\ LoopAt(r, "read")
  /\ WouldBlock(fdOf[cur[r]])
  /\ GoTo(r, "respond")
  /\ UNCHANGED <<kernelVars, map, objVars, mainVars, batch, cur, victim, opened, proc>>

ReadCloses(r) ==
  /\ LoopAt(r, "read")
  /\ ReadEnds(fdOf[cur[r]])
  /\ st' = [st EXCEPT ![cur[r]] = "Closed"]
  /\ GoTo(r, "lookup")
  /\ UNCHANGED <<kernelVars, map, obj, fdOf, home, hooked, mainVars,
                 batch, cur, victim, opened, proc>>

EndEvent(r) ==
  /\ GoTo(r, "loop")
  /\ cur' = [cur EXCEPT ![r] = None]

\* The user's callback returns without a write: nothing was read, or the file
\* of the response cannot be opened and the response is empty.
NoAnswer(r) ==
  /\ LoopAt(r, "respond")
  /\ EndEvent(r)
  /\ UNCHANGED <<kernelVars, map, objVars, mainVars, batch, victim, opened, proc>>

\* It parses the request; _AddContent opens the file, maps and closes it.
OpenPage(r) ==
  /\ LoopAt(r, "respond")
  /\ \E fd \in Fd : SysOpen(fd) /\ opened' = [opened EXCEPT ![r] = fd]
  /\ GoTo(r, "page")
  /\ UNCHANGED <<map, objVars, mainVars, batch, cur, victim, proc>>

MapPage(r) ==
  /\ LoopAt(r, "page")
  /\ file[opened[r]] = File
  /\ GoTo(r, "mapped")
  /\ UNCHANGED <<kernelVars, map, objVars, mainVars, batch, cur, victim, opened, proc>>

\* The file is empty, or its number is closed or a socket's by now: mmap fails,
\* and the first bytes behind MAP_FAILED are looked at.
MapFails(r) ==
  /\ LoopAt(r, "page")
  /\ Die("segfault")

ClosePage(r) ==
  /\ LoopAt(r, "mapped")
  /\ SysClose(opened[r])
  /\ opened' = [opened EXCEPT ![r] = None]
  /\ GoTo(r, "answer")
  /\ UNCHANGED <<map, objVars, mainVars, batch, cur, victim, proc>>

\* A file that begins with four bytes 0xff is taken for a failed mmap: it stays
\* open and the response is empty.
LeavePageOpen(r) ==
  /\ LoopAt(r, "page")
  /\ file[opened[r]] = File
  /\ opened' = [opened EXCEPT ![r] = None]
  /\ EndEvent(r)
  /\ UNCHANGED <<kernelVars, map, objVars, mainVars, batch, victim, proc>>

\* Connection::Write.  An EAGAIN only drops the rest of the response.
Respond(r) ==
  /\ LoopAt(r, "answer")
  /\ ~WriteBroken(fdOf[cur[r]])
  /\ EndEvent(r)
  /\ UNCHANGED <<kernelVars, map, objVars, mainVars, batch, victim, opened, proc>>

\* A failed write() marks the Connection; nothing closes it here.
RespondFails(r) ==
  /\ LoopAt(r, "answer")
  /\ WriteBroken(fdOf[cur[r]])
  /\ st' = [st EXCEPT ![cur[r]] = "Closed"]
  /\ EndEvent(r)
  /\ UNCHANGED <<kernelVars, map, obj, fdOf, home, hooked, mainVars,
                 batch, victim, opened, proc>>

\* HttpRequest::Parse throws on a request with a line that no CRLF ends.
CallbackThrows(r) ==
  /\ LoopAt(r, "respond")
  /\ LoopEnds(r)

\* SIGPIPE has its default action: nothing in the server changes it.
RespondKilled(r) ==
  /\ LoopAt(r, "answer")
  /\ IsSocket(fdOf[cur[r]]) /\ WriteBroken(fdOf[cur[r]])
  /\ Die("sigpipe")

-----------------------------------------------------------------------------
(* WebServer::deleteConnection and the destructors it runs. *)

\* No entry: deleteConnection returns and nothing has been closed.
LookupMisses(r) ==
  /\ LoopAt(r, "lookup")
  /\ map[fdOf[cur[r]]] = None
  /\ GoTo(r, "tail")
  /\ UNCHANGED <<kernelVars, map, objVars, mainVars, batch, cur, victim, opened, proc>>

\* Mutant: the entry stays in the map.
EraseNothing(fd) == map

Erase(fd) == [map EXCEPT ![fd] = None]

\* The entry under this descriptor is erased and its Connection deleted.
LookupErases(r) ==
  LET fd == fdOf[cur[r]]
  IN  /\ LoopAt(r, "lookup")
      /\ map[fd] # None
      /\ victim' = [victim EXCEPT ![r] = map[fd]]
      /\ map' = Erase(fd)
      /\ GoTo(r, "closeChannel")
      /\ UNCHANGED <<kernelVars, objVars, mainVars, batch, cur, opened, proc>>

InMap == {r \in SubReactor : proc = "up" /\ pc[r] = "lookup"}

\* std::map used by two threads at once, one of them changing it.
MapRace ==
  /\ \/ InMap # {} /\ mainPc = "publish"
     \/ \E r, q \in InMap : r # q /\ map[fdOf[cur[r]]] # None
  /\ Die("undefined")

\* Mutant: the destructor of Channel leaves the descriptor to Socket.
KeepFd(fd) == UNCHANGED kernelVars

CloseFd(fd) == SysClose(fd)

\* ~Channel closes the descriptor and the Channel is freed.
CloseChannel(r) ==
  /\ LoopAt(r, "closeChannel")
  /\ CloseFd(fdOf[victim[r]])
  /\ obj' = [obj EXCEPT ![victim[r]] = "freed"]
  /\ GoTo(r, "closeSocket")
  /\ UNCHANGED <<map, fdOf, home, hooked, st, mainVars, batch, cur, victim, opened, proc>>

\* ~Socket closes the same descriptor number once more.
CloseSocket(r) ==
  /\ LoopAt(r, "closeSocket")
  /\ SysClose(fdOf[victim[r]])
  /\ victim' = [victim EXCEPT ![r] = None]
  /\ GoTo(r, "tail")
  /\ UNCHANGED <<map, objVars, mainVars, batch, cur, opened, proc>>

\* handleEvent looks at _revents once more; EPOLLOUT is never requested.
Tail(r) ==
  /\ LoopAt(r, "tail")
  /\ EndEvent(r)
  /\ UNCHANGED <<kernelVars, map, objVars, mainVars, batch, victim, opened, proc>>

\* ... which is memory already freed: the bit may read as set, and then the
\* destroyed, empty write callback is called.
StaleRevents(r) ==
  /\ LoopAt(r, "tail")
  /\ obj[cur[r]] = "freed"
  /\ LoopEnds(r) \/ Die("undefined")

Loop(r) ==
  \/ GetPoll(r) \/ HandleEvent(r) \/ ReadAsserts(r)
  \/ BadFunctionCall(r) \/ TornCallback(r)
  \/ ReadData(r) \/ ReadAgain(r) \/ ReadCloses(r)
  \/ NoAnswer(r) \/ OpenPage(r) \/ MapPage(r) \/ MapFails(r) \/ ClosePage(r)
  \/ LeavePageOpen(r)
  \/ Respond(r) \/ RespondFails(r) \/ RespondKilled(r) \/ CallbackThrows(r)
  \/ LookupMisses(r) \/ LookupErases(r)
  \/ CloseChannel(r) \/ CloseSocket(r)
  \/ Tail(r) \/ StaleRevents(r)

Clients ==
  /\ proc = "up"
  /\ \E c \in Conn : Client(c)
  /\ UNCHANGED <<map, objVars, mainVars, loopVars, proc>>

Next == Clients \/ Main \/ MapRace \/ \E r \in SubReactor : Loop(r)

Spec == Init /\ [][Next]_vars

\* The operating system schedules every thread; clients owe nothing.
FairSpec ==
  /\ Spec
  /\ WF_vars(Main)
  /\ \A r \in SubReactor : WF_vars(Loop(r))
-----------------------------------------------------------------------------
(* Properties. *)

\* The thread is handling an event of a client that it has not destroyed.
Handling(r) == pc[r] \in {"read", "respond", "page", "mapped", "answer", "lookup"}

\* The main thread has finished with the Connection and it is not destroyed.
Published(c) == obj[c] = "live" /\ mainConn # c

Up == proc = "up"

\* _map never holds a dangling pointer, and an entry is under the descriptor
\* of its Connection (deleteConnection against handleConnection).
MapSound ==
  \A fd \in Fd : map[fd] # None => /\ Published(map[fd])
                                   /\ fdOf[map[fd]] = fd

\* A client whose event is being handled loses its socket only to the close()
\* of a page by another sub-reactor (HttpResponse.cpp:137): one whose number was
\* closed under it before, and then given to the client.  No second close of
\* ~Socket ever reaches a socket in use, although these hit the numbers of
\* clients and of files.
SocketKept ==
  [][\A r \in SubReactor :
       Handling(r) /\ file[fdOf[cur[r]]] = cur[r] =>
         \/ file'[fdOf[cur[r]]] = cur[r]
         \/ \E q \in SubReactor \ {r} : ClosePage(q) /\ opened[q] = fdOf[cur[r]]]_vars

\* epoll never holds a pointer to a freed Channel, neither in its interest
\* list nor in a batch already returned by epoll_wait.
NoFreedChannel ==
  \A c \in Conn :
    trigger[c] # "off" \/ (\E r \in SubReactor : c \in batch[r]) => obj[c] = "live"

\* As long as its descriptor is open, a published connection can be found
\* through _map, unless it is being destroyed right now.
OpenIsMapped ==
  \A c \in Conn :
    Published(c) /\ file[fdOf[c]] = c =>
      \/ map[fdOf[c]] = c
      \/ \E r \in SubReactor : victim[r] = c

\* Edge triggering loses no event: input nobody is about to read is queued.
NoLostEdge ==
  \A c \in Conn :
    /\ Up /\ trigger[c] # "off" /\ st[c] # "Closed" /\ Readable(c)
    /\ pc[home[c]] # "dead"
    => \/ c \in ready \cup batch[home[c]]
       \/ cur[home[c]] = c /\ pc[home[c]] = "read"

\* epoll_ctl never fails; the server exits when it does (errif in
\* Epoll::updateChannel).
EpollCtlSucceeds == proc # "epoll_failed"

\* Connection::Read is never entered in state Closed (its assertion).
ReadNotClosed == proc # "assert_failed"

\* Input on a registered connection is read, unless the server stops or the
\* connection is gone.
InputIsRead ==
  \A c \in Conn :
    (trigger[c] # "off" /\ rx[c] > 0) ~>
      (rx[c] = 0 \/ peer[c] = "gone" \/ ~Up \/ pc[home[c]] = "dead")

\* A client that hangs up has its Connection destroyed and its descriptor
\* closed, provided its end of file is read after the Connection is published.
HangupReclaims ==
  \A c \in Conn :
    (Published(c) /\ st[c] = "Connected" /\ peer[c] \in {"fin", "rst"}) ~>
      (obj[c] = "freed" \/ peer[c] = "gone" \/ ~Up \/ pc[home[c]] = "dead")
-----------------------------------------------------------------------------
(* The inductive invariant behind these safety properties.  Its core is    *)
(* that the clients a number is given to, one after the other, belong to   *)
(* one sub-reactor (Dispatch), so that the thread which closes a number    *)
(* twice is the only one that could be serving its next client.  The files *)
(* of pages belong to any sub-reactor: the socket of a client being served *)
(* may be closed, and its number be a file's or another client's.          *)
Closing(r) == pc[r] \in {"closeChannel", "closeSocket"}

\* The Connection under construction is reachable from nowhere else.
MainInv ==
  /\ mainPc = "poll" <=> mainConn = None
  /\ mainConn # None =>
       /\ obj[mainConn] = "live"
       /\ file[fdOf[mainConn]] \in {mainConn, File, None}
       /\ mainPc = "enableReading" =>
            trigger[mainConn] = "off" /\ \A r \in SubReactor : mainConn \notin batch[r]
       /\ mainPc # "enableReading" => home[mainConn] \in Dispatch(fdOf[mainConn])
       /\ mainPc # "publish" => ~hooked[mainConn] /\ st[mainConn] # "Closed"
  /\ \A c \in Conn : obj[c] = "none" => ~hooked[c] /\ st[c] = "Invalid"

\* The descriptor table and the registrations agree with the objects.
FileInv ==
  /\ \A fd \in Fd : IsSocket(fd) => /\ fdOf[file[fd]] = fd
                                    /\ obj[file[fd]] = "live"
  /\ \A c \in Conn : trigger[c] # "off" => /\ file[fdOf[c]] = c
                                          /\ home[c] \in Dispatch(fdOf[c])

\* What a sub-reactor works on was registered with it; its numbers differ, and
\* nobody but this thread destroys it.
Owned(r, c) == obj[c] = "live" /\ home[c] = r /\ r \in Dispatch(fdOf[c])

BatchInv ==
  \A r \in SubReactor :
    /\ \A c \in batch[r] : Owned(r, c)
    /\ \A c, d \in batch[r] : fdOf[c] = fdOf[d] => c = d

CurInv ==
  \A r \in SubReactor :
    Handling(r) => /\ cur[r] \in Conn /\ hooked[cur[r]]
                   /\ Owned(r, cur[r])
                   /\ \A c \in batch[r] : fdOf[c] # fdOf[cur[r]]

\* A page that is open is closed once; its number is not that of the client it
\* is sent to, as long as that client has its socket.
PageInv ==
  \A r \in SubReactor :
    pc[r] \in {"page", "mapped"} =>
      /\ opened[r] \in Fd
      /\ opened[r] = fdOf[cur[r]] => file[opened[r]] # cur[r]

\* A Connection being destroyed is out of the map, and no channel of the
\* thread's batch has its descriptor number.
VictimInv ==
  \A r \in SubReactor :
    /\ Closing(r) <=> victim[r] # None
    /\ Closing(r) =>
         /\ victim[r] # mainConn
         /\ obj[victim[r]] = IF pc[r] = "closeChannel" THEN "live" ELSE "freed"
         /\ r \in Dispatch(fdOf[victim[r]])
         /\ \A fd \in Fd : map[fd] # victim[r]
         /\ \A c \in batch[r] : fdOf[c] # fdOf[victim[r]]

IInv == /\ TypeOK /\ MainInv /\ FileInv /\ BatchInv /\ CurInv /\ VictimInv /\ PageInv
        /\ MapSound /\ OpenIsMapped /\ NoLostEdge
=============================================================================
