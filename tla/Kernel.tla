------------------------------- MODULE Kernel -------------------------------
(***************************************************************************)
(* What the server sees of the operating system: the descriptor table, the *)
(* TCP sockets of its clients and the epoll registrations.  None of it is  *)
(* code of the repository; it is modelled from the calls the code makes    *)
(* (accept, open, read, write, close, epoll_ctl, epoll_wait).              *)
(*                                                                         *)
(* One member of Conn is one TCP connection: the client's side of it, the  *)
(* kernel socket and, once accepted, the server's objects for it.          *)
(***************************************************************************)
EXTENDS Naturals

CONSTANTS Conn,      \* TCP connections clients may open
          NFd,       \* descriptors left for clients and files (RLIMIT_NOFILE)
          File,      \* what the descriptor of an open regular file refers to
          MaxSend,   \* segments one client sends
          None       \* "no connection"

ASSUME KernelAssumption == /\ NFd \in Nat \ {0}
                           /\ MaxSend \in Nat
                           /\ None \notin Conn /\ File \notin Conn /\ File # None

Fd == 0 .. NFd - 1

VARIABLES file,     \* descriptor table: what a descriptor refers to
          peer,     \* what the peer has done to the connection
          sent,     \* segments the client has sent
          rx,       \* segments received and not read yet
          trigger,  \* epoll registration: none, level or edge triggered
          ready     \* sockets on the ready list of their epoll instance

kernelVars == <<file, peer, sent, rx, trigger, ready>>

KernelTypeOK ==
  /\ file \in [Fd -> Conn \cup {File, None}]
  /\ peer \in [Conn -> {"absent", "open", "fin", "rst", "gone"}]
  /\ sent \in [Conn -> 0 .. MaxSend]
  /\ rx \in [Conn -> Nat]
  /\ trigger \in [Conn -> {"off", "LT", "ET"}]
  /\ ready \subseteq Conn

KernelInit ==
  /\ file = [fd \in Fd |-> None]
  /\ peer = [c \in Conn |-> "absent"]
  /\ sent = [c \in Conn |-> 0]
  /\ rx = [c \in Conn |-> 0]
  /\ trigger = [c \in Conn |-> "off"]
  /\ ready = {}

-----------------------------------------------------------------------------
(* Clients. *)

\* EPOLLIN would be reported for the socket: data, end of file or an error.
Readable(c) == rx[c] > 0 \/ peer[c] \in {"fin", "rst"}

\* A new event on a registered socket puts it on the ready list.
Signal(c) == ready' = ready \cup ({c} \cap {x \in Conn : trigger[x] # "off"})

Connect(c) ==
  /\ peer[c] = "absent"
  /\ peer' = [peer EXCEPT ![c] = "open"]
  /\ UNCHANGED <<file, sent, rx, trigger, ready>>

Send(c) ==
  /\ peer[c] = "open"
  /\ sent[c] < MaxSend
  /\ sent' = [sent EXCEPT ![c] = @ + 1]
  /\ rx' = [rx EXCEPT ![c] = @ + 1]
  /\ Signal(c)
  /\ UNCHANGED <<file, peer, trigger>>

\* The client shuts its side down (FIN) or aborts the connection (RST).
Hangup(c) ==
  /\ \/ peer[c] = "open" /\ peer' = [peer EXCEPT ![c] = "fin"]
     \/ peer[c] \in {"open", "fin"} /\ peer' = [peer EXCEPT ![c] = "rst"]
  /\ Signal(c)
  /\ UNCHANGED <<file, sent, rx, trigger>>

Client(c) == Connect(c) \/ Send(c) \/ Hangup(c)

-----------------------------------------------------------------------------
(* System calls. *)

\* accept() gives the connection a free descriptor.  The process opens other
\* descriptors too (log file, database), so it may be any free number.  Sockets
\* and files share the numbers.
SysAccept(c, fd) ==
  /\ file[fd] = None
  /\ file' = [file EXCEPT ![fd] = c]
  /\ UNCHANGED <<peer, sent, rx, trigger, ready>>

\* open() of a regular file.
SysOpen(fd) ==
  /\ file[fd] = None
  /\ file' = [file EXCEPT ![fd] = File]
  /\ UNCHANGED <<peer, sent, rx, trigger, ready>>

\* epoll_ctl ADD or MOD of the socket behind fd; readable sockets are queued.
SysEpollCtl(c, fd, mode) ==
  /\ file[fd] = c
  /\ trigger' = [trigger EXCEPT ![c] = mode]
  /\ ready' = IF Readable(c) THEN ready \cup {c} ELSE ready
  /\ UNCHANGED <<file, peer, sent, rx>>

\* epoll_wait of the instance that watches the sockets of S: the queued
\* sockets that still are readable are reported, level-triggered ones stay.
SysEpollWait(S) ==
  /\ ready' = ready \ {c \in S : trigger[c] = "ET" \/ ~Readable(c)}
  /\ UNCHANGED <<file, peer, sent, rx, trigger>>

IsSocket(fd) == file[fd] \in Conn

\* read() that returns data, from whatever socket the descriptor refers to.
SysReadData(fd) ==
  LET c == file[fd]
  IN  /\ IsSocket(fd)
      /\ rx[c] > 0
      /\ rx' = [rx EXCEPT ![c] = @ - 1]
      /\ UNCHANGED <<file, peer, sent, trigger, ready>>

WouldBlock(fd) == IsSocket(fd) /\ ~Readable(file[fd])

\* read() returns 0 or an error other than EAGAIN: end of file, connection
\* reset, a descriptor that is not open (EBADF), or a file, which is read as a
\* blocking socket is, into an array of length 0.
ReadEnds(fd) ==
  IsSocket(fd) => rx[file[fd]] = 0 /\ peer[file[fd]] \in {"fin", "rst"}

\* write() fails: a reset connection, no open descriptor, a file open for
\* reading only.
WriteBroken(fd) == IsSocket(fd) => peer[file[fd]] = "rst"

\* close(): the last reference to a socket ends its connection and its epoll
\* registration; closing a descriptor that is not open changes nothing.
SysClose(fd) ==
  LET c == file[fd]
  IN  /\ file' = [file EXCEPT ![fd] = None]
      /\ peer' = [x \in Conn |-> IF x = c THEN "gone" ELSE peer[x]]
      /\ trigger' = [x \in Conn |-> IF x = c THEN "off" ELSE trigger[x]]
      /\ ready' = ready \ {c}
      /\ UNCHANGED <<sent, rx>>
=============================================================================
