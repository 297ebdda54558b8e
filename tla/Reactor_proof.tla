--------------------------- MODULE Reactor_proof ---------------------------
(***************************************************************************)
(* Proofs about Reactor: IInv is inductive and implies the safety          *)
(* properties, for any number of clients, descriptors and sub-reactors.    *)
(***************************************************************************)
EXTENDS Reactor, TLAPS

\* A descriptor is dispatched to exactly one sub-reactor (handleConnection).
LEMMA DispatchType ==
  ASSUME NEW fd \in Fd
  PROVE  \E r \in SubReactor : Dispatch(fd) = {r}
BY KernelAssumption, ReactorAssumption DEF Fd, Dispatch, SubReactor

LEMMA DispatchUnique ==
  ASSUME NEW fd, NEW r \in Dispatch(fd), NEW q \in Dispatch(fd)
  PROVE  r = q
BY DEF Dispatch

\* The initial states satisfy the inductive invariant.
LEMMA InitInv == Init => IInv
<1> SUFFICES ASSUME Init PROVE IInv
  OBVIOUS
<1> USE KernelAssumption, ReactorAssumption DEF Init, KernelInit
<1>1. 0 \in Fd /\ 0 \in SubReactor
  BY DEF Fd, SubReactor
<1>2. TypeOK
  BY <1>1 DEF TypeOK, KernelTypeOK
<1>3. MainInv /\ FileInv /\ BatchInv
  BY DEF IsSocket, MainInv, FileInv, BatchInv, IsSocket
<1>4. CurInv /\ VictimInv
  BY DEF CurInv, VictimInv, Handling, Closing
<1>5. MapSound /\ OpenIsMapped /\ NoLostEdge
  BY <1>1 DEF MapSound, OpenIsMapped, NoLostEdge, Readable, Published
<1>6. PageInv
  BY DEF PageInv
<1> QED
  BY <1>2, <1>3, <1>4, <1>5, <1>6 DEF IInv
-----------------------------------------------------------------------------
(* Steps of the main thread. *)

LEMMA AcceptInv ==
  ASSUME IInv, NEW c \in Conn, AcceptNewConnection(c)
  PROVE  IInv'
<1> USE KernelAssumption, ReactorAssumption DEF Owned
<1> DEFINE fd == fdOf'[c]
<1>1. /\ TypeOK /\ MainInv /\ FileInv /\ BatchInv /\ CurInv
      /\ VictimInv /\ PageInv /\ MapSound /\ OpenIsMapped /\ NoLostEdge
  BY DEF IInv
<1>2. /\ fd \in Fd /\ file[fd] = None
      /\ file' = [file EXCEPT ![fd] = c]
      /\ fdOf' = [fdOf EXCEPT ![c] = fd]
      /\ obj' = [obj EXCEPT ![c] = "live"]
      /\ mainPc = "poll" /\ mainPc' = "enableReading" /\ mainConn' = c
      /\ obj[c] = "none" /\ proc = "up"
      /\ UNCHANGED <<peer, sent, rx, trigger, ready, map, home, hooked, st,
                     loopVars, proc>>
  BY <1>1 DEF AcceptNewConnection, SysAccept, MainAt, Waiting, TypeOK
<1>3. /\ mainConn = None
      /\ trigger[c] = "off"
      /\ ~hooked[c] /\ st[c] = "Invalid"
  BY <1>1, <1>2 DEF IsSocket, MainInv, FileInv, TypeOK, KernelTypeOK
<1>4. TypeOK'
  BY <1>1, <1>2 DEF TypeOK, KernelTypeOK, loopVars
<1>5. MainInv'
  <2>1. \A r \in SubReactor : c \notin batch[r]
    BY <1>1, <1>2 DEF BatchInv
  <2> QED
    BY <1>1, <1>2, <1>3, <2>1 DEF MainInv, TypeOK, KernelTypeOK, loopVars
<1>6. FileInv'
  <2>1. /\ c # None /\ c # File /\ None \notin Conn
        /\ \A f \in Fd : file'[f] = IF f = fd THEN c ELSE file[f]
        /\ \A x \in Conn : fdOf'[x] = IF x = c THEN fd ELSE fdOf[x]
        /\ \A x \in Conn : obj'[x] = IF x = c THEN "live" ELSE obj[x]
    BY <1>1, <1>2 DEF TypeOK, KernelTypeOK
  <2>2. \A x \in Conn : trigger'[x] # "off" => x # c /\ file[fdOf[x]] = x /\ fdOf[x] \in Fd
    BY <1>1, <1>2, <1>3 DEF FileInv, TypeOK
  <2>3. \A f \in Fd : IsSocket(f)' =>
          fdOf'[file'[f]] = f /\ obj'[file'[f]] = "live"
    BY <1>1, <1>2, <2>1 DEF FileInv, IsSocket
  <2>4. \A x \in Conn : trigger'[x] # "off" =>
          file'[fdOf'[x]] = x /\ home'[x] \in Dispatch(fdOf'[x])
    BY <1>1, <1>2, <2>1, <2>2 DEF FileInv, Dispatch
  <2> QED
    BY <2>3, <2>4 DEF FileInv, Dispatch
<1>7. BatchInv' /\ CurInv'
  BY <1>1, <1>2 DEF BatchInv, CurInv, Handling, loopVars, TypeOK
<1>8. VictimInv'
  BY <1>1, <1>2, <1>3 DEF VictimInv, BatchInv, Closing, TypeOK, KernelTypeOK, loopVars
<1>9. MapSound'
  BY <1>1, <1>2, <1>3 DEF MapSound, Published, TypeOK, KernelTypeOK
<1>10. OpenIsMapped'
  BY <1>1, <1>2, <1>3 DEF OpenIsMapped, Published, TypeOK, KernelTypeOK, loopVars
<1>11. NoLostEdge'
  BY <1>1, <1>2 DEF NoLostEdge, Up, Readable, loopVars
<1>12. PageInv'
  BY <1>1, <1>2, <1>3
     DEF PageInv, CurInv, Handling, TypeOK, KernelTypeOK, loopVars
<1> QED
  BY <1>4, <1>5, <1>6, <1>7, <1>8, <1>9, <1>10, <1>11, <1>12 DEF IInv

\* Arming a registration of the Connection under construction, in either
\* mode, disturbs the same conjuncts.
LEMMA EpollCtlInv ==
  ASSUME IInv, EnableReading \/ UseET
  PROVE  IInv'
<1> USE KernelAssumption, ReactorAssumption DEF Owned
<1> DEFINE c == mainConn
<1>1. /\ TypeOK /\ MainInv /\ FileInv /\ BatchInv /\ CurInv
      /\ VictimInv /\ PageInv /\ MapSound /\ OpenIsMapped /\ NoLostEdge
  BY DEF IInv
<1>2. c \in Conn /\ fdOf[c] \in Fd
  BY <1>1 DEF EnableReading, UseET, MainAt, TypeOK, MainInv
<1>3. PICK mode \in {"LT", "ET"}, r \in SubReactor, step \in {"useET", "setCallbacks"} :
        /\ r \in Dispatch(fdOf[c])
        /\ home' = [home EXCEPT ![c] = r]
        /\ file[fdOf[c]] = c
        /\ trigger' = [trigger EXCEPT ![c] = mode]
        /\ ready' = IF Readable(c) THEN ready \cup {c} ELSE ready
        /\ mainPc' = step
        /\ mainPc \in {"enableReading", "useET"}
        /\ trigger[c] = "off" \/ home' = home
        /\ UNCHANGED <<file, peer, sent, rx, map, obj, fdOf, hooked, st,
                       mainConn, loopVars, proc>>
  <2>1. CASE EnableReading
    BY <1>1, <1>2, <2>1, DispatchType, ZenonT(60)
       DEF EnableReading, SysEpollCtl, MainAt, MainInv
  <2>2. CASE UseET
    <3>1. home[c] \in SubReactor /\ home[c] \in Dispatch(fdOf[c])
      BY <1>1, <1>2, <2>2 DEF UseET, MainAt, MainInv, TypeOK
    <3>2. home = [home EXCEPT ![c] = home[c]]
      BY <1>1, <1>2 DEF TypeOK
    <3> QED
      BY <1>1, <1>2, <2>2, <3>1, <3>2 DEF UseET, SysEpollCtl, MainAt, objVars
  <2> QED
    BY <2>1, <2>2
<1>4. TypeOK'
  BY <1>1, <1>2, <1>3 DEF TypeOK, KernelTypeOK, loopVars
<1>5. MainInv'
  BY <1>1, <1>2, <1>3 DEF MainInv, TypeOK, KernelTypeOK
<1>6. FileInv'
  BY <1>1, <1>2, <1>3 DEF IsSocket, FileInv, TypeOK, KernelTypeOK
<1>a. /\ \A q \in SubReactor : c \in batch[q] => home' = home
      /\ ~hooked[c]
  <2>1. CASE EnableReading
    BY <1>1, <1>2, <2>1 DEF EnableReading, MainAt, MainInv
  <2>2. CASE UseET
    BY <1>1, <1>2, <2>2 DEF UseET, MainAt, MainInv, objVars
  <2> QED
    BY <2>1, <2>2
<1>b. \A x \in Conn : x # c => home'[x] = home[x]
  BY <1>1, <1>3 DEF TypeOK
<1>7. BatchInv'
  BY <1>1, <1>3, <1>a, <1>b DEF BatchInv, TypeOK, loopVars, Dispatch
<1>8. CurInv'
  BY <1>1, <1>3, <1>a, <1>b DEF CurInv, Handling, TypeOK, loopVars, Dispatch
<1>9. VictimInv' /\ MapSound' /\ OpenIsMapped'
  BY <1>1, <1>3 DEF VictimInv, Closing, MapSound, OpenIsMapped, Published, loopVars
<1>10. NoLostEdge'
  BY <1>1, <1>2, <1>3 DEF NoLostEdge, Up, Readable, TypeOK, KernelTypeOK, loopVars
<1>11. PageInv'
  BY <1>1, <1>2, <1>3
     DEF PageInv, CurInv, Handling, TypeOK, KernelTypeOK, loopVars
<1> QED
  BY <1>4, <1>5, <1>6, <1>7, <1>8, <1>9, <1>10, <1>11 DEF IInv

LEMMA SetCallbacksInv ==
  ASSUME IInv, SetCallbacks
  PROVE  IInv'
<1> USE KernelAssumption, ReactorAssumption DEF Owned
<1>1. /\ TypeOK /\ MainInv /\ FileInv /\ BatchInv /\ CurInv
      /\ VictimInv /\ PageInv /\ MapSound /\ OpenIsMapped /\ NoLostEdge
  BY DEF IInv
<1>2. mainConn \in Conn /\ obj[mainConn] = "live" /\ st[mainConn] # "Closed"
  BY <1>1 DEF SetCallbacks, MainAt, TypeOK, MainInv
<1> USE DEF SetCallbacks, MainAt, kernelVars, loopVars
<1>3. TypeOK'
  BY <1>1, <1>2 DEF TypeOK, KernelTypeOK
<1>4. MainInv'
  BY <1>1, <1>2 DEF MainInv, TypeOK
<1>5. FileInv' /\ BatchInv'
  BY <1>1 DEF IsSocket, FileInv, BatchInv
<1>6. CurInv'
  BY <1>1, <1>2 DEF CurInv, Handling, TypeOK
<1>7. VictimInv' /\ MapSound' /\ OpenIsMapped'
  BY <1>1 DEF VictimInv, Closing, MapSound, OpenIsMapped, Published
<1>8. NoLostEdge'
  BY <1>1, <1>2 DEF NoLostEdge, Up, Readable, TypeOK
<1>9. PageInv'
  BY <1>1, <1>2, <1>3, <1>4, <1>5
     DEF PageInv, CurInv, Handling, TypeOK, KernelTypeOK
<1> QED
  BY <1>3, <1>4, <1>5, <1>6, <1>7, <1>8, <1>9 DEF IInv

LEMMA PublishInv ==
  ASSUME IInv, Publish
  PROVE  IInv'
<1> USE KernelAssumption, ReactorAssumption DEF Owned
<1>1. /\ TypeOK /\ MainInv /\ FileInv /\ BatchInv /\ CurInv
      /\ VictimInv /\ PageInv /\ MapSound /\ OpenIsMapped /\ NoLostEdge
  BY DEF IInv
<1>2. /\ mainConn \in Conn /\ obj[mainConn] = "live" /\ fdOf[mainConn] \in Fd
      /\ file[fdOf[mainConn]] \in {mainConn, File, None}
  BY <1>1 DEF Publish, MainAt, TypeOK, MainInv
<1> USE DEF Publish, Insert, MainAt, kernelVars, objVars, loopVars
<1>3. TypeOK'
  BY <1>1, <1>2 DEF TypeOK, KernelTypeOK
<1>4. MainInv' /\ FileInv' /\ BatchInv' /\ CurInv'
  BY <1>1, <1>2 DEF IsSocket, MainInv, FileInv, BatchInv, CurInv, Handling
<1>5. VictimInv'
  BY <1>1, <1>2 DEF VictimInv, Closing, TypeOK
<1>6. MapSound'
  BY <1>1, <1>2 DEF MapSound, Published, TypeOK
<1>7. OpenIsMapped'
  BY <1>1, <1>2 DEF OpenIsMapped, Published, TypeOK
<1>8. NoLostEdge'
  BY <1>1 DEF NoLostEdge, Up, Readable
<1>9. PageInv'
  BY <1>1, <1>2, <1>3, <1>4, <1>5
     DEF PageInv, CurInv, Handling, TypeOK, KernelTypeOK
<1> QED
  BY <1>3, <1>4, <1>5, <1>6, <1>7, <1>8, <1>9 DEF IInv

\* A step that ends the process changes nothing else.
LEMMA DieInv ==
  ASSUME IInv, NEW reason \in {"accept_failed", "epoll_failed", "assert_failed",
                               "sigpipe", "segfault", "undefined"},
         Die(reason)
  PROVE  IInv'
BY DEF IsSocket, IInv, Die, TypeOK, KernelTypeOK, MainInv, FileInv, BatchInv, CurInv, VictimInv,
       PageInv, Owned, IsSocket,
       MapSound, OpenIsMapped, NoLostEdge, Up, Handling, Closing, Published,
       kernelVars, objVars, mainVars, loopVars
-----------------------------------------------------------------------------
(* Steps of a sub-reactor that leave every Connection in place. *)

\* An event's handler works on a Connection of its own thread.
LEMMA HandlingOwn ==
  ASSUME IInv, NEW r \in SubReactor, Handling(r)
  PROVE  /\ cur[r] \in Conn /\ fdOf[cur[r]] \in Fd
         /\ home[cur[r]] = r
         /\ r \in Dispatch(fdOf[cur[r]])
         /\ hooked[cur[r]]
         /\ obj[cur[r]] = "live"
         /\ trigger[cur[r]] # "off" => file[fdOf[cur[r]]] = cur[r]
BY KernelAssumption DEF IsSocket, IInv, CurInv, Owned, FileInv, TypeOK, KernelTypeOK

LEMMA GetPollInv ==
  ASSUME IInv, NEW r \in SubReactor, GetPoll(r)
  PROVE  IInv'
<1> USE KernelAssumption, ReactorAssumption DEF Owned
<1>1. /\ TypeOK /\ MainInv /\ FileInv /\ BatchInv /\ CurInv
      /\ VictimInv /\ PageInv /\ MapSound /\ OpenIsMapped /\ NoLostEdge
  BY DEF IInv
<1> DEFINE B == {c \in ready \cap Watched(r) : Readable(c)}
<1>2. /\ pc[r] = "loop" /\ batch[r] = {}
      /\ batch' = [batch EXCEPT ![r] = B]
      /\ B \in SUBSET Conn
      /\ \A c \in B : trigger[c] # "off" /\ home[c] = r
      /\ ready' \subseteq ready
      /\ \A c \in ready : Readable(c) => c \in B \cup ready'
      /\ UNCHANGED <<file, peer, sent, rx, trigger,
                     map, objVars, mainVars, pc, cur, victim, opened, proc>>
  BY <1>1 DEF GetPoll, LoopAt, SysEpollWait, Watched, TypeOK, KernelTypeOK
<1> HIDE DEF B
<1> USE DEF objVars, mainVars
<1>a. \A c \in B : fdOf[c] \in Fd /\ file[fdOf[c]] = c /\ Owned(r, c)
  BY <1>1, <1>2 DEF IsSocket, FileInv, TypeOK, KernelTypeOK
<1>b. \A c, d \in B : fdOf[c] = fdOf[d] => c = d
  BY <1>a
<1>3. TypeOK'
  BY <1>1, <1>2 DEF TypeOK, KernelTypeOK
<1>4. MainInv' /\ FileInv'
  BY <1>1, <1>2 DEF IsSocket, MainInv, FileInv
<1>5. BatchInv' /\ CurInv' /\ VictimInv'
  BY <1>1, <1>2, <1>a, <1>b DEF BatchInv, CurInv, VictimInv, Handling, Closing, TypeOK
<1>6. MapSound' /\ OpenIsMapped'
  BY <1>1, <1>2 DEF MapSound, OpenIsMapped, Published
<1>7. NoLostEdge'
  <2> SUFFICES ASSUME NEW c \in Conn,
                      Up, trigger[c] # "off", st[c] # "Closed", Readable(c),
                      pc[home[c]] # "dead"
               PROVE  \/ c \in ready' \cup batch'[home[c]]
                      \/ cur[home[c]] = c /\ pc[home[c]] = "read"
    BY <1>2 DEF NoLostEdge, Up, Readable
  <2>1. home[c] \in SubReactor
    BY <1>1 DEF TypeOK
  <2>2. \/ c \in ready \/ c \in batch[home[c]]
        \/ cur[home[c]] = c /\ pc[home[c]] = "read"
    BY <1>1 DEF NoLostEdge
  <2>3. CASE c \in ready
    <3>1. CASE c \in ready'
      BY <3>1
    <3>2. CASE c \in B
      BY <1>1, <1>2, <3>2 DEF TypeOK
    <3> QED
      BY <1>2, <2>3, <3>1, <3>2
  <2>4. CASE c \in batch[home[c]]
    BY <1>1, <1>2, <2>1, <2>4 DEF TypeOK
  <2> QED
    BY <1>2, <2>2, <2>3, <2>4
<1>8. PageInv'
  BY <1>1, <1>2, <1>3, <1>4, <1>5
     DEF PageInv, CurInv, Handling, TypeOK, KernelTypeOK
<1> QED
  BY <1>3, <1>4, <1>5, <1>6, <1>7, <1>8 DEF IInv

LEMMA HandleEventInv ==
  ASSUME IInv, NEW r \in SubReactor, HandleEvent(r)
  PROVE  IInv'
<1> USE KernelAssumption, ReactorAssumption DEF Owned
<1>1. /\ TypeOK /\ MainInv /\ FileInv /\ BatchInv /\ CurInv
      /\ VictimInv /\ PageInv /\ MapSound /\ OpenIsMapped /\ NoLostEdge
  BY DEF IInv
<1>2. PICK c \in batch[r] :
        /\ hooked[c] /\ st[c] # "Closed"
        /\ cur' = [cur EXCEPT ![r] = c]
        /\ batch' = [batch EXCEPT ![r] = @ \ {c}]
  BY DEF HandleEvent
<1>3. /\ c \in Conn /\ Owned(r, c)
      /\ pc[r] = "loop" /\ pc' = [pc EXCEPT ![r] = "read"]
      /\ UNCHANGED <<kernelVars, map, objVars, mainVars, victim, opened, proc>>
  BY <1>1 DEF HandleEvent, LoopAt, GoTo, TypeOK, BatchInv
<1> USE DEF kernelVars, objVars, mainVars
<1>4. TypeOK'
  BY <1>1, <1>2, <1>3 DEF TypeOK, KernelTypeOK
<1>5. MainInv' /\ FileInv'
  BY <1>1, <1>2, <1>3 DEF IsSocket, MainInv, FileInv, TypeOK
<1>6. BatchInv' /\ CurInv' /\ VictimInv'
  BY <1>1, <1>2, <1>3 DEF BatchInv, CurInv, VictimInv, Handling, Closing, TypeOK
<1>7. MapSound' /\ OpenIsMapped'
  BY <1>1, <1>3 DEF MapSound, OpenIsMapped, Published
<1>8. NoLostEdge'
  BY <1>1, <1>2, <1>3 DEF NoLostEdge, Up, Readable, TypeOK
<1>9. PageInv'
  BY <1>1, <1>2, <1>3, <1>4, <1>5
     DEF PageInv, CurInv, Handling, TypeOK, KernelTypeOK
<1> QED
  BY <1>4, <1>5, <1>6, <1>7, <1>8, <1>9 DEF IInv

LEMMA LoopEndsInv ==
  ASSUME IInv, NEW r \in SubReactor, pc[r] \in {"loop", "respond", "tail"}, LoopEnds(r)
  PROVE  IInv'
<1> USE KernelAssumption, ReactorAssumption
        DEF Owned, LoopEnds, GoTo, kernelVars, objVars, mainVars
<1>1. /\ TypeOK /\ MainInv /\ FileInv /\ BatchInv /\ CurInv
      /\ VictimInv /\ PageInv /\ MapSound /\ OpenIsMapped /\ NoLostEdge
  BY DEF IInv
<1>2. TypeOK'
  BY <1>1 DEF TypeOK, KernelTypeOK
<1>3. MainInv' /\ FileInv' /\ MapSound' /\ OpenIsMapped'
  BY <1>1 DEF IsSocket, MainInv, FileInv, MapSound, OpenIsMapped, Published
<1>4. BatchInv' /\ CurInv' /\ VictimInv'
  BY <1>1 DEF BatchInv, CurInv, VictimInv, Handling, Closing, TypeOK
<1>5. NoLostEdge'
  BY <1>1 DEF NoLostEdge, Up, Readable, TypeOK
<1>6. PageInv'
  BY <1>1, <1>2, <1>3, <1>4, <1>5
     DEF PageInv, CurInv, Handling, TypeOK, KernelTypeOK
<1> QED
  BY <1>2, <1>3, <1>4, <1>5, <1>6 DEF IInv

LEMMA ReadDataInv ==
  ASSUME IInv, NEW r \in SubReactor, ReadData(r)
  PROVE  IInv'
<1> USE KernelAssumption, ReactorAssumption DEF Owned
<1>1. /\ TypeOK /\ MainInv /\ FileInv /\ BatchInv /\ CurInv
      /\ VictimInv /\ PageInv /\ MapSound /\ OpenIsMapped /\ NoLostEdge
  BY DEF IInv
<1> DEFINE c == file[fdOf[cur[r]]]
<1>2. Handling(r) /\ pc[r] = "read"
  BY DEF ReadData, LoopAt, Handling
<1>3. c \in Conn
  BY DEF ReadData, SysReadData, IsSocket
<1>4. /\ rx[c] > 0 /\ rx' = [rx EXCEPT ![c] = @ - 1] /\ rx[c] \in Nat
      /\ pc' = [pc EXCEPT ![r] = "read"]
      /\ UNCHANGED <<file, peer, sent, trigger, ready,
                     map, objVars, mainVars, batch, cur, victim, opened, proc>>
  BY <1>1, <1>3 DEF ReadData, SysReadData, GoTo, AfterRead, TypeOK, KernelTypeOK
<1>5. pc' = pc
  BY <1>1, <1>2, <1>4 DEF TypeOK
<1> USE DEF objVars, mainVars
<1>6. TypeOK'
  BY <1>1, <1>3, <1>4, <1>5 DEF TypeOK, KernelTypeOK
<1>7. MainInv' /\ FileInv' /\ MapSound' /\ OpenIsMapped'
  BY <1>1, <1>4 DEF IsSocket, MainInv, FileInv, MapSound, OpenIsMapped, Published
<1>8. BatchInv' /\ CurInv' /\ VictimInv'
  BY <1>1, <1>4, <1>5 DEF BatchInv, CurInv, VictimInv, Handling, Closing
<1>9. NoLostEdge'
  BY <1>1, <1>3, <1>4, <1>5 DEF NoLostEdge, Up, Readable, TypeOK, KernelTypeOK
<1>10. PageInv'
  BY <1>1, <1>2, <1>3, <1>4, <1>5
     DEF PageInv, CurInv, Handling, TypeOK, KernelTypeOK
<1> QED
  BY <1>6, <1>7, <1>8, <1>9, <1>10 DEF IInv

LEMMA ReadAgainInv ==
  ASSUME IInv, NEW r \in SubReactor, ReadAgain(r)
  PROVE  IInv'
<1> USE KernelAssumption, ReactorAssumption DEF Owned
<1>1. /\ TypeOK /\ MainInv /\ FileInv /\ BatchInv /\ CurInv
      /\ VictimInv /\ PageInv /\ MapSound /\ OpenIsMapped /\ NoLostEdge
  BY DEF IInv
<1>2. Handling(r) /\ pc[r] = "read"
  BY DEF ReadAgain, LoopAt, Handling
<1>3. trigger[cur[r]] # "off" => ~Readable(cur[r])
  BY <1>2, HandlingOwn DEF ReadAgain, WouldBlock
<1>4. /\ pc' = [pc EXCEPT ![r] = "respond"]
      /\ UNCHANGED <<kernelVars, map, objVars, mainVars, batch, cur, victim, opened, proc>>
  BY DEF ReadAgain, GoTo
<1> USE DEF kernelVars, objVars, mainVars
<1>5. TypeOK'
  BY <1>1, <1>4 DEF TypeOK, KernelTypeOK
<1>6. MainInv' /\ FileInv' /\ MapSound' /\ OpenIsMapped'
  BY <1>1, <1>4 DEF IsSocket, MainInv, FileInv, MapSound, OpenIsMapped, Published
<1>7. BatchInv' /\ CurInv' /\ VictimInv'
  BY <1>1, <1>2, <1>4 DEF BatchInv, CurInv, VictimInv, Handling, Closing, TypeOK
<1>8. NoLostEdge'
  <2> SUFFICES ASSUME NEW x \in Conn, x # cur[r],
                      Up, trigger[x] # "off", st[x] # "Closed", Readable(x),
                      pc'[home[x]] # "dead"
               PROVE  \/ x \in ready \cup batch[home[x]]
                      \/ cur'[home[x]] = x /\ pc'[home[x]] = "read"
    BY <1>1, <1>2, <1>3, <1>4 DEF NoLostEdge, Up, Readable, TypeOK
  <2>1. home[x] \in SubReactor /\ pc[home[x]] # "dead"
    BY <1>1, <1>2, <1>3, <1>4 DEF TypeOK, Handling
  <2>2. \/ x \in ready \cup batch[home[x]]
        \/ cur[home[x]] = x /\ pc[home[x]] = "read"
    BY <1>1, <2>1 DEF NoLostEdge
  <2>3. ASSUME cur[home[x]] = x
        PROVE  cur' = [cur EXCEPT ![r] = cur'[r]] /\ home[x] # r
    BY <1>1, <1>2, <1>3, <1>4, <2>3 DEF TypeOK
  <2> QED
    BY <1>1, <1>2, <1>3, <1>4, <2>1, <2>2, <2>3 DEF TypeOK
<1>9. PageInv'
  BY <1>1, <1>2, <1>3, <1>4, <1>5
     DEF PageInv, CurInv, Handling, TypeOK, KernelTypeOK
<1> QED
  BY <1>5, <1>6, <1>7, <1>8, <1>9 DEF IInv

\* Marking the client Closed, from ReadNoBlocking or WriteNoBlocking.
LEMMA MarkClosedInv ==
  ASSUME IInv, NEW r \in SubReactor, ReadCloses(r) \/ RespondFails(r)
  PROVE  IInv'
<1> USE KernelAssumption, ReactorAssumption DEF Owned
<1>1. /\ TypeOK /\ MainInv /\ FileInv /\ BatchInv /\ CurInv
      /\ VictimInv /\ PageInv /\ MapSound /\ OpenIsMapped /\ NoLostEdge
  BY DEF IInv
<1> DEFINE c == cur[r]
<1>2. Handling(r)
  BY DEF ReadCloses, RespondFails, LoopAt, Handling
<1>3. c \in Conn /\ hooked[c] /\ obj[c] = "live"
  BY <1>2, HandlingOwn
<1>4. PICK step \in {"lookup", "loop"} :
        /\ st' = [st EXCEPT ![c] = "Closed"]
        /\ pc' = [pc EXCEPT ![r] = step]
        /\ cur' = IF step = "loop" THEN [cur EXCEPT ![r] = None] ELSE cur
        /\ UNCHANGED <<kernelVars, map, obj, fdOf, home, hooked, mainVars,
                       batch, victim, opened, proc>>
  BY DEF ReadCloses, RespondFails, EndEvent, GoTo
<1> USE DEF kernelVars, mainVars
<1>5. TypeOK'
  BY <1>1, <1>3, <1>4 DEF TypeOK, KernelTypeOK
<1>6. MainInv'
  BY <1>1, <1>3, <1>4 DEF MainInv, TypeOK
<1>7. FileInv' /\ MapSound' /\ OpenIsMapped'
  BY <1>1, <1>4 DEF IsSocket, FileInv, MapSound, OpenIsMapped, Published
<1>8. BatchInv' /\ CurInv' /\ VictimInv'
  BY <1>1, <1>2, <1>4 DEF BatchInv, CurInv, VictimInv, Handling, Closing, TypeOK
<1>9. NoLostEdge'
  <2> SUFFICES ASSUME NEW x \in Conn, x # cur[r],
                      Up, trigger[x] # "off", st[x] # "Closed", Readable(x),
                      pc'[home[x]] # "dead"
               PROVE  \/ x \in ready \cup batch[home[x]]
                      \/ cur'[home[x]] = x /\ pc'[home[x]] = "read"
    BY <1>1, <1>2, <1>3, <1>4 DEF NoLostEdge, Up, Readable, TypeOK
  <2>1. home[x] \in SubReactor /\ pc[home[x]] # "dead"
    BY <1>1, <1>2, <1>3, <1>4 DEF TypeOK, Handling
  <2>2. \/ x \in ready \cup batch[home[x]]
        \/ cur[home[x]] = x /\ pc[home[x]] = "read"
    BY <1>1, <2>1 DEF NoLostEdge
  <2>3. ASSUME cur[home[x]] = x
        PROVE  cur' = [cur EXCEPT ![r] = cur'[r]] /\ home[x] # r
    BY <1>1, <1>2, <1>3, <1>4, <2>3 DEF TypeOK
  <2> QED
    BY <1>1, <1>2, <1>3, <1>4, <2>1, <2>2, <2>3 DEF TypeOK
<1>10. PageInv'
  BY <1>1, <1>2, <1>3, <1>4, <1>5
     DEF PageInv, CurInv, Handling, TypeOK, KernelTypeOK
<1> QED
  BY <1>5, <1>6, <1>7, <1>8, <1>9, <1>10 DEF IInv

\* Going back to the loop, or past a lookup that found nothing.
LEMMA EventOverInv ==
  ASSUME IInv, NEW r \in SubReactor, NoAnswer(r) \/ Respond(r) \/ LookupMisses(r) \/ Tail(r)
  PROVE  IInv'
<1> USE KernelAssumption, ReactorAssumption DEF Owned
<1>1. /\ TypeOK /\ MainInv /\ FileInv /\ BatchInv /\ CurInv
      /\ VictimInv /\ PageInv /\ MapSound /\ OpenIsMapped /\ NoLostEdge
  BY DEF IInv
<1>2. pc[r] \in {"respond", "answer", "lookup", "tail"}
  BY DEF NoAnswer, Respond, LookupMisses, Tail, LoopAt
<1>3. PICK step \in {"tail", "loop"} :
        /\ pc' = [pc EXCEPT ![r] = step]
        /\ cur' = IF step = "loop" THEN [cur EXCEPT ![r] = None] ELSE cur
        /\ UNCHANGED <<kernelVars, map, objVars, mainVars, batch, victim, opened, proc>>
  BY DEF NoAnswer, Respond, LookupMisses, Tail, EndEvent, GoTo
<1> USE DEF kernelVars, objVars, mainVars
<1>4. TypeOK'
  BY <1>1, <1>3 DEF TypeOK, KernelTypeOK
<1>5. MainInv' /\ FileInv' /\ MapSound' /\ OpenIsMapped'
  BY <1>1, <1>3 DEF IsSocket, MainInv, FileInv, MapSound, OpenIsMapped, Published
<1>6. BatchInv' /\ CurInv' /\ VictimInv'
  BY <1>1, <1>2, <1>3 DEF BatchInv, CurInv, VictimInv, Handling, Closing, TypeOK
<1>7. NoLostEdge'
  BY <1>1, <1>2, <1>3 DEF NoLostEdge, Up, Readable, TypeOK
<1>8. PageInv'
  BY <1>1, <1>2, <1>3, <1>4, <1>5
     DEF PageInv, CurInv, Handling, TypeOK, KernelTypeOK
<1> QED
  BY <1>4, <1>5, <1>6, <1>7, <1>8 DEF IInv
-----------------------------------------------------------------------------
(* deleteConnection and the destructors. *)

LEMMA LookupErasesInv ==
  ASSUME IInv, NEW r \in SubReactor, LookupErases(r)
  PROVE  IInv'
<1> USE KernelAssumption, ReactorAssumption DEF Owned
<1>1. /\ TypeOK /\ MainInv /\ FileInv /\ BatchInv /\ CurInv
      /\ VictimInv /\ PageInv /\ MapSound /\ OpenIsMapped /\ NoLostEdge
  BY DEF IInv
<1> DEFINE c  == cur[r]
           fd == fdOf[c]
           v  == map[fd]
<1>2. /\ c \in Conn /\ fd \in Fd /\ r \in Dispatch(fd)
      /\ Handling(r) /\ pc[r] = "lookup"
  BY HandlingOwn DEF LookupErases, LoopAt, Handling
<1>3. v \in Conn /\ Published(v) /\ fdOf[v] = fd
  BY <1>1, <1>2 DEF LookupErases, MapSound, TypeOK
<1>4. /\ victim' = [victim EXCEPT ![r] = v]
      /\ map' = [map EXCEPT ![fd] = None]
      /\ pc' = [pc EXCEPT ![r] = "closeChannel"]
      /\ UNCHANGED <<kernelVars, objVars, mainVars, batch, cur, opened, proc>>
  BY DEF LookupErases, Erase, GoTo
<1> HIDE DEF c, fd, v
<1> USE DEF kernelVars, objVars, mainVars
<1>5. TypeOK'
  BY <1>1, <1>2, <1>3, <1>4 DEF TypeOK, KernelTypeOK
<1>6. MainInv' /\ FileInv'
  BY <1>1, <1>4 DEF IsSocket, MainInv, FileInv
<1>7. BatchInv' /\ CurInv'
  BY <1>1, <1>2, <1>4 DEF BatchInv, CurInv, Handling, TypeOK
<1>8. VictimInv'
  <2>1. \A x \in batch[r] : fdOf[x] # fd
    BY <1>1, <1>2 DEF CurInv, c, fd
  <2>2. \A f \in Fd : map'[f] # v
    BY <1>1, <1>2, <1>3, <1>4 DEF MapSound, TypeOK
  <2> QED
    BY <1>1, <1>2, <1>3, <1>4, <2>1, <2>2
       DEF VictimInv, Closing, Published, TypeOK
<1>9. MapSound'
  BY <1>1, <1>2, <1>4 DEF MapSound, Published, TypeOK
<1>10. OpenIsMapped'
  BY <1>1, <1>2, <1>3, <1>4 DEF OpenIsMapped, Published, VictimInv, Closing, TypeOK, v
<1>11. NoLostEdge'
  BY <1>1, <1>2, <1>4 DEF NoLostEdge, Up, Readable, TypeOK
<1>12. PageInv'
  BY <1>1, <1>2, <1>3, <1>4, <1>5
     DEF PageInv, CurInv, Handling, TypeOK, KernelTypeOK
<1> QED
  BY <1>5, <1>6, <1>7, <1>8, <1>9, <1>10, <1>11, <1>12 DEF IInv

\* What a close() may hit: a file, a socket that the number was given to since,
\* or nothing; whichever it is, the other numbers and their sockets stay.
LEMMA CloseHits ==
  ASSUME IInv, NEW d \in Fd, SysClose(d), UNCHANGED fdOf
  PROVE  /\ KernelTypeOK'
         /\ UNCHANGED <<sent, rx>>
         /\ \A fd \in Fd : file'[fd] = IF fd = d THEN None ELSE file[fd]
         /\ \A c \in Conn : trigger'[c] # "off" =>
              /\ fdOf[c] # d
              /\ trigger'[c] = trigger[c] /\ peer'[c] = peer[c]
              /\ c \in ready => c \in ready'
         /\ \A c \in Conn : trigger[c] = "off" => trigger'[c] = "off"
<1> USE KernelAssumption, ReactorAssumption
<1>1. TypeOK /\ KernelTypeOK /\ FileInv
  BY DEF IInv, TypeOK
<1> DEFINE k == file[d]
<1>2. /\ file' = [file EXCEPT ![d] = None]
      /\ peer' = [x \in Conn |-> IF x = k THEN "gone" ELSE peer[x]]
      /\ trigger' = [x \in Conn |-> IF x = k THEN "off" ELSE trigger[x]]
      /\ ready' = ready \ {k}
      /\ UNCHANGED <<sent, rx>>
  BY DEF SysClose
<1> HIDE DEF k
<1>3. KernelTypeOK'
  BY <1>1, <1>2 DEF KernelTypeOK
<1>4. \A fd \in Fd : file'[fd] = IF fd = d THEN None ELSE file[fd]
  BY <1>1, <1>2 DEF KernelTypeOK
<1>5. \A c \in Conn : trigger[c] # "off" /\ fdOf[c] = d => c = k
  BY <1>1 DEF FileInv, k
<1>6. \A c \in Conn : trigger'[c] # "off" => c # k /\ trigger[c] # "off"
  BY <1>2
<1> QED
  BY <1>2, <1>3, <1>4, <1>5, <1>6

LEMMA CloseChannelInv ==
  ASSUME IInv, NEW r \in SubReactor, CloseChannel(r)
  PROVE  IInv'
<1> USE KernelAssumption, ReactorAssumption DEF Owned
<1>1. /\ TypeOK /\ MainInv /\ FileInv /\ BatchInv /\ CurInv
      /\ VictimInv /\ PageInv /\ MapSound /\ OpenIsMapped /\ NoLostEdge
  BY DEF IInv
<1> DEFINE v == victim[r]
           d == fdOf[v]
<1>2. /\ SysClose(d)
      /\ obj' = [obj EXCEPT ![v] = "freed"]
      /\ pc[r] = "closeChannel"
      /\ pc' = [pc EXCEPT ![r] = "closeSocket"]
      /\ UNCHANGED <<map, fdOf, home, hooked, st, mainVars, batch, cur, victim, opened, proc>>
  BY DEF CloseChannel, CloseFd, LoopAt, GoTo
<1>3. Closing(r)
  BY <1>2 DEF Closing
<1>4. /\ v \in Conn /\ d \in Fd /\ r \in Dispatch(d) /\ v # mainConn
      /\ obj[v] = "live"
      /\ \A fd \in Fd : map[fd] # v
      /\ \A c \in batch[r] : fdOf[c] # d
  BY <1>1, <1>2, <1>3 DEF VictimInv, TypeOK
<1>5. /\ KernelTypeOK'
      /\ UNCHANGED <<sent, rx>>
      /\ \A fd \in Fd : file'[fd] = IF fd = d THEN None ELSE file[fd]
      /\ \A c \in Conn : trigger'[c] # "off" =>
           /\ fdOf[c] # d
           /\ trigger'[c] = trigger[c] /\ peer'[c] = peer[c]
           /\ c \in ready => c \in ready'
      /\ \A c \in Conn : trigger[c] = "off" => trigger'[c] = "off"
  BY <1>2, <1>4, CloseHits
<1> HIDE DEF v, d
<1> USE DEF mainVars
<1>6. TypeOK'
  BY <1>1, <1>2, <1>4, <1>5 DEF TypeOK
<1>7. MainInv'
  BY <1>1, <1>2, <1>4, <1>5 DEF MainInv, TypeOK, KernelTypeOK
<1>8. FileInv'
  BY <1>1, <1>2, <1>4, <1>5 DEF IsSocket, FileInv, TypeOK, KernelTypeOK, d
<1>9. BatchInv' /\ CurInv'
  <2>1. ASSUME NEW q \in SubReactor PROVE v \notin batch[q]
    BY <1>1, <1>4, DispatchUnique DEF BatchInv, d
  <2>2. ASSUME NEW q \in SubReactor, Handling(q) PROVE cur[q] # v
    BY <1>1, <1>2, <1>4, <2>2, DispatchUnique DEF CurInv, Handling, d
  <2> QED
    BY <1>1, <1>2, <1>4, <2>1, <2>2 DEF BatchInv, CurInv, Handling, TypeOK
<1>10. VictimInv'
  <2>1. ASSUME NEW q \in SubReactor, Closing(q), victim[q] = v
        PROVE  q = r
    BY <1>1, <1>4, <2>1, DispatchUnique DEF VictimInv, d
  <2> QED
    BY <1>1, <1>2, <1>3, <1>4, <2>1 DEF VictimInv, Closing, TypeOK, v, d
<1>11. MapSound'
  BY <1>1, <1>2, <1>4 DEF MapSound, Published, TypeOK
<1>12. OpenIsMapped'
  BY <1>1, <1>2, <1>4, <1>5 DEF OpenIsMapped, Published, TypeOK
<1>13. NoLostEdge'
  BY <1>1, <1>2, <1>5 DEF NoLostEdge, Up, Readable, TypeOK
<1>14. PageInv'
  BY <1>1, <1>2, <1>3, <1>4, <1>5
     DEF PageInv, CurInv, Handling, TypeOK, KernelTypeOK
<1> QED
  BY <1>6, <1>7, <1>8, <1>9, <1>10, <1>11, <1>12, <1>13, <1>14 DEF IInv

LEMMA CloseSocketInv ==
  ASSUME IInv, NEW r \in SubReactor, CloseSocket(r)
  PROVE  IInv'
<1> USE KernelAssumption, ReactorAssumption DEF Owned
<1>1. /\ TypeOK /\ MainInv /\ FileInv /\ BatchInv /\ CurInv
      /\ VictimInv /\ PageInv /\ MapSound /\ OpenIsMapped /\ NoLostEdge
  BY DEF IInv
<1> DEFINE v == victim[r]
           d == fdOf[v]
<1>2. /\ SysClose(d)
      /\ victim' = [victim EXCEPT ![r] = None]
      /\ pc[r] = "closeSocket"
      /\ pc' = [pc EXCEPT ![r] = "tail"]
      /\ UNCHANGED <<map, objVars, mainVars, batch, cur, opened, proc>>
  BY DEF CloseSocket, LoopAt, GoTo
<1>3. Closing(r)
  BY <1>2 DEF Closing
<1>4. v \in Conn /\ d \in Fd /\ obj[v] = "freed" /\ r \in Dispatch(d)
  BY <1>1, <1>2, <1>3 DEF VictimInv, TypeOK
<1>5. /\ KernelTypeOK'
      /\ UNCHANGED <<sent, rx>>
      /\ \A fd \in Fd : file'[fd] = IF fd = d THEN None ELSE file[fd]
      /\ \A c \in Conn : trigger'[c] # "off" =>
           /\ fdOf[c] # d
           /\ trigger'[c] = trigger[c] /\ peer'[c] = peer[c]
           /\ c \in ready => c \in ready'
      /\ \A c \in Conn : trigger[c] = "off" => trigger'[c] = "off"
  BY <1>2, <1>4, CloseHits DEF objVars
<1> HIDE DEF d
<1> USE DEF objVars, mainVars
<1>6. TypeOK'
  BY <1>1, <1>2, <1>4, <1>5 DEF TypeOK
<1>7. MainInv'
  BY <1>1, <1>2, <1>4, <1>5 DEF MainInv, TypeOK, KernelTypeOK
<1>8. FileInv'
  BY <1>1, <1>2, <1>4, <1>5 DEF IsSocket, FileInv, TypeOK, KernelTypeOK
<1>9. BatchInv' /\ CurInv'
  BY <1>1, <1>2 DEF BatchInv, CurInv, Handling, TypeOK
<1>10. VictimInv' /\ MapSound'
  BY <1>1, <1>2, <1>3 DEF VictimInv, Closing, MapSound, Published, TypeOK
<1>11. OpenIsMapped'
  BY <1>1, <1>2, <1>4, <1>5 DEF OpenIsMapped, Published, TypeOK
<1>12. NoLostEdge'
  BY <1>1, <1>2, <1>5 DEF NoLostEdge, Up, Readable, TypeOK
<1>13. PageInv'
  BY <1>1, <1>2, <1>3, <1>4, <1>5
     DEF PageInv, CurInv, Handling, TypeOK, KernelTypeOK
<1> QED
  BY <1>6, <1>7, <1>8, <1>9, <1>10, <1>11, <1>12, <1>13 DEF IInv
-----------------------------------------------------------------------------
(* The page of a response. *)

LEMMA OpenPageInv ==
  ASSUME IInv, NEW r \in SubReactor, OpenPage(r)
  PROVE  IInv'
<1> USE KernelAssumption, ReactorAssumption DEF Owned
<1>1. /\ TypeOK /\ MainInv /\ FileInv /\ BatchInv /\ CurInv
      /\ VictimInv /\ PageInv /\ MapSound /\ OpenIsMapped /\ NoLostEdge
  BY DEF IInv
<1>2. PICK d \in Fd :
        /\ file[d] = None /\ file' = [file EXCEPT ![d] = File]
        /\ opened' = [opened EXCEPT ![r] = d]
        /\ pc[r] = "respond" /\ pc' = [pc EXCEPT ![r] = "page"]
        /\ UNCHANGED <<peer, sent, rx, trigger, ready,
                       map, objVars, mainVars, batch, cur, victim, proc>>
  BY DEF OpenPage, SysOpen, LoopAt, GoTo
<1> USE DEF objVars, mainVars
<1>3. TypeOK'
  BY <1>1, <1>2 DEF TypeOK, KernelTypeOK
<1>4. MainInv' /\ FileInv'
  BY <1>1, <1>2 DEF MainInv, FileInv, IsSocket, TypeOK, KernelTypeOK
<1>5. BatchInv' /\ CurInv' /\ VictimInv'
  BY <1>1, <1>2 DEF BatchInv, CurInv, VictimInv, Handling, Closing, TypeOK
<1>6. MapSound' /\ OpenIsMapped'
  BY <1>1, <1>2 DEF MapSound, OpenIsMapped, Published, TypeOK, KernelTypeOK
<1>7. NoLostEdge'
  BY <1>1, <1>2 DEF NoLostEdge, Up, Readable, TypeOK
<1>8. PageInv'
  BY <1>1, <1>2 DEF PageInv, CurInv, Handling, TypeOK, KernelTypeOK
<1> QED
  BY <1>3, <1>4, <1>5, <1>6, <1>7, <1>8 DEF IInv

\* The page is mapped, or taken for one that could not be.
LEMMA PageReadInv ==
  ASSUME IInv, NEW r \in SubReactor, MapPage(r) \/ LeavePageOpen(r)
  PROVE  IInv'
<1> USE KernelAssumption, ReactorAssumption DEF Owned
<1>1. /\ TypeOK /\ MainInv /\ FileInv /\ BatchInv /\ CurInv
      /\ VictimInv /\ PageInv /\ MapSound /\ OpenIsMapped /\ NoLostEdge
  BY DEF IInv
<1>2. PICK step \in {"mapped", "loop"} :
        /\ pc[r] = "page" /\ pc' = [pc EXCEPT ![r] = step]
        /\ cur' = IF step = "loop" THEN [cur EXCEPT ![r] = None] ELSE cur
        /\ opened' = IF step = "loop" THEN [opened EXCEPT ![r] = None] ELSE opened
        /\ UNCHANGED <<kernelVars, map, objVars, mainVars, batch, victim, proc>>
  BY DEF MapPage, LeavePageOpen, EndEvent, LoopAt, GoTo
<1> USE DEF kernelVars, objVars, mainVars
<1>3. TypeOK'
  BY <1>1, <1>2 DEF TypeOK, KernelTypeOK
<1>4. MainInv' /\ FileInv' /\ MapSound' /\ OpenIsMapped'
  BY <1>1, <1>2 DEF MainInv, FileInv, IsSocket, MapSound, OpenIsMapped, Published
<1>5. BatchInv' /\ CurInv' /\ VictimInv'
  BY <1>1, <1>2 DEF BatchInv, CurInv, VictimInv, Handling, Closing, TypeOK
<1>6. NoLostEdge'
  BY <1>1, <1>2 DEF NoLostEdge, Up, Readable, TypeOK
<1>7. PageInv'
  BY <1>1, <1>2 DEF PageInv, TypeOK
<1> QED
  BY <1>3, <1>4, <1>5, <1>6, <1>7 DEF IInv

\* The close may take a client's socket from any thread.
LEMMA ClosePageInv ==
  ASSUME IInv, NEW r \in SubReactor, ClosePage(r)
  PROVE  IInv'
<1> USE KernelAssumption, ReactorAssumption DEF Owned
<1>1. /\ TypeOK /\ MainInv /\ FileInv /\ BatchInv /\ CurInv
      /\ VictimInv /\ PageInv /\ MapSound /\ OpenIsMapped /\ NoLostEdge
  BY DEF IInv
<1> DEFINE d == opened[r]
<1>2. /\ SysClose(d)
      /\ opened' = [opened EXCEPT ![r] = None]
      /\ pc[r] = "mapped" /\ pc' = [pc EXCEPT ![r] = "answer"]
      /\ UNCHANGED <<map, objVars, mainVars, batch, cur, victim, proc>>
  BY DEF ClosePage, LoopAt, GoTo
<1>3. d \in Fd
  BY <1>1, <1>2 DEF PageInv
<1>4. /\ KernelTypeOK'
      /\ UNCHANGED <<sent, rx>>
      /\ \A fd \in Fd : file'[fd] = IF fd = d THEN None ELSE file[fd]
      /\ \A c \in Conn : trigger'[c] # "off" =>
           /\ fdOf[c] # d
           /\ trigger'[c] = trigger[c] /\ peer'[c] = peer[c]
           /\ c \in ready => c \in ready'
      /\ \A c \in Conn : trigger[c] = "off" => trigger'[c] = "off"
  BY <1>2, <1>3, CloseHits DEF objVars
<1> HIDE DEF d
<1> USE DEF objVars, mainVars
<1>5. TypeOK'
  BY <1>1, <1>2, <1>4 DEF TypeOK
<1>6. MainInv'
  BY <1>1, <1>2, <1>4 DEF MainInv, TypeOK, KernelTypeOK
<1>7. FileInv'
  BY <1>1, <1>2, <1>4 DEF IsSocket, FileInv, TypeOK, KernelTypeOK
<1>8. BatchInv' /\ CurInv' /\ VictimInv' /\ MapSound'
  BY <1>1, <1>2 DEF BatchInv, CurInv, VictimInv, Handling, Closing, MapSound, Published, TypeOK
<1>9. OpenIsMapped'
  BY <1>1, <1>2, <1>4 DEF OpenIsMapped, Published, TypeOK
<1>10. NoLostEdge'
  BY <1>1, <1>2, <1>4 DEF NoLostEdge, Up, Readable, TypeOK
<1>11. PageInv'
  BY <1>1, <1>2, <1>4 DEF PageInv, CurInv, Handling, TypeOK, KernelTypeOK
<1> QED
  BY <1>5, <1>6, <1>7, <1>8, <1>9, <1>10, <1>11 DEF IInv
-----------------------------------------------------------------------------
(* Clients, and the whole next-state relation. *)

LEMMA ClientsInv ==
  ASSUME IInv, Clients
  PROVE  IInv'
<1> USE KernelAssumption, ReactorAssumption DEF Owned
<1>1. /\ TypeOK /\ MainInv /\ FileInv /\ BatchInv /\ CurInv
      /\ VictimInv /\ PageInv /\ MapSound /\ OpenIsMapped /\ NoLostEdge
  BY DEF IInv
<1>2. PICK c \in Conn : Client(c)
  BY DEF Clients
<1>3. UNCHANGED <<file, trigger, map, objVars, mainVars, loopVars, proc>>
  BY <1>2 DEF Clients, Client, Connect, Send, Hangup
<1>4. KernelTypeOK'
  <2>1. CASE Connect(c)
    BY <1>1, <2>1 DEF Connect, TypeOK, KernelTypeOK
  <2>2. CASE Send(c)
    BY <1>1, <2>2 DEF Send, Signal, TypeOK, KernelTypeOK
  <2>3. CASE Hangup(c)
    BY <1>1, <2>3 DEF Hangup, Signal, TypeOK, KernelTypeOK
  <2> QED
    BY <1>2, <2>1, <2>2, <2>3 DEF Client
<1> USE DEF objVars, mainVars, loopVars
<1>5. TypeOK'
  BY <1>1, <1>3, <1>4 DEF TypeOK
<1>6. MainInv' /\ FileInv' /\ BatchInv' /\ CurInv'
  BY <1>1, <1>3 DEF IsSocket, MainInv, FileInv, BatchInv, CurInv, Handling
<1>7. VictimInv' /\ MapSound' /\ OpenIsMapped'
  BY <1>1, <1>3 DEF VictimInv, Closing, MapSound, OpenIsMapped, Published
<1>8. ASSUME NEW x \in Conn, trigger[x] # "off", Readable(x)'
      PROVE  (Readable(x) /\ x \notin ready) \/ x \in ready'
  <2>1. CASE Connect(c)
    BY <1>1, <1>8, <2>1 DEF Connect, Readable, TypeOK, KernelTypeOK
  <2>2. CASE Send(c)
    BY <1>1, <1>8, <2>2 DEF Send, Signal, Readable, TypeOK, KernelTypeOK
  <2>3. CASE Hangup(c)
    BY <1>1, <1>8, <2>3 DEF Hangup, Signal, Readable, TypeOK, KernelTypeOK
  <2> QED
    BY <1>2, <2>1, <2>2, <2>3 DEF Client
<1>9. NoLostEdge'
  BY <1>1, <1>3, <1>8 DEF NoLostEdge, Up
<1>10. PageInv'
  BY <1>1, <1>2, <1>3, <1>4, <1>5
     DEF PageInv, CurInv, Handling, TypeOK, KernelTypeOK
<1> QED
  BY <1>5, <1>6, <1>7, <1>9, <1>10 DEF IInv

LEMMA NextInv == IInv /\ [Next]_vars => IInv'
<1> SUFFICES ASSUME IInv, [Next]_vars PROVE IInv'
  OBVIOUS
<1>1. CASE Clients
  BY <1>1, ClientsInv
<1>2. CASE Main
  <2>1. ASSUME NEW c \in Conn, AcceptNewConnection(c) PROVE IInv'
    BY <2>1, AcceptInv
  <2>2. CASE AcceptFails
    BY <2>2, DieInv DEF AcceptFails
  <2>3. CASE EnableReading \/ UseET
    BY <2>3, EpollCtlInv
  <2>4. CASE EpollCtlFails
    BY <2>4, DieInv DEF EpollCtlFails
  <2>5. CASE SetCallbacks
    BY <2>5, SetCallbacksInv
  <2>6. CASE Publish
    BY <2>6, PublishInv
  <2> QED
    BY <1>2, <2>1, <2>2, <2>3, <2>4, <2>5, <2>6 DEF Main
<1>3. CASE MapRace
  BY <1>3, DieInv DEF MapRace
<1>4. ASSUME NEW r \in SubReactor, Loop(r) PROVE IInv'
  <2>1. CASE GetPoll(r)
    BY <2>1, GetPollInv
  <2>2. CASE HandleEvent(r)
    BY <2>2, HandleEventInv
  <2>3. CASE ReadAsserts(r)
    BY <2>3, DieInv DEF ReadAsserts
  <2>4. CASE BadFunctionCall(r)
    BY <2>4, LoopEndsInv DEF BadFunctionCall, LoopAt
  <2>5. CASE TornCallback(r)
    BY <2>5, DieInv DEF TornCallback
  <2>6. CASE ReadData(r)
    BY <2>6, ReadDataInv
  <2>7. CASE ReadAgain(r)
    BY <2>7, ReadAgainInv
  <2>8. CASE ReadCloses(r) \/ RespondFails(r)
    BY <2>8, MarkClosedInv
  <2>9. CASE NoAnswer(r) \/ Respond(r) \/ LookupMisses(r) \/ Tail(r)
    BY <2>9, EventOverInv
  <2>10. CASE RespondKilled(r)
    BY <2>10, DieInv DEF RespondKilled
  <2>11. CASE LookupErases(r)
    BY <2>11, LookupErasesInv
  <2>12. CASE CloseChannel(r)
    BY <2>12, CloseChannelInv
  <2>13. CASE CloseSocket(r)
    BY <2>13, CloseSocketInv
  <2>14. CASE StaleRevents(r)
    BY <2>14, LoopEndsInv, DieInv DEF StaleRevents, LoopAt
  <2>15. CASE CallbackThrows(r)
    BY <2>15, LoopEndsInv DEF CallbackThrows, LoopAt
  <2>16. CASE OpenPage(r)
    BY <2>16, OpenPageInv
  <2>17. CASE MapPage(r) \/ LeavePageOpen(r)
    BY <2>17, PageReadInv
  <2>18. CASE MapFails(r)
    BY <2>18, DieInv DEF MapFails
  <2>19. CASE ClosePage(r)
    BY <2>19, ClosePageInv
  <2> QED
    BY <1>4, <2>1, <2>2, <2>3, <2>4, <2>5, <2>6, <2>7, <2>8, <2>9, <2>10,
       <2>11, <2>12, <2>13, <2>14, <2>15, <2>16, <2>17, <2>18, <2>19 DEF Loop
<1>5. CASE UNCHANGED vars
  BY <1>5 DEF IsSocket, vars, IInv, TypeOK, KernelTypeOK, MainInv, FileInv, BatchInv, CurInv,
              VictimInv, PageInv, Owned, MapSound, OpenIsMapped, NoLostEdge, Up, Readable,
              Handling, Closing, Published,
              kernelVars, objVars, mainVars, loopVars
<1> QED
  BY <1>1, <1>2, <1>3, <1>4, <1>5 DEF Next

-----------------------------------------------------------------------------
(* Theorems. *)

\* Every reachable state satisfies the inductive invariant: the threads that
\* share _map, the Connections and the descriptor table without a lock keep
\* them in agreement as long as the process runs.
THEOREM Invariance == Spec => []IInv
<1>1. Init => IInv
  BY InitInv
<1>2. IInv /\ [Next]_vars => IInv'
  BY NextInv
<1> QED
  BY <1>1, <1>2, PTL DEF Spec

\* Each variable keeps to its set, in particular no sub-reactor outside the
\* range of _subReactors is ever chosen by handleConnection.
THEOREM TypeCorrect == Spec => []TypeOK
<1>1. IInv => TypeOK
  BY DEF IInv
<1> QED
  BY <1>1, Invariance, PTL

\* WebServer::_map holds no dangling pointer and no entry under a foreign
\* descriptor, whatever deleteConnection and handleConnection interleave.
THEOREM MapIsSound == Spec => []MapSound
<1>1. IInv => MapSound
  BY DEF IInv
<1> QED
  BY <1>1, Invariance, PTL

\* An open, published connection is found by deleteConnection.
THEOREM OpenConnectionIsMapped == Spec => []OpenIsMapped
<1>1. IInv => OpenIsMapped
  BY DEF IInv
<1> QED
  BY <1>1, Invariance, PTL

\* Edge-triggered epoll with a read loop that drains the socket never leaves
\* input behind that nobody will be told about.
THEOREM EdgesAreKept == Spec => []NoLostEdge
<1>1. IInv => NoLostEdge
  BY DEF IInv
<1> QED
  BY <1>1, Invariance, PTL

\* Every step but the close() of a page leaves the sockets of clients that are
\* being served: a second close of ~Socket is made by the thread that serves
\* whatever clients have its number, and not while it serves one.
LEMMA StepKeepsSockets ==
  ASSUME IInv, [Next]_vars, NEW r \in SubReactor,
         Handling(r), file[fdOf[cur[r]]] = cur[r]
  PROVE  \/ file'[fdOf[cur[r]]] = cur[r]
         \/ \E q \in SubReactor \ {r} : ClosePage(q) /\ opened[q] = fdOf[cur[r]]
<1> USE KernelAssumption, ReactorAssumption
<1> DEFINE d == fdOf[cur[r]]
<1>1. cur[r] \in Conn /\ d \in Fd /\ r \in Dispatch(d)
  BY HandlingOwn
<1>2. /\ file \in [Fd -> Conn \cup {File, None}]
      /\ VictimInv /\ PageInv /\ cur[r] # None
  BY <1>1 DEF IInv, TypeOK, KernelTypeOK
<1> SUFFICES ASSUME file' # file
             PROVE  \/ file'[d] = cur[r]
                    \/ \E q \in SubReactor \ {r} : ClosePage(q) /\ opened[q] = d
  OBVIOUS
<1> HIDE DEF d
<1>3. ASSUME NEW c \in Conn, AcceptNewConnection(c)
      PROVE  file'[d] = cur[r]
  BY <1>1, <1>2, <1>3 DEF AcceptNewConnection, SysAccept, d
<1>4. ASSUME NEW q \in SubReactor, OpenPage(q)
      PROVE  file'[d] = cur[r]
  BY <1>1, <1>2, <1>4 DEF OpenPage, SysOpen, d
<1>5. ASSUME NEW q \in SubReactor, ClosePage(q), opened[q] # d
      PROVE  file'[d] = cur[r]
  BY <1>1, <1>2, <1>5 DEF ClosePage, SysClose, d
<1>6. ASSUME NEW q \in SubReactor, ClosePage(q), opened[q] = d
      PROVE  q # r
  BY <1>2, <1>6 DEF ClosePage, LoopAt, PageInv, d
<1>7. ASSUME NEW q \in SubReactor, CloseChannel(q) \/ CloseSocket(q)
      PROVE  file'[d] = cur[r]
  <2>1. Closing(q) /\ ~Handling(q) /\ SysClose(fdOf[victim[q]])
    BY <1>7 DEF CloseChannel, CloseFd, CloseSocket, LoopAt, Closing, Handling
  <2>2. q \in Dispatch(fdOf[victim[q]])
    BY <1>2, <2>1 DEF VictimInv
  <2>3. fdOf[victim[q]] # d
    BY <1>1, <2>1, <2>2, DispatchUnique
  <2> QED
    BY <1>1, <1>2, <2>1, <2>3 DEF SysClose, d
<1>8. ASSUME NEW q \in SubReactor, Loop(q)
      PROVE  OpenPage(q) \/ ClosePage(q) \/ CloseChannel(q) \/ CloseSocket(q)
  BY <1>8 DEF Loop, GetPoll, SysEpollWait, HandleEvent, ReadAsserts, BadFunctionCall,
     LoopEnds, TornCallback, ReadData, SysReadData, ReadAgain, ReadCloses, NoAnswer,
     MapPage, MapFails, LeavePageOpen, Respond, RespondFails, RespondKilled,
     CallbackThrows, LookupMisses, LookupErases, Tail, StaleRevents, Die, kernelVars
<1>9. ASSUME Main
      PROVE  \E c \in Conn : AcceptNewConnection(c)
  BY <1>9 DEF Main, AcceptFails, EnableReading, UseET, SysEpollCtl, EpollCtlFails,
     SetCallbacks, Publish, Die, kernelVars
<1>10. ~Clients /\ ~MapRace
  BY DEF Clients, Client, Connect, Send, Hangup, MapRace, Die, kernelVars
<1>11. Main \/ \E q \in SubReactor : Loop(q)
  BY <1>10 DEF Next, vars, kernelVars
<1> QED
  BY <1>3, <1>4, <1>5, <1>6, <1>7, <1>8, <1>9, <1>11

\* A client whose event is being handled loses its socket to nothing but the
\* close() of another thread's page (HttpResponse.cpp:137), in spite of the
\* descriptors that ~Channel and ~Socket close twice.
THEOREM SocketsAreKept == Spec => SocketKept
<1>1. IInv /\ [Next]_vars =>
        [\A r \in SubReactor :
           Handling(r) /\ file[fdOf[cur[r]]] = cur[r] =>
             \/ file'[fdOf[cur[r]]] = cur[r]
             \/ \E q \in SubReactor \ {r} : ClosePage(q) /\ opened[q] = fdOf[cur[r]]]_vars
  BY StepKeepsSockets
<1> QED
  BY <1>1, Invariance, PTL DEF Spec, SocketKept

\* epoll reports no Channel that has been freed.
THEOREM ChannelsAreLive == Spec => []NoFreedChannel
<1>1. IInv => NoFreedChannel
  <2> SUFFICES ASSUME IInv, NEW c \in Conn,
                      trigger[c] # "off" \/ \E r \in SubReactor : c \in batch[r]
               PROVE  obj[c] = "live"
    BY DEF NoFreedChannel
  <2>1. CASE trigger[c] # "off"
    <3>1. fdOf[c] \in Fd /\ file[fdOf[c]] = c
      BY <2>1 DEF IInv, TypeOK, FileInv
    <3> QED
      BY <3>1 DEF IsSocket, IInv, FileInv
  <2>2. CASE \E r \in SubReactor : c \in batch[r]
    BY <2>2 DEF IInv, BatchInv, Owned
  <2> QED
    BY <2>1, <2>2
<1> QED
  BY <1>1, Invariance, PTL
=============================================================================
