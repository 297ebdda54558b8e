----------------------------- MODULE BlockQueue -----------------------------
(***************************************************************************)
(* The blocking queue of the logger: a deque, one mutex and two condition  *)
(* variables.  A step is what one thread does while it holds the mutex, or *)
(* one notification sent without it.                                       *)
(*                                                                         *)
(* A condition variable is the set of threads asleep on it.  A thread that *)
(* was notified, or woke up spuriously, is in the set of those that still  *)
(* have to take the mutex and look again; all others are outside the queue *)
(* and may call any operation.                                             *)
(***************************************************************************)
EXTENDS Naturals, Sequences, FiniteSets

CONSTANTS Producer,   \* threads that push
          Consumer,   \* threads that pop
          Item,       \* what they pass on
          Capacity,   \* _capacity
          None        \* "no item"

ASSUME QueueAssumption == /\ Capacity \in Nat \ {0}
                          /\ IsFiniteSet(Producer) /\ IsFiniteSet(Consumer)
                          /\ None \notin {"back", "front"} \X Item

VARIABLES queue,      \* _queue
          isClose,    \* _isClose
          asleepP,    \* producers asleep on _producerCond
          awakeP,     \* ... and woken, not yet running again
          arg,        \* the end and the item a producer inside push has
          asleepC,    \* consumers asleep on _consumerCond
          awakeC,     \* ... and woken, not yet running again
          closing     \* notifications close() has yet to send

producerVars == <<asleepP, awakeP, arg>>
consumerVars == <<asleepC, awakeC>>
vars == <<queue, isClose, producerVars, consumerVars, closing>>

TypeOK ==
  /\ queue \in Seq(Item)
  /\ isClose \in BOOLEAN
  /\ asleepP \subseteq Producer /\ awakeP \subseteq Producer
  /\ arg \in [Producer -> ({"back", "front"} \X Item) \cup {None}]
  /\ asleepC \subseteq Consumer /\ awakeC \subseteq Consumer
  /\ closing \in {"no", "consumers", "producers"}

Init ==
  /\ queue = <<>>
  /\ isClose = FALSE
  /\ asleepP = {} /\ awakeP = {}
  /\ arg = [p \in Producer |-> None]
  /\ asleepC = {} /\ awakeC = {}
  /\ closing = "no"

\* Mutant: one item more than the capacity.
FullBeyond == Len(queue) > Capacity

IsFull == Len(queue) >= Capacity

\* Mutant: a push wakes nobody.
NotifyNoConsumer == UNCHANGED consumerVars

\* notify_one on _consumerCond; it has no effect when nobody is asleep.
NotifyConsumer ==
  \/ asleepC = {} /\ UNCHANGED consumerVars
  \/ \E c \in asleepC : /\ asleepC' = asleepC \ {c}
                        /\ awakeC' = awakeC \cup {c}

-----------------------------------------------------------------------------
(* push_back and push_front. *)

\* The thread is outside the queue, or in this very call and awake again.
InPush(p, end, x) == p \notin asleepP /\ (p \in awakeP => arg[p] = <<end, x>>)

PushWaits(p, end, x) ==
  /\ InPush(p, end, x)
  /\ IsFull
  /\ asleepP' = asleepP \cup {p}
  /\ awakeP' = awakeP \ {p}
  /\ arg' = [arg EXCEPT ![p] = <<end, x>>]
  /\ UNCHANGED <<queue, isClose, consumerVars, closing>>

PushItem(p, end, x) ==
  /\ InPush(p, end, x)
  /\ ~IsFull
  /\ queue' = IF end = "back" THEN Append(queue, x) ELSE <<x>> \o queue
  /\ NotifyConsumer
  /\ awakeP' = awakeP \ {p}
  /\ arg' = [arg EXCEPT ![p] = None]
  /\ UNCHANGED <<isClose, asleepP, closing>>

Push(p) == \E end \in {"back", "front"}, x \in Item :
             PushWaits(p, end, x) \/ PushItem(p, end, x)

-----------------------------------------------------------------------------
(* pop. *)

PopWaits(c) ==
  /\ c \notin asleepC
  /\ c \in awakeC => ~isClose
  /\ queue = <<>>
  /\ asleepC' = asleepC \cup {c}
  /\ awakeC' = awakeC \ {c}
  /\ UNCHANGED <<queue, isClose, producerVars, closing>>

\* Mutant: notify_all of the producers at close, but none from pop.
NotifyNoProducer == UNCHANGED <<asleepP, awakeP>>

NotifyProducer ==
  \/ asleepP = {} /\ UNCHANGED <<asleepP, awakeP>>
  \/ \E p \in asleepP : /\ asleepP' = asleepP \ {p}
                        /\ awakeP' = awakeP \cup {p}

\* _isClose is looked at only after a wait, never on entry.
PopItem(c) ==
  /\ c \notin asleepC
  /\ c \in awakeC => ~isClose
  /\ queue # <<>>
  /\ queue' = Tail(queue)
  /\ NotifyProducer
  /\ awakeC' = awakeC \ {c}
  /\ UNCHANGED <<isClose, arg, asleepC, closing>>

\* pop returns false.
PopFails(c) ==
  /\ c \in awakeC
  /\ isClose
  /\ awakeC' = awakeC \ {c}
  /\ UNCHANGED <<queue, isClose, producerVars, asleepC, closing>>

Pop(c) == PopWaits(c) \/ PopItem(c) \/ PopFails(c)

-----------------------------------------------------------------------------
(* flush, close, clear; spurious wake-ups. *)

Flush ==
  /\ NotifyConsumer
  /\ UNCHANGED <<queue, isClose, producerVars, closing>>

Close ==
  /\ closing = "no"
  /\ queue' = <<>>
  /\ isClose' = TRUE
  /\ closing' = "consumers"
  /\ UNCHANGED <<producerVars, consumerVars>>

\* Mutant: notify_one where close() calls notify_all.
WakeOneConsumer == NotifyConsumer

WakeAllConsumers ==
  /\ asleepC' = {}
  /\ awakeC' = awakeC \cup asleepC

CloseNotifies ==
  \/ /\ closing = "consumers"
     /\ WakeAllConsumers
     /\ closing' = "producers"
     /\ UNCHANGED <<queue, isClose, producerVars>>
  \/ /\ closing = "producers"
     /\ asleepP' = {}
     /\ awakeP' = awakeP \cup asleepP
     /\ closing' = "no"
     /\ UNCHANGED <<queue, isClose, arg, consumerVars>>

\* Never called by the server.
Clear ==
  /\ queue' = <<>>
  /\ UNCHANGED <<isClose, producerVars, consumerVars, closing>>

SpuriousWakeup ==
  /\ \/ \E c \in asleepC : /\ asleepC' = asleepC \ {c}
                           /\ awakeC' = awakeC \cup {c}
                           /\ UNCHANGED producerVars
     \/ \E p \in asleepP : /\ asleepP' = asleepP \ {p}
                           /\ awakeP' = awakeP \cup {p}
                           /\ UNCHANGED <<arg, consumerVars>>
  /\ UNCHANGED <<queue, isClose, closing>>

\* What the server does with its queue, and every operation the class has.
Next ==
  \/ \E p \in Producer : Push(p)
  \/ \E c \in Consumer : Pop(c)
  \/ Flush \/ Close \/ CloseNotifies \/ SpuriousWakeup

ApiNext == Next \/ Clear

Spec == Init /\ [][Next]_vars
ApiSpec == Init /\ [][ApiNext]_vars

\* Woken threads run again, close() goes on, and consumers keep calling pop.
FairSpec ==
  /\ Spec
  /\ \A p \in Producer : WF_vars(p \in awakeP /\ Push(p))
  /\ \A c \in Consumer : WF_vars(Pop(c))
  /\ WF_vars(CloseNotifies)
-----------------------------------------------------------------------------
(* Properties. *)

\* The queue never outgrows _capacity, however many producers were woken.
Bounded == Len(queue) <= Capacity

\* No wake-up is lost: before close(), as long as a consumer sleeps, enough
\* others are awake to take every item that is queued (notify_one in push).
NoLostItem ==
  ~isClose /\ asleepC # {} => Len(queue) <= Cardinality(awakeC)

\* ... and as long as a producer sleeps, enough others are awake to fill every
\* free slot (notify_one in pop), unless close() has yet to wake them all.
NoLostSlot ==
  closing = "no" /\ asleepP # {} => Capacity - Len(queue) <= Cardinality(awakeP)

\* A thread is asleep or awake in its call, never both, and a producer in a
\* call still has its item.
InCall ==
  /\ asleepP \cap awakeP = {} /\ asleepC \cap awakeC = {}
  /\ \A p \in Producer : arg[p] # None <=> p \in asleepP \cup awakeP

QInv == TypeOK /\ InCall /\ Bounded /\ NoLostItem

SlotInv == QInv /\ NoLostSlot

\* Producers are never all blocked for good while consumers keep popping.
PushesGoOn == (asleepP = Producer) ~> (asleepP # Producer)

\* A consumer asleep when close() takes the lock returns from pop.
CloseReleases == \A c \in Consumer :
  (closing = "consumers" /\ c \in asleepC) ~> (c \notin asleepC \cup awakeC)

Fifo == INSTANCE BoundedFifo WITH items <- queue, closed <- isClose
FifoSpec == Fifo!Spec
=============================================================================
