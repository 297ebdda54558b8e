-------------------------- MODULE BlockQueue_proof --------------------------
(***************************************************************************)
(* Proofs about BlockQueue, for any number of threads and any capacity: it *)
(* never outgrows its capacity, loses no wake-up, and implements           *)
(* BoundedFifo.                                                            *)
(***************************************************************************)
EXTENDS BlockQueue, FiniteSetTheorems, TLAPS

\* Waking one of a set of sleepers.
LEMMA WakeOne ==
  ASSUME NEW S, IsFiniteSet(S), NEW awake \in SUBSET S, NEW t \in S, t \notin awake
  PROVE  /\ Cardinality(awake) \in Nat
         /\ Cardinality(awake \cup {t}) = Cardinality(awake) + 1
BY FS_Subset, FS_CardinalityType, FS_AddElement

\* A woken thread goes its way.
LEMMA RunOne ==
  ASSUME NEW S, IsFiniteSet(S), NEW awake \in SUBSET S, NEW t
  PROVE  /\ Cardinality(awake) \in Nat
         /\ Cardinality(awake \ {t}) = IF t \in awake THEN Cardinality(awake) - 1
                                      ELSE Cardinality(awake)
<1>1. IsFiniteSet(awake)
  BY FS_Subset
<1>2. t \notin awake => awake \ {t} = awake
  OBVIOUS
<1> QED
  BY <1>1, <1>2, FS_CardinalityType, FS_RemoveElement

\* A notification wakes a sleeper, if there is one.
LEMMA NotifyConsumerWakes ==
  ASSUME TypeOK, InCall, NotifyConsumer
  PROVE  /\ asleepC' \subseteq Consumer /\ awakeC' \subseteq Consumer
         /\ asleepC' \cap awakeC' = {}
         /\ asleepC' \cup awakeC' = asleepC \cup awakeC
         /\ asleepC' \subseteq asleepC
         /\ Cardinality(awakeC) \in Nat
         /\ Cardinality(awakeC') = IF asleepC = {} THEN Cardinality(awakeC)
                                  ELSE Cardinality(awakeC) + 1
<1> USE QueueAssumption DEF TypeOK, InCall
<1>1. Cardinality(awakeC) \in Nat
  BY FS_Subset, FS_CardinalityType
<1>2. CASE asleepC = {}
  BY <1>1, <1>2 DEF NotifyConsumer, consumerVars
<1>3. CASE asleepC # {}
  <2>1. PICK c \in asleepC : asleepC' = asleepC \ {c} /\ awakeC' = awakeC \cup {c}
    BY <1>3 DEF NotifyConsumer
  <2>2. c \in Consumer /\ c \notin awakeC
    BY <2>1
  <2>3. Cardinality(awakeC') = Cardinality(awakeC) + 1
    BY <2>1, <2>2, WakeOne
  <2> QED
    BY <1>1, <1>3, <2>1, <2>2, <2>3
<1> QED
  BY <1>2, <1>3

LEMMA NotifyProducerWakes ==
  ASSUME TypeOK, InCall, NotifyProducer
  PROVE  /\ asleepP' \subseteq Producer /\ awakeP' \subseteq Producer
         /\ asleepP' \cap awakeP' = {}
         /\ asleepP' \cup awakeP' = asleepP \cup awakeP
         /\ asleepP' \subseteq asleepP
         /\ Cardinality(awakeP) \in Nat
         /\ Cardinality(awakeP') = IF asleepP = {} THEN Cardinality(awakeP)
                                  ELSE Cardinality(awakeP) + 1
<1> USE QueueAssumption DEF TypeOK, InCall
<1>1. Cardinality(awakeP) \in Nat
  BY FS_Subset, FS_CardinalityType
<1>2. CASE asleepP = {}
  BY <1>1, <1>2 DEF NotifyProducer
<1>3. CASE asleepP # {}
  <2>1. PICK p \in asleepP : asleepP' = asleepP \ {p} /\ awakeP' = awakeP \cup {p}
    BY <1>3 DEF NotifyProducer
  <2>2. p \in Producer /\ p \notin awakeP
    BY <2>1
  <2>3. Cardinality(awakeP') = Cardinality(awakeP) + 1
    BY <2>1, <2>2, WakeOne
  <2> QED
    BY <1>1, <1>3, <2>1, <2>2, <2>3
<1> QED
  BY <1>2, <1>3

\* Sizes of the sets of woken threads.
LEMMA Sizes ==
  ASSUME TypeOK
  PROVE  /\ Cardinality(awakeC) \in Nat /\ Cardinality(awakeP) \in Nat
         /\ Len(queue) \in Nat
         /\ Capacity \in Nat
BY QueueAssumption, FS_Subset, FS_CardinalityType DEF TypeOK
-----------------------------------------------------------------------------
(* Each operation preserves the invariant of the whole class. *)

LEMMA QInit == Init => QInv
<1> SUFFICES ASSUME Init PROVE QInv
  OBVIOUS
<1> USE QueueAssumption DEF Init
<1>1. queue \in Seq(Item) /\ Len(queue) = 0
  OBVIOUS
<1>2. TypeOK /\ InCall
  BY <1>1 DEF TypeOK, InCall
<1>3. Bounded /\ NoLostItem
  BY <1>1 DEF Bounded, NoLostItem
<1> QED
  BY <1>2, <1>3 DEF QInv

LEMMA PushWaitsStep ==
  ASSUME QInv, NEW p \in Producer, NEW end \in {"back", "front"}, NEW x \in Item,
         PushWaits(p, end, x)
  PROVE  QInv' /\ (NoLostSlot => NoLostSlot')
<1> USE QueueAssumption DEF QInv, PushWaits, consumerVars
<1>1. TypeOK' /\ InCall'
  BY DEF TypeOK, InCall, InPush
<1>2. Bounded' /\ NoLostItem'
  BY DEF Bounded, NoLostItem
<1>3. NoLostSlot'
  <2>1. Cardinality(awakeP') \in Nat
    BY <1>1, FS_Subset, FS_CardinalityType DEF TypeOK
  <2> QED
    BY <2>1, Sizes DEF NoLostSlot, IsFull, TypeOK
<1> QED
  BY <1>1, <1>2, <1>3

LEMMA PushItemStep ==
  ASSUME QInv, NEW p \in Producer, NEW end \in {"back", "front"}, NEW x \in Item,
         PushItem(p, end, x)
  PROVE  QInv' /\ (NoLostSlot => NoLostSlot')
<1> USE QueueAssumption DEF QInv
<1>1. /\ asleepC' \subseteq Consumer /\ awakeC' \subseteq Consumer
      /\ asleepC' \cap awakeC' = {}
      /\ asleepC' \subseteq asleepC
      /\ Cardinality(awakeC) \in Nat
      /\ Cardinality(awakeC') = IF asleepC = {} THEN Cardinality(awakeC)
                               ELSE Cardinality(awakeC) + 1
  BY NotifyConsumerWakes DEF PushItem
<1>2. queue' \in Seq(Item) /\ Len(queue') = Len(queue) + 1 /\ Len(queue) \in Nat
  BY DEF PushItem, TypeOK
<1>3. TypeOK' /\ InCall'
  BY <1>1, <1>2 DEF PushItem, InPush, TypeOK, InCall
<1>4. Bounded'
  BY <1>2 DEF PushItem, IsFull, Bounded
<1>5. NoLostItem'
  BY <1>1, <1>2 DEF PushItem, NoLostItem
<1>6. NoLostSlot => NoLostSlot'
  <2>1. Cardinality(awakeP \ {p}) = IF p \in awakeP THEN Cardinality(awakeP) - 1
                                   ELSE Cardinality(awakeP)
    BY RunOne DEF TypeOK
  <2> QED
    BY <1>2, <2>1, Sizes DEF PushItem, NoLostSlot
<1> QED
  BY <1>3, <1>4, <1>5, <1>6

LEMMA PopStep ==
  ASSUME QInv, NEW c \in Consumer, Pop(c)
  PROVE  QInv' /\ (NoLostSlot => NoLostSlot')
<1> USE QueueAssumption DEF QInv
<1>1. CASE PopWaits(c)
  <2> USE <1>1 DEF PopWaits, producerVars
  <2>1. TypeOK' /\ InCall'
    BY DEF TypeOK, InCall
  <2>2. Cardinality(awakeC') \in Nat
    BY <2>1, FS_Subset, FS_CardinalityType DEF TypeOK
  <2>3. Bounded' /\ NoLostItem' /\ (NoLostSlot => NoLostSlot')
    BY <2>2 DEF Bounded, NoLostItem, NoLostSlot
  <2> QED
    BY <2>1, <2>3
<1>2. CASE PopItem(c)
  <2>1. /\ asleepP' \subseteq Producer /\ awakeP' \subseteq Producer
        /\ asleepP' \cap awakeP' = {}
        /\ asleepP' \cup awakeP' = asleepP \cup awakeP
        /\ asleepP' \subseteq asleepP
        /\ Cardinality(awakeP) \in Nat
        /\ Cardinality(awakeP') = IF asleepP = {} THEN Cardinality(awakeP)
                                 ELSE Cardinality(awakeP) + 1
    BY <1>2, NotifyProducerWakes DEF PopItem
  <2>2. queue' \in Seq(Item) /\ Len(queue') = Len(queue) - 1 /\ Len(queue) \in Nat \ {0}
    BY <1>2 DEF PopItem, TypeOK
  <2>3. TypeOK' /\ InCall'
    BY <1>2, <2>1, <2>2 DEF PopItem, TypeOK, InCall
  <2>4. Cardinality(awakeC \ {c}) = IF c \in awakeC THEN Cardinality(awakeC) - 1
                                   ELSE Cardinality(awakeC)
    BY RunOne DEF TypeOK
  <2>5. Bounded'
    BY <2>2 DEF Bounded
  <2>6. NoLostItem'
    BY <1>2, <2>2, <2>4, Sizes DEF PopItem, NoLostItem
  <2>7. NoLostSlot => NoLostSlot'
    BY <1>2, <2>1, <2>2 DEF PopItem, NoLostSlot
  <2> QED
    BY <2>3, <2>5, <2>6, <2>7
<1>3. CASE PopFails(c)
  BY <1>3 DEF PopFails, producerVars, TypeOK, InCall, Bounded, NoLostItem, NoLostSlot
<1> QED
  BY <1>1, <1>2, <1>3 DEF Pop

LEMMA FlushStep ==
  ASSUME QInv, Flush
  PROVE  QInv' /\ (NoLostSlot => NoLostSlot')
<1> USE QueueAssumption DEF QInv, Flush, producerVars
<1>1. /\ asleepC' \subseteq Consumer /\ awakeC' \subseteq Consumer
      /\ asleepC' \cap awakeC' = {}
      /\ asleepC' \subseteq asleepC
      /\ Cardinality(awakeC) \in Nat
      /\ Cardinality(awakeC') = IF asleepC = {} THEN Cardinality(awakeC)
                               ELSE Cardinality(awakeC) + 1
  BY NotifyConsumerWakes
<1>2. TypeOK' /\ InCall'
  BY <1>1 DEF TypeOK, InCall
<1>3. Bounded' /\ (NoLostSlot => NoLostSlot')
  BY DEF Bounded, NoLostSlot
<1>4. NoLostItem'
  BY <1>1, Sizes DEF NoLostItem
<1> QED
  BY <1>2, <1>3, <1>4

LEMMA CloseStep ==
  ASSUME QInv, Close \/ CloseNotifies
  PROVE  QInv' /\ (NoLostSlot => NoLostSlot')
<1> USE QueueAssumption DEF QInv, producerVars, consumerVars
<1>1. CASE Close
  BY <1>1 DEF Close, TypeOK, InCall, Bounded, NoLostItem, NoLostSlot
<1>2. CASE CloseNotifies
  <2>1. TypeOK' /\ InCall'
    BY <1>2 DEF CloseNotifies, WakeAllConsumers, TypeOK, InCall
  <2>2. Bounded' /\ NoLostItem' /\ (NoLostSlot => NoLostSlot')
    BY <1>2 DEF CloseNotifies, WakeAllConsumers, TypeOK, Bounded, NoLostItem, NoLostSlot
  <2> QED
    BY <2>1, <2>2
<1> QED
  BY <1>1, <1>2

LEMMA SpuriousStep ==
  ASSUME QInv, SpuriousWakeup
  PROVE  QInv' /\ (NoLostSlot => NoLostSlot')
<1> USE QueueAssumption DEF QInv
<1>1. CASE \E c \in asleepC : /\ asleepC' = asleepC \ {c}
                              /\ awakeC' = awakeC \cup {c}
                              /\ UNCHANGED producerVars
  <2>1. NotifyConsumer
    BY <1>1 DEF NotifyConsumer
  <2>2. Flush
    BY <1>1, <2>1 DEF Flush, SpuriousWakeup
  <2> QED
    BY <2>2, FlushStep
<1>2. CASE \E p \in asleepP : /\ asleepP' = asleepP \ {p}
                              /\ awakeP' = awakeP \cup {p}
                              /\ UNCHANGED <<arg, consumerVars>>
  <2>1. NotifyProducer
    BY <1>2 DEF NotifyProducer
  <2>2. /\ asleepP' \subseteq Producer /\ awakeP' \subseteq Producer
        /\ asleepP' \cap awakeP' = {}
        /\ asleepP' \cup awakeP' = asleepP \cup awakeP
        /\ asleepP' \subseteq asleepP
        /\ Cardinality(awakeP) \in Nat
        /\ Cardinality(awakeP') = IF asleepP = {} THEN Cardinality(awakeP)
                                 ELSE Cardinality(awakeP) + 1
    BY <2>1, NotifyProducerWakes
  <2>3. UNCHANGED <<queue, isClose, arg, asleepC, awakeC, closing>>
    BY <1>2 DEF SpuriousWakeup, consumerVars
  <2>4. TypeOK' /\ InCall'
    BY <2>2, <2>3 DEF TypeOK, InCall
  <2>5. Bounded' /\ NoLostItem'
    BY <2>3 DEF Bounded, NoLostItem
  <2>6. NoLostSlot => NoLostSlot'
    BY <2>2, <2>3, Sizes DEF NoLostSlot
  <2> QED
    BY <2>4, <2>5, <2>6
<1> QED
  BY <1>1, <1>2 DEF SpuriousWakeup

LEMMA NextStep == SlotInv /\ [Next]_vars => SlotInv'
<1> SUFFICES ASSUME SlotInv, [Next]_vars PROVE SlotInv'
  OBVIOUS
<1> USE DEF SlotInv
<1>1. ASSUME NEW p \in Producer, Push(p) PROVE SlotInv'
  BY <1>1, PushWaitsStep, PushItemStep DEF Push
<1>2. ASSUME NEW c \in Consumer, Pop(c) PROVE SlotInv'
  BY <1>2, PopStep
<1>3. CASE Flush
  BY <1>3, FlushStep
<1>4. CASE Close \/ CloseNotifies
  BY <1>4, CloseStep
<1>5. CASE SpuriousWakeup
  BY <1>5, SpuriousStep
<1>6. CASE UNCHANGED vars
  BY <1>6 DEF vars, producerVars, consumerVars, QInv, TypeOK, InCall, Bounded,
              NoLostItem, NoLostSlot
<1> QED
  BY <1>1, <1>2, <1>3, <1>4, <1>5, <1>6 DEF Next

LEMMA ApiStep == QInv /\ [ApiNext]_vars => QInv'
<1> SUFFICES ASSUME QInv, [ApiNext]_vars PROVE QInv'
  OBVIOUS
<1>1. ASSUME NEW p \in Producer, Push(p) PROVE QInv'
  BY <1>1, PushWaitsStep, PushItemStep DEF Push
<1>2. ASSUME NEW c \in Consumer, Pop(c) PROVE QInv'
  BY <1>2, PopStep
<1>3. CASE Flush
  BY <1>3, FlushStep
<1>4. CASE Close \/ CloseNotifies
  BY <1>4, CloseStep
<1>5. CASE SpuriousWakeup
  BY <1>5, SpuriousStep
<1>6. CASE Clear
  BY <1>6, QueueAssumption, Sizes
     DEF Clear, producerVars, consumerVars, QInv, TypeOK, InCall, Bounded, NoLostItem
<1>7. CASE UNCHANGED vars
  BY <1>7 DEF vars, producerVars, consumerVars, QInv, TypeOK, InCall, Bounded,
              NoLostItem
<1> QED
  BY <1>1, <1>2, <1>3, <1>4, <1>5, <1>6, <1>7 DEF ApiNext, Next

-----------------------------------------------------------------------------
(* Theorems. *)

\* Whatever operations are called, clear() included, the queue keeps within
\* its capacity and no push goes unnoticed by the consumers.
THEOREM ApiInvariance == ApiSpec => []QInv
<1>1. Init => QInv
  BY QInit
<1>2. QInv /\ [ApiNext]_vars => QInv'
  BY ApiStep
<1> QED
  BY <1>1, <1>2, PTL DEF ApiSpec

\* Without clear(), which wakes no producer, no pop goes unnoticed by the
\* producers either.
THEOREM Invariance == Spec => []SlotInv
<1>1. Init => SlotInv
  BY QInit DEF SlotInv, NoLostSlot, Init
<1>2. SlotInv /\ [Next]_vars => SlotInv'
  BY NextStep
<1> QED
  BY <1>1, <1>2, PTL DEF Spec

\* push_back and push_front never exceed _capacity.
THEOREM QueueIsBounded == Spec => []Bounded
<1>1. SlotInv => Bounded
  BY DEF SlotInv, QInv
<1> QED
  BY <1>1, Invariance, PTL

\* notify_one in push loses no wake-up of a consumer.
THEOREM ItemsAreNoticed == Spec => []NoLostItem
<1>1. SlotInv => NoLostItem
  BY DEF SlotInv, QInv
<1> QED
  BY <1>1, Invariance, PTL

\* notify_one in pop loses no wake-up of a producer.
THEOREM SlotsAreNoticed == Spec => []NoLostSlot
<1>1. SlotInv => NoLostSlot
  BY DEF SlotInv
<1> QED
  BY <1>1, Invariance, PTL

\* The class, with all its waiting and waking, is a bounded queue.
THEOREM ImplementsFifo == ApiSpec => FifoSpec
<1>1. Init => Fifo!Init
  BY DEF Init, Fifo!Init
<1>2. QInv /\ [ApiNext]_vars => [Fifo!Next]_<<queue, isClose>>
  <2> SUFFICES ASSUME QInv, [ApiNext]_vars
               PROVE  Fifo!Next \/ UNCHANGED <<queue, isClose>>
    OBVIOUS
  <2> USE QueueAssumption DEF QInv, TypeOK
  <2>1. ASSUME NEW p \in Producer, NEW end \in {"back", "front"}, NEW x \in Item,
               PushItem(p, end, x)
        PROVE  Fifo!Put(x)
    BY <2>1 DEF PushItem, IsFull, Fifo!Put
  <2>2. ASSUME NEW p \in Producer, Push(p)
        PROVE  Fifo!Next \/ UNCHANGED <<queue, isClose>>
    BY <2>1, <2>2 DEF Push, PushWaits, Fifo!Next
  <2>3. ASSUME NEW c \in Consumer, Pop(c)
        PROVE  Fifo!Next \/ UNCHANGED <<queue, isClose>>
    BY <2>3 DEF Pop, PopWaits, PopItem, PopFails, Fifo!Next, Fifo!Take
  <2>4. CASE Close \/ Clear
    BY <2>4 DEF Close, Clear, Fifo!Next, Fifo!Drop
  <2>5. CASE Flush \/ CloseNotifies \/ SpuriousWakeup \/ UNCHANGED vars
    BY <2>5 DEF Flush, CloseNotifies, SpuriousWakeup, vars
  <2> QED
    BY <2>2, <2>3, <2>4, <2>5 DEF ApiNext, Next
<1> QED
  BY <1>1, <1>2, ApiInvariance, PTL DEF ApiSpec, FifoSpec, Fifo!Spec
=============================================================================
