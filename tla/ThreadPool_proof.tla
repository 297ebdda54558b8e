-------------------------- MODULE ThreadPool_proof --------------------------
(***************************************************************************)
(* Proofs about the thread pool, for any number of workers and tasks: no   *)
(* wake-up is lost, each task is in one place, and the destructor leaves   *)
(* no task behind: the pool is a TaskPool.                                 *)
(***************************************************************************)
EXTENDS ThreadPool, FiniteSetTheorems, TLAPS

LEMMA Finite == TypeOK => /\ \A p : IsFiniteSet(At(p)) /\ Cardinality(At(p)) \in Nat
                          /\ IsFiniteSet(adding) /\ Cardinality(adding) \in Nat
<1> SUFFICES ASSUME TypeOK
             PROVE  /\ \A p : IsFiniteSet(At(p)) /\ Cardinality(At(p)) \in Nat
                    /\ IsFiniteSet(adding) /\ Cardinality(adding) \in Nat
  OBVIOUS
<1>1. IsFiniteSet(Thread)
  BY PoolAssumption, FS_AddElement DEF Thread
<1>2. IsFiniteSet(adding)
  BY <1>1, FS_Subset DEF TypeOK
<1>3. \A p : IsFiniteSet(At(p))
  BY PoolAssumption, FS_Subset DEF At
<1> QED
  BY <1>2, <1>3, FS_CardinalityType

\* One worker less among those that look.
LEMMA LookLess ==
  ASSUME TypeOK, NEW w \in Worker, NEW p, wpc[w] = "look", p # "look",
         wpc' = [wpc EXCEPT ![w] = p]
  PROVE  /\ Cardinality(At("look")') = Cardinality(At("look")) - 1
         /\ Cardinality(At("look")') \in Nat
<1>1. At("look")' = At("look") \ {w} /\ w \in At("look")
  BY DEF At, TypeOK
<1> QED
  BY <1>1, Finite, FS_RemoveElement, FS_CardinalityType

\* ... or one more.
LEMMA LookMore ==
  ASSUME TypeOK, NEW w \in Worker, wpc[w] # "look", wpc' = [wpc EXCEPT ![w] = "look"]
  PROVE  Cardinality(At("look")') = Cardinality(At("look")) + 1
<1>1. At("look")' = At("look") \cup {w} /\ w \notin At("look")
  BY DEF At, TypeOK
<1> QED
  BY <1>1, Finite, FS_AddElement

\* addTask: the new task is at the end of the queue.
LEMMA QueuedAppend ==
  ASSUME tasks \in Seq(Task), NEW t \in Task, t \notin Queued, Distinct,
         tasks' = Append(tasks, t)
  PROVE  /\ Queued' = Queued \cup {t} /\ Distinct'
         /\ tasks' \in Seq(Task) /\ Len(tasks') = Len(tasks) + 1
<1>1. /\ Len(tasks) \in Nat /\ Len(tasks') = Len(tasks) + 1 /\ tasks' \in Seq(Task)
      /\ \A i \in 1 .. Len(tasks) : tasks'[i] = tasks[i]
      /\ tasks'[Len(tasks) + 1] = t
  OBVIOUS
<1>2. 1 .. Len(tasks) + 1 = 1 .. Len(tasks) \cup {Len(tasks) + 1}
  BY <1>1
<1>3. Queued' = Queued \cup {t}
  BY <1>1, <1>2 DEF Queued
<1>4. Distinct'
  BY <1>1, <1>2 DEF Distinct, Queued
<1> QED
  BY <1>1, <1>3, <1>4

\* A worker takes the task at the front.
LEMMA QueuedTail ==
  ASSUME tasks \in Seq(Task), tasks # <<>>, Distinct, tasks' = Tail(tasks)
  PROVE  /\ Head(tasks) \in Task /\ Head(tasks) \in Queued
         /\ Queued' = Queued \ {Head(tasks)} /\ Distinct'
         /\ tasks' \in Seq(Task) /\ Len(tasks') = Len(tasks) - 1
<1>1. /\ Len(tasks) \in Nat \ {0} /\ Len(tasks') = Len(tasks) - 1 /\ tasks' \in Seq(Task)
      /\ \A i \in 1 .. Len(tasks) - 1 : tasks'[i] = tasks[i + 1]
      /\ Head(tasks) = tasks[1] /\ \A i \in 1 .. Len(tasks) : tasks[i] \in Task
  OBVIOUS
<1>2. Head(tasks) \in Task /\ Head(tasks) \in Queued
  BY <1>1 DEF Queued
<1>3. Distinct'
  <2> SUFFICES ASSUME NEW i \in 1 .. Len(tasks) - 1, NEW j \in 1 .. Len(tasks) - 1,
                      tasks[i + 1] = tasks[j + 1]
               PROVE  i = j
    BY <1>1 DEF Distinct
  <2>1. i + 1 \in 1 .. Len(tasks) /\ j + 1 \in 1 .. Len(tasks)
    BY <1>1
  <2>2. i + 1 = j + 1
    BY <2>1 DEF Distinct
  <2> QED
    BY <2>2
<1>4. ASSUME NEW x \in Queued, x # Head(tasks) PROVE x \in Queued'
  <2>1. PICK i \in 1 .. Len(tasks) : x = tasks[i]
    BY <1>4 DEF Queued
  <2>2. i - 1 \in 1 .. Len(tasks) - 1 /\ (i - 1) + 1 = i
    BY <1>1, <1>4, <2>1
  <2> QED
    BY <1>1, <2>1, <2>2 DEF Queued
<1>5. ASSUME NEW x \in Queued' PROVE x \in Queued /\ x # Head(tasks)
  <2>1. PICK i \in 1 .. Len(tasks) - 1 : x = tasks[i + 1]
    BY <1>1, <1>5 DEF Queued
  <2>2. i + 1 \in 1 .. Len(tasks) /\ 1 \in 1 .. Len(tasks) /\ i + 1 # 1
    BY <1>1
  <2> QED
    BY <1>1, <2>1, <2>2 DEF Queued, Distinct
<1>6. Queued' = Queued \ {Head(tasks)}
  BY <1>4, <1>5
<1> QED
  BY <1>1, <1>2, <1>3, <1>6

-----------------------------------------------------------------------------
LEMMA InitPool == Init => PoolInv
<1> SUFFICES ASSUME Init PROVE PoolInv
  OBVIOUS
<1> USE PoolAssumption DEF Init
<1>1. tasks \in Seq(Task) /\ Len(tasks) = 0
  OBVIOUS
<1>2. TypeOK
  BY <1>1 DEF TypeOK, Thread
<1>3. At("asleep") = {} /\ At("run") = {} /\ At("gone") = {}
  BY DEF At
<1>4. WakeupsSuffice
  BY <1>3 DEF WakeupsSuffice
<1>5. TasksAccounted
  BY <1>1, <1>3 DEF TasksAccounted, Queued, Running, Distinct, At
<1>6. Shutdown
  BY <1>3 DEF Shutdown
<1> QED
  BY <1>2, <1>4, <1>5, <1>6 DEF PoolInv

LEMMA NextPool == PoolInv /\ [Next]_vars => PoolInv'
<1> SUFFICES ASSUME PoolInv, [Next]_vars PROVE PoolInv'
  OBVIOUS
<1> USE DEF PoolInv
<1>0. /\ \A p : Cardinality(At(p)) \in Nat
      /\ Cardinality(adding) \in Nat /\ Len(tasks) \in Nat
  BY Finite DEF TypeOK
<1>1. ASSUME NEW w \in Worker, Sleep(w) PROVE PoolInv'
  <2> USE <1>1 DEF Sleep
  <2>1. TypeOK'
    BY DEF TypeOK
  <2>2. WakeupsSuffice'
    <3>1. Cardinality(At("look")') \in Nat
      BY LookLess
    <3>2. Len(tasks') = 0
      OBVIOUS
    <3> QED
      BY <1>0, <3>1, <3>2 DEF WakeupsSuffice
  <2>3. At("run")' = At("run") /\ At("gone")' = At("gone")
    BY DEF At, TypeOK
  <2>4. TasksAccounted'
    BY <2>3 DEF TasksAccounted, Queued, Running, Distinct, TypeOK
  <2>5. Shutdown'
    BY <2>3 DEF Shutdown, At, TypeOK
  <2> QED
    BY <2>1, <2>2, <2>4, <2>5
<1>2. ASSUME NEW w \in Worker, Return(w) PROVE PoolInv'
  <2> USE <1>2 DEF Return
  <2>1. TypeOK'
    BY DEF TypeOK
  <2>2. WakeupsSuffice'
    <3>1. Cardinality(At("look")') \in Nat
      BY LookLess
    <3>2. Len(tasks') = 0
      OBVIOUS
    <3> QED
      BY <1>0, <3>1, <3>2 DEF WakeupsSuffice
  <2>3. At("run")' = At("run") /\ At("asleep")' = At("asleep")
    BY DEF At, TypeOK
  <2>4. TasksAccounted'
    BY <2>3 DEF TasksAccounted, Queued, Running, Distinct, TypeOK
  <2>5. Shutdown'
    BY <2>3 DEF Shutdown, At, TypeOK
  <2> QED
    BY <2>1, <2>2, <2>4, <2>5
<1>3. ASSUME NEW w \in Worker, Take(w) PROVE PoolInv'
  <2> DEFINE h == Head(tasks)
  <2>1. /\ h \in Task /\ h \in Queued /\ Queued' = Queued \ {h} /\ Distinct'
        /\ tasks' \in Seq(Task) /\ Len(tasks') = Len(tasks) - 1
    BY <1>3, QueuedTail DEF Take, TypeOK, TasksAccounted
  <2>2. /\ task' = [task EXCEPT ![w] = h] /\ wpc[w] = "look"
        /\ wpc' = [wpc EXCEPT ![w] = "run"]
        /\ UNCHANGED <<stop, adding, dtor, added, ended>>
    BY <1>3 DEF Take
  <2> HIDE DEF h
  <2>3. TypeOK'
    BY <2>1, <2>2 DEF TypeOK
  <2>4. WakeupsSuffice'
    <3>1. Cardinality(At("look")') = Cardinality(At("look")) - 1
      BY <2>2, LookLess
    <3>2. At("asleep")' = At("asleep")
      BY <2>2 DEF At, TypeOK
    <3> QED
      BY <1>0, <2>1, <2>2, <3>1, <3>2 DEF WakeupsSuffice
  <2>5. At("run")' = At("run") \cup {w} /\ w \notin At("run")
    BY <2>2 DEF At, TypeOK
  <2>6. task'[w] = h /\ \A v \in Worker : v # w => task'[v] = task[v]
    BY <2>2 DEF TypeOK
  <2>7. Running' = Running \cup {h}
    BY <2>5, <2>6 DEF Running, At
  <2>8. h \notin Running /\ h # NoTask
    BY <2>1, PoolAssumption DEF TasksAccounted
  <2>9. TasksAccounted'
    <3>1. \A v \in Worker : task'[v] # NoTask <=> wpc'[v] = "run"
      BY <2>2, <2>6, <2>8 DEF TasksAccounted, TypeOK
    <3>2. \A v, u \in At("run")' : task'[v] = task'[u] => v = u
      BY <2>5, <2>6, <2>8 DEF TasksAccounted, Running, At
    <3> QED
      BY <2>1, <2>2, <2>7, <2>8, <3>1, <3>2 DEF TasksAccounted
  <2>10. Shutdown'
    BY <1>3, <2>2, <2>5 DEF Shutdown, At, TypeOK
  <2> QED
    BY <2>3, <2>4, <2>9, <2>10
<1>4. ASSUME NEW w \in Worker, End(w) PROVE PoolInv'
  <2> USE DEF End
  <2>1. task[w] \in Task /\ task[w] \in Running /\ w \in At("run") /\ task[w] # NoTask
    BY <1>4 DEF TasksAccounted, Running, At, TypeOK
  <2>2. TypeOK'
    BY <1>4, <2>1 DEF TypeOK, TasksAccounted
  <2>3. At("run")' = At("run") \ {w} /\ At("asleep")' = At("asleep")
    BY <1>4 DEF At, TypeOK
  <2>4. WakeupsSuffice'
    <3>1. Cardinality(At("look")') = Cardinality(At("look")) + 1
      BY <1>4, LookMore
    <3> QED
      BY <1>0, <1>4, <2>3, <3>1 DEF WakeupsSuffice
  <2>5. task'[w] = NoTask /\ \A v \in Worker : v # w => task'[v] = task[v]
    BY <1>4 DEF TypeOK
  <2>6. Running' = Running \ {task[w]}
    BY <2>1, <2>3, <2>5 DEF Running, At, TasksAccounted
  <2>7. TasksAccounted'
    <3>1. \A v \in Worker : task'[v] # NoTask <=> wpc'[v] = "run"
      BY <1>4, <2>5 DEF TasksAccounted, TypeOK
    <3>2. \A v, u \in At("run")' : task'[v] = task'[u] => v = u
      BY <2>3, <2>5 DEF TasksAccounted, At
    <3>3. Queued' = Queued /\ Distinct' /\ added' = added /\ ended' = ended \cup {task[w]}
      BY <1>4 DEF TasksAccounted, Queued, Distinct
    <3> QED
      BY <2>1, <2>6, <3>1, <3>2, <3>3 DEF TasksAccounted
  <2>8. Shutdown'
    BY <1>4, <2>3 DEF Shutdown, At, TypeOK
  <2> QED
    BY <2>2, <2>4, <2>7, <2>8
<1>5. ASSUME NEW w \in Worker, wpc[w] = "asleep", wpc' = [wpc EXCEPT ![w] = "look"],
             UNCHANGED <<tasks, stop, task, dtor, added, ended>>,
             adding' \subseteq adding, Cardinality(adding') \in Nat,
             Cardinality(adding') >= Cardinality(adding) - 1
      PROVE  PoolInv'
  <2>1. TypeOK'
    BY <1>5 DEF TypeOK
  <2>2. At("run")' = At("run") /\ At("gone")' = At("gone") /\ At("asleep")' = At("asleep") \ {w}
    BY <1>5 DEF At, TypeOK
  <2>3. WakeupsSuffice'
    <3>1. Cardinality(At("look")') = Cardinality(At("look")) + 1
      BY <1>5, LookMore
    <3>2. At("asleep") # {}
      BY <1>5 DEF At
    <3> QED
      BY <1>0, <1>5, <3>1, <3>2 DEF WakeupsSuffice
  <2>4. TasksAccounted'
    <3>1. Queued' = Queued /\ Distinct' /\ Running' = Running
      BY <1>5, <2>2 DEF Queued, Distinct, Running, TasksAccounted
    <3> QED
      BY <1>5, <2>2, <3>1 DEF TasksAccounted, TypeOK
  <2>5. Shutdown'
    BY <1>5, <2>2 DEF Shutdown
  <2> QED
    BY <2>1, <2>3, <2>4, <2>5
<1>6. ASSUME NEW w \in Worker, Wakeup(w) PROVE PoolInv'
  <2>1. adding' = adding
    BY <1>6 DEF Wakeup
  <2>2. adding' \subseteq adding /\ Cardinality(adding') \in Nat
    BY <1>0, <2>1
  <2>3. Cardinality(adding') >= Cardinality(adding) - 1
    BY <1>0, <2>1
  <2> QED
    BY <1>5, <1>6, <2>2, <2>3 DEF Wakeup
<1>7. ASSUME NEW th \in Thread, NEW t \in Task, AddTask(th, t) PROVE PoolInv'
  <2> USE DEF AddTask
  <2>1. t \notin Queued
    BY <1>7 DEF TasksAccounted
  <2>2. /\ Queued' = Queued \cup {t} /\ Distinct'
        /\ tasks' \in Seq(Task) /\ Len(tasks') = Len(tasks) + 1
    BY <1>7, <2>1, QueuedAppend DEF TypeOK, TasksAccounted
  <2>3. TypeOK'
    BY <1>7, <2>2 DEF TypeOK
  <2>4. \A p : At(p)' = At(p)
    BY <1>7 DEF At
  <2>5. WakeupsSuffice'
    <3>1. Cardinality(adding') = Cardinality(adding) + 1
      BY <1>7, Finite, FS_AddElement DEF MayAdd
    <3> QED
      BY <1>0, <2>2, <2>4, <3>1 DEF WakeupsSuffice
  <2>6. TasksAccounted'
    <3>1. Running' = Running /\ t \notin Running /\ t \notin ended
      BY <1>7, <2>4 DEF Running, TasksAccounted
    <3> QED
      BY <1>7, <2>2, <2>4, <3>1 DEF TasksAccounted
  <2>7. Shutdown'
    <3>1. CASE th = Owner
      <4>1. At("gone") = {} /\ Worker # {} /\ th \notin Worker
        BY <1>7, <3>1, PoolAssumption DEF MayAdd, Shutdown
      <4> QED
        BY <1>7, <2>4, <3>1, <4>1 DEF MayAdd, Shutdown
    <3>2. CASE th # Owner
      <4>1. th \in At("run") /\ th \notin At("gone") /\ th \in Worker
        BY <1>7, <3>2 DEF MayAdd, At, Thread
      <4> QED
        BY <1>7, <2>4, <3>2, <4>1 DEF Shutdown
    <3> QED
      BY <3>1, <3>2
  <2> QED
    BY <2>3, <2>5, <2>6, <2>7
<1>8. ASSUME NEW th \in Thread, NotifyOne(th) PROVE PoolInv'
  <2>1. /\ adding' \subseteq adding /\ Cardinality(adding') = Cardinality(adding) - 1
        /\ Cardinality(adding') \in Nat
    <3>1. Cardinality(adding \ {th}) = Cardinality(adding) - 1 /\ IsFiniteSet(adding \ {th})
      BY <1>8, Finite, FS_RemoveElement DEF NotifyOne
    <3>2. Cardinality(adding \ {th}) \in Nat
      BY <3>1, FS_CardinalityType
    <3> QED
      BY <1>8, <3>1, <3>2 DEF NotifyOne
  <2>2. CASE At("asleep") = {} /\ UNCHANGED wpc
    <3>1. TypeOK'
      BY <1>8, <2>1, <2>2 DEF NotifyOne, TypeOK
    <3>2. \A p : At(p)' = At(p)
      BY <2>2 DEF At
    <3>3. WakeupsSuffice'
      BY <2>2, <3>2 DEF WakeupsSuffice
    <3>4. TasksAccounted'
      BY <1>8, <2>2, <3>2 DEF NotifyOne, TasksAccounted, Queued, Running, Distinct
    <3>5. Shutdown'
      BY <1>8, <2>1, <3>2 DEF NotifyOne, Shutdown
    <3> QED
      BY <3>1, <3>3, <3>4, <3>5
  <2>3. CASE \E w \in At("asleep") : wpc' = [wpc EXCEPT ![w] = "look"]
    <3>1. PICK w \in Worker : wpc[w] = "asleep" /\ wpc' = [wpc EXCEPT ![w] = "look"]
      BY <2>3 DEF At
    <3>2. UNCHANGED <<tasks, stop, task, dtor, added, ended>>
      BY <1>8 DEF NotifyOne
    <3>3. Cardinality(adding') >= Cardinality(adding) - 1
      BY <1>0, <2>1
    <3> QED
      BY <1>5, <2>1, <3>1, <3>2, <3>3
  <2> QED
    BY <1>8, <2>2, <2>3 DEF NotifyOne
<1>9. ASSUME Stop PROVE PoolInv'
  <2> USE DEF Stop
  <2>1. TypeOK'
    BY <1>9 DEF TypeOK
  <2>2. \A p : At(p)' = At(p)
    BY <1>9 DEF At
  <2>3. WakeupsSuffice'
    BY <1>9, <2>2 DEF WakeupsSuffice
  <2>4. TasksAccounted'
    BY <1>9, <2>2 DEF TasksAccounted, Queued, Running, Distinct
  <2>5. Shutdown'
    BY <1>9, <2>2 DEF Shutdown
  <2> QED
    BY <2>1, <2>3, <2>4, <2>5
<1>10. ASSUME NotifyAll PROVE PoolInv'
  <2> USE DEF NotifyAll
  <2>1. TypeOK'
    BY <1>10 DEF TypeOK
  <2>2. /\ At("asleep")' = {} /\ At("run")' = At("run") /\ At("gone")' = At("gone")
        /\ \A v \in Worker : wpc'[v] = "run" <=> wpc[v] = "run"
    BY <1>10 DEF At, TypeOK
  <2>3. WakeupsSuffice'
    BY <2>2 DEF WakeupsSuffice
  <2>4. TasksAccounted'
    <3>1. Queued' = Queued /\ Distinct' /\ Running' = Running
      BY <1>10, <2>2 DEF Queued, Distinct, Running, TasksAccounted
    <3> QED
      BY <1>10, <2>2, <3>1 DEF TasksAccounted
  <2>5. Shutdown'
    BY <1>10, <2>2 DEF Shutdown
  <2> QED
    BY <2>1, <2>3, <2>4, <2>5
<1>11. ASSUME Joined PROVE PoolInv'
  <2> USE DEF Joined
  <2>1. TypeOK'
    BY <1>11 DEF TypeOK
  <2>2. \A p : At(p)' = At(p)
    BY <1>11 DEF At
  <2>3. WakeupsSuffice'
    BY <1>11, <2>2 DEF WakeupsSuffice
  <2>4. TasksAccounted'
    BY <1>11, <2>2 DEF TasksAccounted, Queued, Running, Distinct
  <2>5. Shutdown'
    BY <1>11, <2>2 DEF Shutdown
  <2> QED
    BY <2>1, <2>3, <2>4, <2>5
<1>12. CASE UNCHANGED vars
  <2>1. \A p : At(p)' = At(p)
    BY <1>12 DEF At, vars
  <2> QED
    BY <1>12, <2>1 DEF vars, TypeOK, WakeupsSuffice, TasksAccounted, Queued, Running, Distinct, Shutdown
<1> QED
  BY <1>1, <1>2, <1>3, <1>4, <1>6, <1>7, <1>8, <1>9, <1>10, <1>11, <1>12 DEF Next

-----------------------------------------------------------------------------
\* No wake-up is lost, each task is in one place, and the shutdown is in
\* order, in every reachable state.
THEOREM PoolInvariance == Spec => []PoolInv
<1> QED
  BY InitPool, NextPool, PTL DEF Spec

\* A destructor that returns leaves no task behind: every task ever added
\* has run to its end.
THEOREM DestructorRunsAll == Spec => []NothingLeft
<1>1. PoolInv => NothingLeft
  <2> SUFFICES ASSUME PoolInv, dtor = "over" PROVE ended = added /\ adding = {}
    BY DEF NothingLeft
  <2>1. At("gone") = Worker /\ tasks = <<>> /\ Owner \notin adding
    BY DEF PoolInv, Shutdown
  <2>2. At("run") = {}
    BY <2>1 DEF At
  <2>3. Queued = {} /\ Running = {}
    BY <2>1, <2>2 DEF Queued, Running
  <2>4. ended = added
    BY <2>3 DEF PoolInv, TasksAccounted
  <2>5. adding = {}
    BY <2>1, <2>2 DEF PoolInv, Shutdown, TypeOK, Thread
  <2> QED
    BY <2>4, <2>5
<1> QED
  BY <1>1, PoolInvariance, PTL

-----------------------------------------------------------------------------
(* The pool is a TaskPool. *)

PoolStep == Pool!Next \/ UNCHANGED <<tasks, task, ended, adding, Life>>

\* addTask: the task is new to the pool.
LEMMA AddStep ==
  ASSUME PoolInv, NEW th \in Thread, NEW t \in Task, AddTask(th, t)
  PROVE  Pool!Add(th, t)
<1>1. t \notin Queued /\ t \notin Running /\ t \notin ended
  BY DEF AddTask, PoolInv, TasksAccounted
<1>2. \A i \in DOMAIN tasks : tasks[i] # t
  <2>1. DOMAIN tasks = 1 .. Len(tasks)
    BY DEF PoolInv, TypeOK
  <2> QED BY <1>1, <2>1 DEF Queued
<1>3. \A w \in Worker : task[w] # t
  BY <1>1, PoolAssumption DEF PoolInv, TasksAccounted, Running, At
<1>4. IF th = Owner THEN Life = "open" ELSE task[th] # NoTask
  BY DEF AddTask, MayAdd, Life, Thread, PoolInv, TasksAccounted
<1>5. Life' = Life
  BY DEF AddTask, Life
<1> QED BY <1>1, <1>2, <1>3, <1>4, <1>5 DEF AddTask, MayAdd, Pool!Add

\* The worker that takes a task has none; the one that ends one has one.
LEMMA WorkerStep ==
  ASSUME PoolInv, NEW w \in Worker, Sleep(w) \/ Return(w) \/ Take(w) \/ End(w) \/ Wakeup(w)
  PROVE  Pool!Start(w) \/ Pool!End(w) \/ UNCHANGED <<tasks, task, ended, adding, Life>>
<1>1. Life' = Life
  BY DEF Sleep, Return, Take, End, Wakeup, Life
<1>2. CASE Sleep(w) \/ Return(w) \/ Wakeup(w)
  BY <1>1, <1>2 DEF Sleep, Return, Wakeup
<1>3. CASE Take(w)
  <2>1. task[w] = NoTask
    BY <1>3 DEF Take, PoolInv, TasksAccounted
  <2> QED BY <1>1, <1>3, <2>1 DEF Take, Pool!Start
<1>4. CASE End(w)
  <2>1. task[w] # NoTask
    BY <1>4 DEF End, PoolInv, TasksAccounted
  <2> QED BY <1>1, <1>4, <2>1 DEF End, Pool!End
<1> QED BY <1>2, <1>3, <1>4

\* The destructor joins the workers when nothing is left.
LEMMA JoinedStep ==
  ASSUME PoolInv, Joined
  PROVE  Pool!Over
<1>1. dtor = "join" /\ dtor' = "over" /\ At("gone") = Worker
      /\ UNCHANGED <<tasks, task, adding, ended>>
  BY DEF Joined
<1>2. tasks = <<>> /\ Owner \notin adding /\ adding \cap Worker \subseteq At("run")
  BY <1>1 DEF PoolInv, Shutdown
<1>3. At("run") = {}
  BY <1>1 DEF At
<1>4. adding = {}
  BY <1>2, <1>3 DEF PoolInv, TypeOK, Thread
<1>5. \A w \in Worker : task[w] = NoTask
  BY <1>3 DEF PoolInv, TasksAccounted, At
<1>6. Life = "ending" /\ Life' = "over"
  BY <1>1 DEF Life
<1> QED BY <1>1, <1>2, <1>4, <1>5, <1>6 DEF Pool!Over

LEMMA TaskPoolStep == PoolInv /\ [Next]_vars => PoolStep
<1> SUFFICES ASSUME PoolInv, [Next]_vars PROVE PoolStep
  OBVIOUS
<1>1. ASSUME NEW w \in Worker, Sleep(w) \/ Return(w) \/ Take(w) \/ End(w) \/ Wakeup(w)
      PROVE  PoolStep
  BY <1>1, WorkerStep DEF PoolStep, Pool!Next
<1>2. ASSUME NEW th \in Thread, NEW t \in Task, AddTask(th, t)
      PROVE  PoolStep
  BY <1>2, AddStep DEF PoolStep, Pool!Next, Thread
<1>3. ASSUME NEW th \in Thread, NotifyOne(th)
      PROVE  PoolStep
  <2>1. Life' = Life
    BY <1>3 DEF NotifyOne, Life
  <2>2. Pool!Leave(th)
    BY <1>3, <2>1 DEF NotifyOne, Pool!Leave
  <2> QED BY <2>2 DEF PoolStep, Pool!Next, Thread
<1>4. CASE Stop
  <2>1. Life = "open" /\ Life' = "ending"
    BY <1>4 DEF Stop, Life
  <2> QED BY <1>4, <2>1 DEF Stop, PoolStep, Pool!Next, Pool!Destroy
<1>5. CASE NotifyAll
  <2>1. Life' = Life
    BY <1>5 DEF NotifyAll, Life
  <2> QED BY <1>5, <2>1 DEF NotifyAll, PoolStep
<1>6. CASE Joined
  BY <1>6, JoinedStep DEF PoolStep, Pool!Next
<1>7. CASE UNCHANGED vars
  BY <1>7 DEF vars, PoolStep, Life
<1> QED BY <1>1, <1>2, <1>3, <1>4, <1>5, <1>6, <1>7 DEF Next

\* The pool keeps what TaskPool promises, for any number of workers and tasks:
\* tasks start in order and run once, and the destructor returns when all
\* have ended (ThreadPool.cpp:9-38, ThreadPool.h:29-46).
THEOREM ImplementsTaskPool == Spec => TaskPoolSpec
<1>1. Init => Pool!Init
  BY DEF Init, Life, Pool!Init
<1>2. PoolInv /\ [Next]_vars => [Pool!Next]_<<tasks, task, ended, adding, Life>>
  BY TaskPoolStep DEF PoolStep
<1> QED BY <1>1, <1>2, PoolInvariance, PTL DEF Spec, TaskPoolSpec, Pool!Spec
=============================================================================
