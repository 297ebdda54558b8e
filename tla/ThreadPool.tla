----------------------------- MODULE ThreadPool -----------------------------
(***************************************************************************)
(* The pool that runs the event loops: a queue of tasks, one mutex, one    *)
(* condition variable, and a destructor that stops and joins the workers.  *)
(* A step is what one thread does while it holds the mutex, or one         *)
(* notification sent without it.                                           *)
(*                                                                         *)
(* Tasks are added by the thread that owns the pool until it destroys it,  *)
(* and by tasks while they run.  A task may run forever, as an event loop  *)
(* does; a packaged_task lets no exception out, so a task that ends gives  *)
(* the worker back.                                                        *)
(***************************************************************************)
EXTENDS Naturals, Sequences, FiniteSets

CONSTANTS Worker,     \* the threads of the pool
          Owner,      \* the thread that constructs and destroys it
          Task,       \* tasks, each added at most once
          NoTask      \* "no task"

ASSUME PoolAssumption == /\ IsFiniteSet(Worker) /\ Worker # {}
                         /\ Owner \notin Worker
                         /\ IsFiniteSet(Task) /\ NoTask \notin Task

Thread == Worker \cup {Owner}

VARIABLES tasks,    \* _tasks
          stop,     \* _stop
          wpc,      \* where each worker is
          task,     \* the task each worker has taken
          adding,   \* threads in addTask that have yet to notify
          dtor,     \* how far the destructor is
          added,    \* tasks ever added
          ended     \* tasks that ran to their end

vars == <<tasks, stop, wpc, task, adding, dtor, added, ended>>

TypeOK ==
  /\ tasks \in Seq(Task)
  /\ stop \in BOOLEAN
  /\ wpc \in [Worker -> {"look", "asleep", "run", "gone"}]
  /\ task \in [Worker -> Task \cup {NoTask}]
  /\ adding \subseteq Thread
  /\ dtor \in {"no", "notify", "join", "over"}
  /\ added \subseteq Task /\ ended \subseteq added

Init ==
  /\ tasks = <<>>
  /\ stop = FALSE
  /\ wpc = [w \in Worker |-> "look"]
  /\ task = [w \in Worker |-> NoTask]
  /\ adding = {}
  /\ dtor = "no"
  /\ added = {} /\ ended = {}

At(place) == {w \in Worker : wpc[w] = place}

-----------------------------------------------------------------------------
(* The loop of a worker. *)

\* The predicate of wait() is false: release the mutex and sleep.
Sleep(w) ==
  /\ wpc[w] = "look"
  /\ ~stop /\ tasks = <<>>
  /\ wpc' = [wpc EXCEPT ![w] = "asleep"]
  /\ UNCHANGED <<tasks, stop, task, adding, dtor, added, ended>>

Return(w) ==
  /\ wpc[w] = "look"
  /\ stop /\ tasks = <<>>
  /\ wpc' = [wpc EXCEPT ![w] = "gone"]
  /\ UNCHANGED <<tasks, stop, task, adding, dtor, added, ended>>

\* Mutant: a worker leaves as soon as it sees _stop.
TakeUnlessStopped(w) ==
  /\ wpc[w] = "look"
  /\ IF stop
     THEN wpc' = [wpc EXCEPT ![w] = "gone"] /\ UNCHANGED <<tasks, task>>
     ELSE /\ tasks # <<>>
          /\ task' = [task EXCEPT ![w] = Head(tasks)]
          /\ tasks' = Tail(tasks)
          /\ wpc' = [wpc EXCEPT ![w] = "run"]
  /\ UNCHANGED <<stop, adding, dtor, added, ended>>

Take(w) ==
  /\ wpc[w] = "look"
  /\ tasks # <<>>
  /\ task' = [task EXCEPT ![w] = Head(tasks)]
  /\ tasks' = Tail(tasks)
  /\ wpc' = [wpc EXCEPT ![w] = "run"]
  /\ UNCHANGED <<stop, adding, dtor, added, ended>>

\* The task returns or throws; either way the worker looks for the next.
End(w) ==
  /\ wpc[w] = "run" /\ w \notin adding
  /\ wpc' = [wpc EXCEPT ![w] = "look"]
  /\ ended' = ended \cup {task[w]}
  /\ task' = [task EXCEPT ![w] = NoTask]
  /\ UNCHANGED <<tasks, stop, adding, dtor, added>>

Wakeup(w) ==
  /\ wpc[w] = "asleep"
  /\ wpc' = [wpc EXCEPT ![w] = "look"]
  /\ UNCHANGED <<tasks, stop, task, adding, dtor, added, ended>>

-----------------------------------------------------------------------------
(* addTask. *)

\* The owner until it destroys the pool; a worker from inside its task.
MayAdd(th) == /\ th \notin adding
              /\ IF th = Owner THEN dtor = "no" ELSE wpc[th] = "run"

AddTask(th, t) ==
  /\ MayAdd(th)
  /\ t \notin added
  /\ tasks' = Append(tasks, t)
  /\ added' = added \cup {t}
  /\ adding' = adding \cup {th}
  /\ UNCHANGED <<stop, wpc, task, dtor, ended>>

\* Mutant: addTask does not notify.
NotifyNobody(th) ==
  /\ th \in adding
  /\ adding' = adding \ {th}
  /\ UNCHANGED <<tasks, stop, wpc, task, dtor, added, ended>>

\* notify_one, after the mutex was released.
NotifyOne(th) ==
  /\ th \in adding
  /\ adding' = adding \ {th}
  /\ \/ At("asleep") = {} /\ UNCHANGED wpc
     \/ \E w \in At("asleep") : wpc' = [wpc EXCEPT ![w] = "look"]
  /\ UNCHANGED <<tasks, stop, task, dtor, added, ended>>

-----------------------------------------------------------------------------
(* The destructor. *)

Stop ==
  /\ dtor = "no" /\ Owner \notin adding
  /\ stop' = TRUE
  /\ dtor' = "notify"
  /\ UNCHANGED <<tasks, wpc, task, adding, added, ended>>

\* Mutant: notify_one instead of notify_all.
NotifyOneOnly ==
  /\ dtor = "notify"
  /\ \/ At("asleep") = {} /\ UNCHANGED wpc
     \/ \E w \in At("asleep") : wpc' = [wpc EXCEPT ![w] = "look"]
  /\ dtor' = "join"
  /\ UNCHANGED <<tasks, stop, task, adding, added, ended>>

NotifyAll ==
  /\ dtor = "notify"
  /\ wpc' = [w \in Worker |-> IF wpc[w] = "asleep" THEN "look" ELSE wpc[w]]
  /\ dtor' = "join"
  /\ UNCHANGED <<tasks, stop, task, adding, added, ended>>

\* Every thread has been joined; the members are destroyed.
Joined ==
  /\ dtor = "join"
  /\ At("gone") = Worker
  /\ dtor' = "over"
  /\ UNCHANGED <<tasks, stop, wpc, task, adding, added, ended>>

-----------------------------------------------------------------------------
Next ==
  \/ \E w \in Worker : Sleep(w) \/ Return(w) \/ Take(w) \/ End(w) \/ Wakeup(w)
  \/ \E th \in Thread, t \in Task : AddTask(th, t)
  \/ \E th \in Thread : NotifyOne(th)
  \/ Stop \/ NotifyAll \/ Joined

Spec == Init /\ [][Next]_vars

(***************************************************************************)
(* Threads are scheduled fairly, but nothing says that a task ends, that   *)
(* one is added or that the pool is destroyed.                             *)
(***************************************************************************)
Fairness ==
  /\ \A w \in Worker : WF_vars(Sleep(w) \/ Return(w) \/ Take(w))
  /\ \A th \in Thread : WF_vars(NotifyOne(th))
  /\ WF_vars(NotifyAll) /\ WF_vars(Joined)

FairSpec == Spec /\ Fairness

-----------------------------------------------------------------------------
(* Properties. *)

\* While a worker sleeps, every queued task has a wake-up under way to a
\* worker, or a worker that is about to look (ThreadPool.h:45,
\* ThreadPool.cpp:14).  Event loops never end: a task whose wake-up is lost
\* would wait for them forever.
WakeupsSuffice ==
  At("asleep") # {} =>
    Len(tasks) <= Cardinality(adding) + Cardinality(At("look"))

\* Where every task is: queued, with one worker, or at its end.
Queued  == {tasks[i] : i \in 1 .. Len(tasks)}
Running == {task[w] : w \in At("run")}

Distinct == \A i, j \in 1 .. Len(tasks) : tasks[i] = tasks[j] => i = j

TasksAccounted ==
  /\ added = Queued \cup Running \cup ended
  /\ Queued \cap Running = {} /\ Queued \cap ended = {} /\ Running \cap ended = {}
  /\ Distinct
  /\ \A w \in Worker : task[w] # NoTask <=> wpc[w] = "run"
  /\ \A v, w \in At("run") : task[v] = task[w] => v = w

\* Once told to stop, no worker sleeps after notify_all; a worker leaves
\* only when stopped, and leaves no task behind unless another still runs.
Shutdown ==
  /\ stop <=> dtor # "no"
  /\ dtor \in {"join", "over"} => At("asleep") = {}
  /\ At("gone") # {} => stop
  /\ adding \cap Worker \subseteq At("run")
  /\ Owner \in adding => dtor = "no"
  /\ At("gone") = Worker => tasks = <<>>
  /\ dtor = "over" => At("gone") = Worker

PoolInv == TypeOK /\ WakeupsSuffice /\ TasksAccounted /\ Shutdown

\* When the destructor returns, every task that was ever added has run to
\* its end, those added by other tasks during the shutdown included
\* (ThreadPool.cpp:17, 33-37).
NothingLeft == dtor = "over" => ended = added /\ adding = {}

\* The pool, with its mutex, its sleeping workers and its notifications, is a
\* TaskPool: tasks start in order and run once, each on a worker that is free,
\* and the destructor returns when all have ended (ThreadPool.cpp:9-38,
\* ThreadPool.h:29-46).
Life == CASE dtor = "no" -> "open" [] dtor = "over" -> "over" [] dtor \notin {"no", "over"} -> "ending"

Pool == INSTANCE TaskPool WITH waiting <- tasks, running <- task, done <- ended,
                               adders <- adding, life <- Life
TaskPoolSpec == Pool!Spec

\* A queued task starts, unless every worker is busy with a task or, during
\* the shutdown, gone: a pool with one worker per event loop runs all of
\* them (WebServer.cpp:34-38), though none ever ends.
TasksStart ==
  \A t \in Task :
    t \in Queued ~> (t \notin Queued \/ At("run") \cup At("gone") = Worker)

\* If tasks end, a destructor that was entered returns (ThreadPool.cpp:33).
Joins ==
  (\A w \in Worker : []<>(wpc[w] # "run")) /\ []<>(adding = {})
    => (dtor = "notify" ~> dtor = "over")
=============================================================================
