------------------------------ MODULE TaskPool ------------------------------
(***************************************************************************)
(* What a user of ThreadPool may rely on.  Tasks start in the order in     *)
(* which they were added, one at a time on a worker, and run once.  Tasks  *)
(* may add tasks at any time; the owner, until it destroys the pool.  The  *)
(* destruction is over when every task has ended and nobody is in addTask. *)
(***************************************************************************)
EXTENDS Naturals, Sequences

CONSTANTS Worker, Owner, Task, NoTask

VARIABLES waiting,  \* tasks that have not started, in order
          running,  \* the task of each worker, or NoTask
          done,     \* tasks that have ended
          adders,   \* threads in addTask
          life      \* of the pool

Init ==
  /\ waiting = <<>>
  /\ running = [w \in Worker |-> NoTask]
  /\ done = {} /\ adders = {}
  /\ life = "open"

Add(th, t) ==
  /\ th \notin adders
  /\ IF th = Owner THEN life = "open" ELSE running[th] # NoTask
  /\ t \notin done
  /\ \A i \in DOMAIN waiting : waiting[i] # t
  /\ \A w \in Worker : running[w] # t
  /\ waiting' = Append(waiting, t)
  /\ adders' = adders \cup {th}
  /\ UNCHANGED <<running, done, life>>

Leave(th) ==
  /\ th \in adders
  /\ adders' = adders \ {th}
  /\ UNCHANGED <<waiting, running, done, life>>

Start(w) ==
  /\ running[w] = NoTask
  /\ waiting # <<>>
  /\ running' = [running EXCEPT ![w] = Head(waiting)]
  /\ waiting' = Tail(waiting)
  /\ UNCHANGED <<done, adders, life>>

End(w) ==
  /\ running[w] # NoTask /\ w \notin adders
  /\ done' = done \cup {running[w]}
  /\ running' = [running EXCEPT ![w] = NoTask]
  /\ UNCHANGED <<waiting, adders, life>>

Destroy ==
  /\ life = "open" /\ Owner \notin adders
  /\ life' = "ending"
  /\ UNCHANGED <<waiting, running, done, adders>>

Over ==
  /\ life = "ending"
  /\ waiting = <<>> /\ adders = {}
  /\ \A w \in Worker : running[w] = NoTask
  /\ life' = "over"
  /\ UNCHANGED <<waiting, running, done, adders>>

Next ==
  \/ \E th \in Worker \cup {Owner} : Leave(th) \/ \E t \in Task : Add(th, t)
  \/ \E w \in Worker : Start(w) \/ End(w)
  \/ Destroy \/ Over

Spec == Init /\ [][Next]_<<waiting, running, done, adders, life>>
=============================================================================
