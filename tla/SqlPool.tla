------------------------------ MODULE SqlPool ------------------------------
(***************************************************************************)
(* The pool of database connections: a queue of MYSQL handles, a mutex,    *)
(* and a semaphore that counts the handles in the queue.  GetConn looks at *)
(* the queue without the mutex, waits for the semaphore, and takes a       *)
(* handle under the mutex; FreeConn puts it back and posts under the       *)
(* mutex.  Who calls them, and when, is in UserVerify.                     *)
(***************************************************************************)
EXTENDS Naturals, Sequences, FiniteSets

CONSTANTS Thread,    \* threads that use the pool
          MaxConn,   \* maxconn of SqlPool::Init
          None       \* nullptr

\* The handles mysql_real_connect returned.
Sql == 1 .. MaxConn

ASSUME PoolAssumption == /\ MaxConn \in Nat \ {0}
                         /\ IsFiniteSet(Thread)
                         /\ None \notin Sql

VARIABLES conns,   \* _conns
          sem,     \* _sems
          pc,      \* where each thread is in GetConn or FreeConn
          sql      \* the handle each thread was given

vars == <<conns, sem, pc, sql>>

TypeOK ==
  /\ conns \in Seq(Sql)
  /\ sem \in Nat
  /\ pc \in [Thread -> {"out", "wait", "pop", "post"}]
  /\ sql \in [Thread -> Sql \cup {None}]

Init ==
  /\ conns = [i \in 1 .. MaxConn |-> i]
  /\ sem = MaxConn
  /\ pc = [t \in Thread |-> "out"]
  /\ sql = [t \in Thread |-> None]

At(step) == {t \in Thread : pc[t] = step}

GoTo(t, step) == pc' = [pc EXCEPT ![t] = step]

\* FreeConn posts before it gives the mutex back.
MutexFree == At("post") = {}

\* What _conns.empty() may return without the mutex: anything, when another
\* thread is changing the queue.
SeenEmpty(t) == IF \E u \in Thread \ {t} : pc[u] \in {"pop", "post"}
                THEN BOOLEAN ELSE {conns = <<>>}

FindsBusy(t) ==
  /\ pc[t] = "out"
  /\ TRUE \in SeenEmpty(t)

FindsConn(t) ==
  /\ pc[t] = "out"
  /\ FALSE \in SeenEmpty(t)
  /\ GoTo(t, "wait")
  /\ UNCHANGED <<conns, sem, sql>>

\* Mutant: sem_trywait, its result ignored.
TryWait == sem' = IF sem > 0 THEN sem - 1 ELSE sem

WaitSem == sem > 0 /\ sem' = sem - 1

SemWait(t) ==
  /\ pc[t] = "wait"
  /\ WaitSem
  /\ GoTo(t, "pop")
  /\ UNCHANGED <<conns, sql>>

WithoutFront == Tail(conns)

PopConn(t) ==
  /\ pc[t] = "pop" /\ MutexFree
  /\ sql' = [sql EXCEPT ![t] = Head(conns)]
  /\ conns' = WithoutFront
  /\ GoTo(t, "out")
  /\ UNCHANGED sem

\* Mutant: the handle is dropped.
NotPut(h) == conns

Put(h) == Append(conns, h)

PushConn(t) ==
  /\ pc[t] = "out" /\ MutexFree
  /\ sql[t] # None
  /\ conns' = Put(sql[t])
  /\ GoTo(t, "post")
  /\ UNCHANGED sem

\* Mutant: no sem_post.
NoPost == UNCHANGED sem

Post == sem' = sem + 1

SemPost(t) ==
  /\ pc[t] = "post"
  /\ Post
  /\ GoTo(t, "out")
  /\ UNCHANGED <<conns, sql>>

-----------------------------------------------------------------------------
(* Properties. *)

\* The semaphore counts the handles that nobody has been promised, so that
\* GetConn never takes the front of an empty queue.
Accounting ==
  Len(conns) = sem + Cardinality(At("pop")) + Cardinality(At("post"))

NeverPopsEmpty == \A t \in Thread : pc[t] = "pop" => conns # <<>>

\* No connection of the pool is ever lost.
NoLeak ==
  \A h \in Sql : \/ \E i \in DOMAIN conns : conns[i] = h
                 \/ \E t \in Thread : sql[t] = h
=============================================================================
