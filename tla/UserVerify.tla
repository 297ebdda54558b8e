----------------------------- MODULE UserVerify -----------------------------
(***************************************************************************)
(* HttpRequest::UserVerify, run by the sub-reactors at once, and its use   *)
(* of the connection pool.  The SqlRAII object of UserVerify is a          *)
(* temporary: it is destroyed at the end of the statement that creates it, *)
(* so the handle is back in the pool before the first query, and once more *)
(* at the end of the function.  Two threads may then use one MYSQL object  *)
(* at once, which is undefined: the process ends, or the queries of that   *)
(* object succeed, fail or hang from then on.                              *)
(***************************************************************************)
EXTENDS SqlPool

CONSTANT MaxServed   \* bound: calls of UserVerify that get to their last FreeConn

ASSUME VerifyAssumption == MaxServed \in Nat

VARIABLES stage,     \* where each thread is in UserVerify
          register,  \* ... and whether it is a registration (not isLogin)
          served,    \* calls that got to their last FreeConn
          spoilt,    \* the handles two threads have used at once
          proc       \* "up", or "failed" when errif ended the process, or "undefined"

verifyVars == <<vars, stage, register, served, spoilt, proc>>

VTypeOK ==
  /\ TypeOK
  /\ stage \in [Thread -> {"idle", "construct", "destruct", "query", "insert",
                           "free", "return"}]
  /\ register \in [Thread -> BOOLEAN]
  /\ served \in 0 .. MaxServed
  /\ spoilt \in SUBSET Sql
  /\ proc \in {"up", "failed", "undefined"}

VInit ==
  /\ Init
  /\ stage = [t \in Thread |-> "idle"]
  /\ register = [t \in Thread |-> FALSE]
  /\ served = 0
  /\ spoilt = {}
  /\ proc = "up"

\* The thread is at this statement, and not inside the pool.
Stands(t, step) == proc = "up" /\ stage[t] = step /\ pc[t] = "out"

Goes(t, step) == stage' = [stage EXCEPT ![t] = step]

\* Name and password are not empty; `sql' is null until the constructor sets it.
Begin(t) ==
  /\ Stands(t, "idle")
  /\ \E b \in BOOLEAN : register' = [register EXCEPT ![t] = b]
  /\ Goes(t, "construct")
  /\ UNCHANGED <<vars, served, spoilt, proc>>

\* GetConn returned nullptr, which the errif after the constructor sees.
GetsNull(t) ==
  /\ Stands(t, "construct")
  /\ FindsBusy(t)
  /\ proc' = "failed"
  /\ UNCHANGED <<vars, stage, register, served, spoilt>>

ConstructTemporary(t) ==
  /\ Stands(t, "construct")
  /\ FindsConn(t)
  /\ Goes(t, "destruct")
  /\ UNCHANGED <<register, served, spoilt, proc>>

\* The temporary dies; `sql' keeps the handle.
DestructTemporary(t) ==
  /\ Stands(t, "destruct")
  /\ PushConn(t)
  /\ Goes(t, "query")
  /\ UNCHANGED <<sql, register, served, spoilt, proc>>

\* The handle of a query, whose own copy in the pool has been given back.
Querying(t) == stage[t] \in {"query", "insert"} /\ pc[t] = "out"

SharesHandle(t) == \E u \in Thread \ {t} : Querying(u) /\ sql[u] = sql[t]

Queries(t) == spoilt' = IF SharesHandle(t) THEN spoilt \cup {sql[t]} ELSE spoilt

Succeeds(t) == served < MaxServed /\ served' = served + 1 /\ Goes(t, "free")

\* The locals of the call die.
Returns(t) ==
  /\ Goes(t, "idle")
  /\ sql' = [sql EXCEPT ![t] = None]
  /\ register' = [register EXCEPT ![t] = FALSE]

\* The SELECT fails and the function returns, or goes on with its outcome.
Query(t) ==
  /\ Stands(t, "query")
  /\ Queries(t)
  /\ \/ Returns(t) /\ UNCHANGED served
     \/ register[t] /\ Goes(t, "insert") /\ UNCHANGED <<sql, register, served>>
     \/ Succeeds(t) /\ UNCHANGED <<sql, register>>
  /\ UNCHANGED <<conns, sem, pc, proc>>

Insert(t) ==
  /\ Stands(t, "insert")
  /\ Queries(t)
  /\ \/ Returns(t) /\ UNCHANGED served
     \/ Succeeds(t) /\ UNCHANGED <<sql, register>>
  /\ UNCHANGED <<conns, sem, pc, proc>>

\* The object is in use by another thread, or was left inconsistent.
QueryRace(t) ==
  /\ Stands(t, "query") \/ Stands(t, "insert")
  /\ SharesHandle(t) \/ sql[t] \in spoilt
  /\ proc' = "undefined"
  /\ UNCHANGED <<vars, stage, register, served, spoilt>>

FreeAgain(t) ==
  /\ Stands(t, "free")
  /\ PushConn(t)
  /\ Goes(t, "return")
  /\ UNCHANGED <<sql, register, served, spoilt, proc>>

Return(t) ==
  /\ Stands(t, "return")
  /\ Returns(t)
  /\ UNCHANGED <<conns, sem, pc, served, spoilt, proc>>

InPool(t) ==
  /\ proc = "up"
  /\ SemWait(t) \/ PopConn(t) \/ SemPost(t)
  /\ UNCHANGED <<stage, register, served, spoilt, proc>>

UsesPool(t) ==
  \/ GetsNull(t) \/ ConstructTemporary(t) \/ DestructTemporary(t)
  \/ FreeAgain(t) \/ Return(t) \/ InPool(t)

Verify(t) == UsesPool(t) \/ Query(t) \/ Insert(t) \/ QueryRace(t)

VNext == \E t \in Thread : Begin(t) \/ Verify(t)

VSpec == VInit /\ [][VNext]_verifyVars

\* Requests come as they like and a query need not return; a thread outside the
\* queries goes on.
VFairSpec == VSpec /\ \A t \in Thread : WF_verifyVars(UsesPool(t))
-----------------------------------------------------------------------------
(* Properties. *)

\* Two threads never run a query on the same connection at the same time.
OneQueryPerConnection ==
  \A t, u \in Thread : t # u /\ Querying(t) /\ Querying(u) => sql[t] # sql[u]

\* FreeConn is never handed a null pointer (its assertion), and a thread is in
\* the pool only where UserVerify calls it.
HandleKnown ==
  \A t \in Thread :
    /\ stage[t] = "construct" => pc[t] = "out"
    /\ pc[t] \in {"wait", "pop"} => stage[t] = "destruct"
    /\ pc[t] = "post" => stage[t] \in {"query", "return"}
    /\ stage[t] \in {"query", "insert", "free", "return"} => sql[t] # None
    /\ stage[t] = "destruct" /\ pc[t] = "out" => sql[t] # None

\* Every connection is in the pool, or with a thread about to give it back.
Kept ==
  \A h \in Sql : \/ \E i \in DOMAIN conns : conns[i] = h
                 \/ \E t \in Thread : /\ stage[t] = "destruct" /\ pc[t] = "out"
                                      /\ sql[t] = h

\* The threads between PopConn and the end of the temporary.
Holders == {t \in Thread : stage[t] = "destruct" /\ pc[t] = "out"}

\* GetConn looks at the queue without the mutex, so it may be told that the pool
\* is empty when it is not, but only by a look that races with another thread's
\* change of the queue.  Any other time the errif of UserVerify ends the server
\* (SqlPool.cpp:40-43, HttpRequest.cpp:239), maxconn other threads hold a handle,
\* whatever was given back twice: with as many handles as threads, only the race
\* can end it.
AllOut == Cardinality(Holders) >= MaxConn

EndsOnlyWhenBusy ==
  [][\A t \in Thread :
       GetsNull(t) => AllOut \/ \E u \in Thread \ {t} : pc[u] \in {"pop", "post"}]_verifyVars

VInv == VTypeOK /\ Accounting /\ HandleKnown /\ Kept

\* The pool never jams: as long as threads wait for the semaphore, one after
\* another gets through, even if no query ever returns again and however many
\* calls come.  (Which one, the semaphore does not say: a thread may wait for ever
\* while others pass it.)
Passes(t) == pc[t] = "wait" /\ pc'[t] = "pop"

PoolNeverJams ==
  \/ []<>(At("wait") = {} \/ proc # "up")
  \/ []<><<\E t \in Thread : Passes(t)>>_verifyVars
=============================================================================
