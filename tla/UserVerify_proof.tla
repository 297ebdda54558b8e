-------------------------- MODULE UserVerify_proof --------------------------
(***************************************************************************)
(* Proofs about UserVerify and the pool it uses, for any number of threads *)
(* and of connections: in spite of the premature and the repeated FreeConn *)
(* the semaphore counts the queue, no thread takes from an empty queue,    *)
(* FreeConn is given a handle, no connection is lost, and but for a race   *)
(* the errif of UserVerify ends the server only when all handles are out.  *)
(***************************************************************************)
EXTENDS UserVerify, FiniteSetTheorems, TLAPS

-----------------------------------------------------------------------------
(* SqlPool. *)

\* Moving one thread changes the sets of threads at the two labels only.
LEMMA Move ==
  ASSUME TypeOK, NEW t \in Thread, NEW from, NEW to, from # to, pc[t] = from, GoTo(t, to)
  PROVE  /\ At(from)' = At(from) \ {t} /\ At(to)' = At(to) \cup {t}
         /\ \A s : s # from /\ s # to => At(s)' = At(s)
BY DEF TypeOK, GoTo, At

\* The sizes of these sets.
LEMMA Count ==
  ASSUME TypeOK, NEW s
  PROVE  /\ Cardinality(At(s)) \in Nat
         /\ \A t \in At(s) : Cardinality(At(s) \ {t}) = Cardinality(At(s)) - 1
         /\ \A t \in Thread \ At(s) : Cardinality(At(s) \cup {t}) = Cardinality(At(s)) + 1
<1>1. IsFiniteSet(At(s))
  BY PoolAssumption, FS_Subset DEF At
<1> QED
  BY <1>1, FS_CardinalityType, FS_AddElement, FS_RemoveElement

LEMMA CountZero == ASSUME TypeOK, NEW s
                   PROVE  Cardinality(At(s)) = 0 <=> At(s) = {}
BY PoolAssumption, FS_Subset, FS_EmptySet DEF At

\* A thread that has the semaphore finds a handle (GetConn, front()).
LEMMA PopsFull ==
  ASSUME TypeOK, Accounting, NEW t \in Thread, pc[t] = "pop"
  PROVE  conns # <<>> /\ Len(conns) \in Nat \ {0}
<1>1. At("pop") # {} /\ Cardinality(At("pop")) \in Nat /\ Cardinality(At("post")) \in Nat
  BY Count DEF At
<1>2. Cardinality(At("pop")) # 0
  BY <1>1, CountZero
<1> QED
  BY <1>1, <1>2 DEF Accounting, TypeOK

-----------------------------------------------------------------------------
(* Every operation of the pool keeps the account, whoever calls it.        *)

LEMMA FindsConnCounts ==
  ASSUME TypeOK, Accounting, NEW t \in Thread, FindsConn(t)
  PROVE  Accounting' /\ pc' \in [Thread -> {"out", "wait", "pop", "post"}]
<1>1. At("pop")' = At("pop") /\ At("post")' = At("post")
  BY Move DEF FindsConn
<1> QED
  BY <1>1 DEF FindsConn, GoTo, Accounting, TypeOK

LEMMA SemWaitCounts ==
  ASSUME TypeOK, Accounting, NEW t \in Thread, SemWait(t)
  PROVE  /\ Accounting' /\ sem' \in Nat
         /\ pc' \in [Thread -> {"out", "wait", "pop", "post"}]
<1>1. At("pop")' = At("pop") \cup {t} /\ At("post")' = At("post") /\ t \notin At("pop")
  BY Move DEF SemWait, At
<1>2. Cardinality(At("pop")') = Cardinality(At("pop")) + 1 /\ Cardinality(At("pop")) \in Nat
  BY <1>1, Count
<1>3. Cardinality(At("post")) \in Nat /\ Len(conns) \in Nat
  BY Count DEF TypeOK
<1> QED
  BY <1>1, <1>2, <1>3 DEF SemWait, WaitSem, GoTo, Accounting, TypeOK

LEMMA PopCounts ==
  ASSUME TypeOK, Accounting, NEW t \in Thread, PopConn(t)
  PROVE  /\ Accounting' /\ conns' \in Seq(Sql)
         /\ sql' = [sql EXCEPT ![t] = Head(conns)] /\ Head(conns) \in Sql
         /\ pc' \in [Thread -> {"out", "wait", "pop", "post"}]
<1>1. At("pop")' = At("pop") \ {t} /\ At("post")' = At("post") /\ t \in At("pop")
  BY Move DEF PopConn, At
<1>2. Cardinality(At("pop")') = Cardinality(At("pop")) - 1 /\ Cardinality(At("pop")) \in Nat
  BY <1>1, Count
<1>3. Cardinality(At("post")) \in Nat
  BY Count
<1>4. conns # <<>> /\ Len(conns) \in Nat \ {0}
  BY PopsFull DEF PopConn
<1>5. Len(conns') = Len(conns) - 1 /\ conns' \in Seq(Sql) /\ Head(conns) \in Sql
  BY <1>4 DEF PopConn, WithoutFront, TypeOK
<1> QED
  BY <1>1, <1>2, <1>3, <1>4, <1>5 DEF PopConn, GoTo, Accounting, TypeOK

LEMMA PushCounts ==
  ASSUME TypeOK, Accounting, NEW t \in Thread, PushConn(t)
  PROVE  /\ Accounting' /\ conns' \in Seq(Sql)
         /\ pc' \in [Thread -> {"out", "wait", "pop", "post"}]
<1>1. At("pop")' = At("pop") /\ At("post")' = At("post") \cup {t} /\ t \notin At("post")
  BY Move DEF PushConn, At
<1>2. Cardinality(At("post")') = Cardinality(At("post")) + 1 /\ Cardinality(At("post")) \in Nat
  BY <1>1, Count
<1>3. Cardinality(At("pop")) \in Nat
  BY Count
<1>4. sql[t] \in Sql /\ conns' = Append(conns, sql[t])
  BY DEF PushConn, Put, TypeOK
<1>5. Len(conns') = Len(conns) + 1 /\ conns' \in Seq(Sql) /\ Len(conns) \in Nat
  BY <1>4 DEF TypeOK
<1> QED
  BY <1>1, <1>2, <1>3, <1>5 DEF PushConn, GoTo, Accounting, TypeOK

LEMMA PostCounts ==
  ASSUME TypeOK, Accounting, NEW t \in Thread, SemPost(t)
  PROVE  /\ Accounting' /\ sem' \in Nat
         /\ pc' \in [Thread -> {"out", "wait", "pop", "post"}]
<1>1. At("post")' = At("post") \ {t} /\ At("pop")' = At("pop") /\ t \in At("post")
  BY Move DEF SemPost, At
<1>2. Cardinality(At("post")') = Cardinality(At("post")) - 1 /\ Cardinality(At("post")) \in Nat
  BY <1>1, Count
<1>3. Cardinality(At("pop")) \in Nat /\ Len(conns) \in Nat
  BY Count DEF TypeOK
<1> QED
  BY <1>1, <1>2, <1>3 DEF SemPost, Post, GoTo, Accounting, TypeOK

LEMMA InitCounts == Init => TypeOK /\ Accounting /\ NoLeak
<1> SUFFICES ASSUME Init PROVE TypeOK /\ Accounting /\ NoLeak
  OBVIOUS
<1> USE PoolAssumption DEF Init
<1>1. conns \in Seq(Sql) /\ Len(conns) = MaxConn /\ DOMAIN conns = Sql
  BY DEF Sql
<1>2. TypeOK
  BY <1>1 DEF TypeOK
<1>3. At("pop") = {} /\ At("post") = {}
  BY DEF At
<1>4. Cardinality(At("pop")) = 0 /\ Cardinality(At("post")) = 0
  BY <1>2, <1>3, CountZero
<1>5. Accounting
  BY <1>1, <1>4 DEF Accounting
<1>6. NoLeak
  BY <1>1 DEF NoLeak, Sql
<1> QED
  BY <1>2, <1>5, <1>6

-----------------------------------------------------------------------------
(* UserVerify. *)

LEMMA VInitInv == VInit => VInv
<1> SUFFICES ASSUME VInit PROVE VInv
  OBVIOUS
<1> USE PoolAssumption, VerifyAssumption DEF VInit
<1>1. TypeOK /\ Accounting /\ NoLeak
  BY InitCounts
<1>2. VTypeOK /\ HandleKnown
  BY <1>1 DEF VTypeOK, HandleKnown, Init
<1>3. Kept
  BY <1>1 DEF NoLeak, Kept, Init
<1> QED
  BY <1>1, <1>2, <1>3 DEF VInv

\* Steps of UserVerify outside the pool.
LEMMA OutsideStep ==
  ASSUME VInv, NEW t \in Thread,
         \/ Begin(t) \/ GetsNull(t) \/ Query(t) \/ Insert(t) \/ QueryRace(t)
         \/ Return(t)
  PROVE  VInv'
<1> USE PoolAssumption, VerifyAssumption DEF VInv, Stands, Goes
<1>1. CASE Begin(t)
  <2>1. VTypeOK'
    BY <1>1 DEF Begin, vars, VTypeOK, TypeOK
  <2>2. Accounting' /\ HandleKnown'
    BY <1>1 DEF Begin, vars, VTypeOK, TypeOK, Accounting, At, HandleKnown
  <2>3. Kept'
    BY <1>1 DEF Begin, vars, VTypeOK, TypeOK, Kept
  <2> QED
    BY <2>1, <2>2, <2>3
<1>2. CASE GetsNull(t) \/ QueryRace(t)
  <2>1. /\ UNCHANGED <<conns, sem, pc, sql, stage, register, served, spoilt>>
        /\ proc' \in {"failed", "undefined"}
    BY <1>2 DEF GetsNull, QueryRace, vars
  <2>2. VTypeOK'
    BY <2>1 DEF VTypeOK, TypeOK
  <2>3. Accounting' /\ HandleKnown' /\ Kept'
    BY <2>1 DEF Accounting, At, HandleKnown, Kept
  <2> QED
    BY <2>2, <2>3
<1>3. CASE Query(t) \/ Insert(t) \/ Return(t)
  <2>1. PICK step \in {"idle", "insert", "free"} :
          /\ stage[t] \in {"query", "insert", "return"} /\ pc[t] = "out"
          /\ stage' = [stage EXCEPT ![t] = step]
          /\ step # "idle" => sql[t] # None /\ UNCHANGED sql
          /\ sql' \in {sql, [sql EXCEPT ![t] = None]}
          /\ register' \in {register, [register EXCEPT ![t] = FALSE]}
          /\ served' \in 0 .. MaxServed /\ spoilt' \in SUBSET Sql
          /\ UNCHANGED <<conns, sem, pc, proc>>
    <3>1. CASE Query(t) \/ Insert(t)
      <4>1. sql[t] \in Sql /\ sql[t] # None
        BY <3>1 DEF Query, Insert, HandleKnown, VTypeOK, TypeOK
      <4>2. spoilt' \in SUBSET Sql
        BY <3>1, <4>1 DEF Query, Insert, Queries, VTypeOK
      <4>3. served' \in 0 .. MaxServed
        BY <3>1 DEF Query, Insert, Succeeds, VTypeOK
      <4> QED BY <3>1, <4>1, <4>2, <4>3 DEF Query, Insert, Succeeds, Returns
    <3>2. CASE Return(t)
      BY <3>2 DEF Return, Returns, VTypeOK
    <3> QED BY <1>3, <3>1, <3>2
  <2>2. VTypeOK'
    BY <2>1 DEF VTypeOK, TypeOK
  <2>3. \A u \in Thread : u # t => stage'[u] = stage[u] /\ sql'[u] = sql[u]
    BY <2>1 DEF VTypeOK, TypeOK
  <2>4. stage'[t] = step
    BY <2>1 DEF VTypeOK
  <2>5. Accounting' /\ HandleKnown'
    BY <2>1, <2>3, <2>4 DEF Accounting, At, HandleKnown
  <2>6. Kept'
    <3>1. \A u \in Thread : stage[u] = "destruct" => u # t
      BY <2>1
    <3> QED BY <2>1, <2>3, <3>1 DEF Kept
  <2> QED
    BY <2>2, <2>5, <2>6
<1> QED
  BY <1>1, <1>2, <1>3

LEMMA ConstructStep ==
  ASSUME VInv, NEW t \in Thread, ConstructTemporary(t)
  PROVE  VInv'
<1> USE DEF VInv, ConstructTemporary, Stands, Goes
<1>1. Accounting' /\ pc' \in [Thread -> {"out", "wait", "pop", "post"}]
  BY FindsConnCounts DEF VTypeOK
<1>2. VTypeOK'
  BY <1>1 DEF FindsConn, VTypeOK, TypeOK
<1>3. HandleKnown'
  BY DEF FindsConn, GoTo, VTypeOK, TypeOK, HandleKnown
<1>4. Kept'
  BY DEF FindsConn, GoTo, VTypeOK, TypeOK, Kept
<1> QED
  BY <1>1, <1>2, <1>3, <1>4

\* Both calls of FreeConn, the temporary's and the one at the end.
LEMMA FreeStep ==
  ASSUME VInv, NEW t \in Thread, DestructTemporary(t) \/ FreeAgain(t)
  PROVE  VInv'
<1> USE DEF VInv
<1>1. PICK step \in {"query", "return"} :
        /\ PushConn(t) /\ stage' = [stage EXCEPT ![t] = step]
        /\ pc[t] = "out" /\ sql[t] # None
        /\ UNCHANGED <<sql, sem, register, served, spoilt, proc>>
  BY DEF DestructTemporary, FreeAgain, Stands, Goes, PushConn
<1>2. /\ Accounting' /\ conns' \in Seq(Sql)
      /\ pc' \in [Thread -> {"out", "wait", "pop", "post"}]
  BY <1>1, PushCounts DEF VTypeOK
<1>3. /\ pc' = [pc EXCEPT ![t] = "post"]
      /\ \A i \in DOMAIN conns : i \in DOMAIN conns' /\ conns'[i] = conns[i]
      /\ Len(conns) + 1 \in DOMAIN conns' /\ conns'[Len(conns) + 1] = sql[t]
  BY <1>1 DEF PushConn, Put, GoTo, VTypeOK, TypeOK
<1>4. VTypeOK'
  BY <1>1, <1>2 DEF VTypeOK, TypeOK
<1>5. HandleKnown'
  BY <1>1, <1>3 DEF VTypeOK, TypeOK, HandleKnown
<1>6. Kept'
  <2> SUFFICES ASSUME NEW h \in Sql
               PROVE  \/ \E i \in DOMAIN conns' : conns'[i] = h
                      \/ \E u \in Thread : /\ stage'[u] = "destruct" /\ pc'[u] = "out"
                                           /\ sql'[u] = h
    BY DEF Kept
  <2>1. CASE \E i \in DOMAIN conns : conns[i] = h
    BY <1>3, <2>1
  <2>2. CASE \E u \in Thread : /\ stage[u] = "destruct" /\ pc[u] = "out"
                               /\ sql[u] = h
    <3>1. PICK u \in Thread : stage[u] = "destruct" /\ pc[u] = "out" /\ sql[u] = h
      BY <2>2
    <3>2. CASE u = t
      BY <1>3, <3>1, <3>2
    <3>3. CASE u # t
      BY <1>1, <1>3, <3>1, <3>3 DEF VTypeOK, TypeOK
    <3> QED
      BY <3>2, <3>3
  <2> QED
    BY <2>1, <2>2 DEF Kept
<1> QED
  BY <1>2, <1>4, <1>5, <1>6

LEMMA PoolStep ==
  ASSUME VInv, NEW t \in Thread, InPool(t)
  PROVE  VInv'
<1> USE DEF VInv
<1>0. UNCHANGED <<stage, register, served, spoilt, proc>>
  BY DEF InPool
<1>1. CASE SemWait(t)
  <2>1. /\ Accounting' /\ sem' \in Nat
        /\ pc' \in [Thread -> {"out", "wait", "pop", "post"}]
    BY <1>1, SemWaitCounts DEF VTypeOK
  <2>2. VTypeOK'
    BY <1>0, <1>1, <2>1 DEF SemWait, VTypeOK, TypeOK
  <2>3. HandleKnown' /\ Kept'
    BY <1>0, <1>1 DEF SemWait, GoTo, VTypeOK, TypeOK, HandleKnown, Kept
  <2> QED
    BY <2>1, <2>2, <2>3
<1>2. CASE PopConn(t)
  <2> DEFINE k == Head(conns)
  <2>1. /\ Accounting' /\ conns' \in Seq(Sql)
        /\ sql' = [sql EXCEPT ![t] = k] /\ k \in Sql
        /\ pc' \in [Thread -> {"out", "wait", "pop", "post"}]
    BY <1>2, PopCounts DEF VTypeOK
  <2>2. /\ conns # <<>> /\ Len(conns) \in Nat \ {0} /\ UNCHANGED sem
        /\ pc[t] = "pop" /\ pc' = [pc EXCEPT ![t] = "out"]
    BY <1>2, PopsFull DEF PopConn, GoTo, VTypeOK
  <2>3. /\ DOMAIN conns' = 1 .. Len(conns) - 1 /\ DOMAIN conns = 1 .. Len(conns)
        /\ \A i \in DOMAIN conns' : conns'[i] = conns[i + 1]
        /\ k = conns[1]
    BY <1>2, <2>2 DEF PopConn, WithoutFront, VTypeOK, TypeOK
  <2> HIDE DEF k
  <2>4. VTypeOK'
    BY <1>0, <2>1, <2>2 DEF VTypeOK, TypeOK
  <2>5. stage[t] = "destruct" /\ k # None
    BY <2>1, <2>2, PoolAssumption DEF HandleKnown
  <2>6. HandleKnown'
    BY <1>0, <2>1, <2>2, <2>5 DEF VTypeOK, TypeOK, HandleKnown
  <2>7. Kept'
    <3> SUFFICES ASSUME NEW h \in Sql
                 PROVE  \/ \E i \in DOMAIN conns' : conns'[i] = h
                        \/ \E u \in Thread : /\ stage'[u] = "destruct" /\ pc'[u] = "out"
                                             /\ sql'[u] = h
      BY DEF Kept
    <3>1. CASE \E i \in DOMAIN conns : conns[i] = h
      <4>1. PICK i \in DOMAIN conns : conns[i] = h
        BY <3>1
      <4>2. CASE i = 1
        BY <1>0, <2>1, <2>2, <2>3, <2>5, <4>1, <4>2 DEF VTypeOK, TypeOK
      <4>3. CASE i # 1
        <5>1. i - 1 \in DOMAIN conns' /\ (i - 1) + 1 = i
          BY <2>2, <2>3, <4>3
        <5> QED
          BY <2>3, <4>1, <5>1
      <4> QED
        BY <4>2, <4>3
    <3>2. CASE \E u \in Thread : /\ stage[u] = "destruct" /\ pc[u] = "out"
                                 /\ sql[u] = h
      BY <1>0, <2>1, <2>2, <3>2 DEF VTypeOK, TypeOK
    <3> QED
      BY <3>1, <3>2 DEF Kept
  <2> QED
    BY <2>1, <2>4, <2>6, <2>7
<1>3. CASE SemPost(t)
  <2>1. /\ Accounting' /\ sem' \in Nat
        /\ pc' \in [Thread -> {"out", "wait", "pop", "post"}]
    BY <1>3, PostCounts DEF VTypeOK
  <2>2. VTypeOK'
    BY <1>0, <1>3, <2>1 DEF SemPost, VTypeOK, TypeOK
  <2>3. HandleKnown' /\ Kept'
    BY <1>0, <1>3 DEF SemPost, GoTo, VTypeOK, TypeOK, HandleKnown, Kept
  <2> QED
    BY <2>1, <2>2, <2>3
<1> QED
  BY <1>1, <1>2, <1>3 DEF InPool

LEMMA VStep == VInv /\ [VNext]_verifyVars => VInv'
<1> SUFFICES ASSUME VInv, [VNext]_verifyVars PROVE VInv'
  OBVIOUS
<1>1. ASSUME NEW t \in Thread, Begin(t) \/ Verify(t) PROVE VInv'
  BY <1>1, OutsideStep, ConstructStep, FreeStep, PoolStep DEF Verify, UsesPool
<1>2. CASE UNCHANGED verifyVars
  BY <1>2 DEF verifyVars, vars, VInv, VTypeOK, TypeOK, Accounting, At, HandleKnown, Kept
<1> QED
  BY <1>1, <1>2 DEF VNext

-----------------------------------------------------------------------------
(* Theorems. *)

\* The pool as UserVerify really uses it: see the theorems that follow.
THEOREM VerifyInvariance == VSpec => []VInv
<1>1. VInit => VInv
  BY VInitInv
<1>2. VInv /\ [VNext]_verifyVars => VInv'
  BY VStep
<1> QED
  BY <1>1, <1>2, PTL DEF VSpec

\* No thread takes the front of an empty queue.
THEOREM VerifyPopsAreSafe == VSpec => []NeverPopsEmpty
<1>1. VInv => NeverPopsEmpty
  BY PopsFull DEF VInv, VTypeOK, NeverPopsEmpty
<1> QED
  BY <1>1, VerifyInvariance, PTL

\* No connection is lost, whichever queries fail and return early.
THEOREM VerifyKeepsConnections == VSpec => []NoLeak
<1>1. VInv => NoLeak
  BY DEF VInv, Kept, NoLeak
<1> QED
  BY <1>1, VerifyInvariance, PTL

\* An empty pool has maxconn holders: each connection has one, and nobody
\* holds two.
LEMMA EmptyWhenAllOut ==
  ASSUME VInv, conns = <<>>
  PROVE  AllOut
<1> DEFINE owner == [t \in Holders |-> sql[t]]
<1>1. IsFiniteSet(Holders)
  BY PoolAssumption, FS_Subset DEF Holders
<1>2. Sql \subseteq {sql[t] : t \in Holders}
  BY DEF VInv, Kept, Holders
<1>3. /\ IsFiniteSet({sql[t] : t \in Holders})
      /\ Cardinality({sql[t] : t \in Holders}) <= Cardinality(Holders)
  <2>1. owner \in Surjection(Holders, {sql[t] : t \in Holders})
    BY DEF Surjection
  <2> HIDE DEF owner
  <2> QED
    BY <1>1, <2>1, FS_Surjection
<1>4. IsFiniteSet(Sql) /\ Cardinality(Sql) = MaxConn
  BY PoolAssumption, FS_Interval DEF Sql
<1>5. Cardinality(Sql) <= Cardinality({sql[t] : t \in Holders})
  BY <1>2, <1>3, FS_Subset
<1> QED
  BY <1>1, <1>3, <1>4, <1>5, PoolAssumption, FS_CardinalityType DEF AllOut

\* The errif of UserVerify ends the server only when maxconn other threads hold
\* a handle, or when GetConn looked at the queue, without the mutex, while
\* another thread changed it.
THEOREM VerifyEndsOnlyWhenBusy == VSpec => EndsOnlyWhenBusy
<1> DEFINE Busy(t) == AllOut \/ \E u \in Thread \ {t} : pc[u] \in {"pop", "post"}
<1>1. ASSUME VInv, NEW t \in Thread, GetsNull(t) PROVE Busy(t)
  <2>1. TRUE \in SeenEmpty(t)
    BY <1>1 DEF GetsNull, FindsBusy
  <2>2. CASE \E u \in Thread \ {t} : pc[u] \in {"pop", "post"}
    BY <2>2
  <2>3. CASE ~ \E u \in Thread \ {t} : pc[u] \in {"pop", "post"}
    <3>1. conns = <<>>
      BY <2>1, <2>3 DEF SeenEmpty
    <3> QED BY <1>1, <3>1, EmptyWhenAllOut
  <2> QED BY <2>2, <2>3
<1>2. VInv => [\A t \in Thread : GetsNull(t) => Busy(t)]_verifyVars
  BY <1>1
<1> QED
  BY <1>2, VerifyInvariance, PTL DEF EndsOnlyWhenBusy
=============================================================================
