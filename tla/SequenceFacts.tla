--------------------------- MODULE SequenceFacts ---------------------------
(***************************************************************************)
(* What the proofs about texts share: least and greatest numbers, and with *)
(* them induction over the natural numbers as a fact about sets; sequences *)
(* one behind the other; and what FlattenSeq computes.                     *)
(***************************************************************************)
EXTENDS Integers, SequencesExt, SequenceTheorems, WellFoundedInduction, TLAPS

\* A set of natural numbers has a least element.
LEMMA Least ==
  ASSUME NEW T \in SUBSET Nat, T # {}
  PROVE  \E i \in T : \A k \in T : i <= k
<1> DEFINE Smaller == {p \in Nat \X Nat : p[1] < p[2]}
<1>1. IsWellFoundedOn(Smaller, Nat)
  BY NatLessThanWellFounded DEF OpToRel
<1>2. PICK i \in T : \A k \in T : ~(<<k, i>> \in Smaller)
  <2> HIDE DEF Smaller
  <2> QED BY <1>1, WFMin
<1>3. \A k \in T : <<k, i>> \in Smaller \/ i <= k
  <2> TAKE k \in T
  <2> DEFINE q == <<k, i>>
  <2>1. k \in Nat /\ i \in Nat
    OBVIOUS
  <2>2. q \in Nat \X Nat /\ q[1] = k /\ q[2] = i
    BY <2>1
  <2> QED BY <2>1, <2>2
<1> QED BY <1>2, <1>3

\* A nonempty set of numbers up to n has a greatest element.
LEMMA Greatest ==
  ASSUME NEW n \in Nat, NEW T \in SUBSET (0 .. n), T # {}
  PROVE  \E i \in T : \A k \in T : k <= i
<1> DEFINE M == {n - k : k \in T}
<1>1. M \in SUBSET Nat /\ M # {}
  <2>1. \A k \in T : n - k \in Nat
    OBVIOUS
  <2> QED BY <2>1
<1>2. PICK m \in M : \A k \in M : m <= k
  <2> HIDE DEF M
  <2> QED BY <1>1, Least
<1>3. PICK i \in T : m = n - i
  OBVIOUS
<1>4. \A k \in T : n - i <= n - k
  BY <1>2, <1>3
<1> QED BY <1>4

\* Induction: a set that has 0, and with a number the next, has all numbers up to m.
LEMMA Induction ==
  ASSUME NEW m \in Nat, NEW T, 0 \in T, \A n \in T : n \in 0 .. m - 1 => n + 1 \in T
  PROVE  0 .. m \subseteq T
<1> DEFINE Bad == {n \in Nat : n \in 0 .. m /\ n \notin T}
<1>1. Bad = {}
  <2> SUFFICES ASSUME Bad # {} PROVE FALSE
    OBVIOUS
  <2>1. PICK k \in Bad : \A l \in Bad : k <= l
    <3>1. Bad \in SUBSET Nat
      OBVIOUS
    <3> HIDE DEF Bad
    <3> QED BY <3>1, Least
  <2>2. k \in 1 .. m
    BY <2>1
  <2>3. k - 1 \in Nat /\ k - 1 \in 0 .. m - 1 /\ k - 1 \in 0 .. m
        /\ ~(k <= k - 1) /\ (k - 1) + 1 = k
    BY ONLY <2>2, m \in Nat
  <2>4. k - 1 \in T
    <3>1. k - 1 \notin Bad
      <4> HIDE DEF Bad
      <4> QED BY <2>1, <2>3
    <3> QED BY <2>3, <3>1
  <2>5. k \in T
    BY <2>3, <2>4
  <2> QED BY <2>1, <2>5
<1> QED BY <1>1

\* f starts with b, and goes from place n - 1 to place n by G[n]; S[n] is what can
\* be at place n.
Runs(f, m, b, G, S) ==
  /\ f = [n \in 0 .. m |-> f[n]]
  /\ f[0] = b
  /\ \A n \in 1 .. m : f[n] = G[n][f[n - 1]]
  /\ \A n \in 0 .. m : f[n] \in S[n]

\* Recursion: there is such an f.
LEMMA Recursion ==
  ASSUME NEW m \in Nat, NEW b, NEW G, NEW S, b \in S[0],
         \A n \in 1 .. m : \A x \in S[n - 1] : G[n][x] \in S[n]
  PROVE  \E f : Runs(f, m, b, G, S)
<1> DEFINE T == {k \in Nat : \E f : Runs(f, k, b, G, S)}
<1>1. 0 \in T
  <2> DEFINE f == [n \in 0 .. 0 |-> b]
  <2>1. f[0] = b /\ f = [n \in 0 .. 0 |-> f[n]] /\ 0 .. 0 = {0} /\ 1 .. 0 = {}
    OBVIOUS
  <2> HIDE DEF f
  <2>2. Runs(f, 0, b, G, S)
    BY <2>1 DEF Runs
  <2> QED BY <2>2
<1>2. ASSUME NEW k \in T, k \in 0 .. m - 1 PROVE k + 1 \in T
  <2>1. PICK f : Runs(f, k, b, G, S)
    OBVIOUS
  <2> DEFINE last == G[k + 1][f[k]]
             g == [n \in 0 .. k + 1 |-> IF n = k + 1 THEN last ELSE f[n]]
  <2>2. k \in Nat /\ k + 1 \in 1 .. m /\ (k + 1) - 1 = k /\ k \in 0 .. k
    BY <1>2
  <2>3. last \in S[k + 1]
    <3>1. f[k] \in S[(k + 1) - 1]
      BY <2>1, <2>2 DEF Runs
    <3> QED BY <2>2, <3>1
  <2>3a. last = G[k + 1][f[k]]
    OBVIOUS
  <2> HIDE DEF last
  <2>4. g[k + 1] = last /\ \A n \in 0 .. k : g[n] = f[n]
    BY <2>2
  <2>5. g = [n \in 0 .. k + 1 |-> g[n]]
    OBVIOUS
  <2> HIDE DEF g
  <2>6. g[0] = b
    BY <2>1, <2>2, <2>4 DEF Runs
  <2>7. ASSUME NEW n \in 1 .. k + 1 PROVE g[n] = G[n][g[n - 1]]
    <3>1. n - 1 \in 0 .. k /\ g[n - 1] = f[n - 1]
      BY <2>2, <2>4
    <3>2. CASE n = k + 1
      BY <2>2, <2>3a, <2>4, <3>1, <3>2
    <3>3. CASE n # k + 1
      <4>1. n \in 1 .. k /\ n \in 0 .. k
        BY <2>2, <3>3
      <4>2. f[n] = G[n][f[n - 1]]
        BY <2>1, <4>1 DEF Runs
      <4> QED BY <2>4, <3>1, <4>1, <4>2
    <3> QED BY <3>2, <3>3
  <2>8. ASSUME NEW n \in 0 .. k + 1 PROVE g[n] \in S[n]
    <3>1. CASE n = k + 1
      BY <2>3, <2>4, <3>1
    <3>2. CASE n # k + 1
      <4>1. n \in 0 .. k
        BY <2>2, <3>2
      <4> QED BY <2>1, <2>4, <4>1 DEF Runs
    <3> QED BY <3>1, <3>2
  <2>9. Runs(g, k + 1, b, G, S)
    BY <2>5, <2>6, <2>7, <2>8 DEF Runs
  <2> QED BY <2>2, <2>9
<1>3. m \in T
  <2>1. \A n \in T : n \in 0 .. m - 1 => n + 1 \in T
    BY <1>2
  <2> HIDE DEF T
  <2>2. 0 .. m \subseteq T
    BY <1>1, <2>1, Induction
  <2> QED BY <2>2
<1> QED BY <1>3

Alike(f, g, m) == \A n \in 0 .. m : f[n] = g[n]

\* Two functions that begin alike and go on alike are alike.
LEMMA Agree ==
  ASSUME NEW m \in Nat, NEW f, NEW g, f[0] = g[0],
         \A n \in 1 .. m : f[n - 1] = g[n - 1] => f[n] = g[n]
  PROVE  Alike(f, g, m)
<1> DEFINE T == {k \in Nat : k \in 0 .. m /\ f[k] = g[k]}
<1>1. 0 \in T
  OBVIOUS
<1>2. ASSUME NEW k \in T, k \in 0 .. m - 1 PROVE k + 1 \in T
  <2>1. k + 1 \in 1 .. m /\ (k + 1) - 1 = k /\ k + 1 \in Nat /\ k + 1 \in 0 .. m
    BY <1>2
  <2>2. f[k + 1] = g[k + 1]
    BY <2>1
  <2> QED BY <2>1, <2>2
<1>3. \A k \in T : k \in 0 .. m - 1 => k + 1 \in T
  BY <1>2
<1>4. 0 .. m \subseteq T
  <2> HIDE DEF T
  <2> QED BY <1>1, <1>3, Induction
<1> QED BY <1>4 DEF Alike

-----------------------------------------------------------------------------
(* Sequences. *)

\* Two sequences one after the other.
LEMMA ConcatParts ==
  ASSUME NEW S, NEW s \in Seq(S), NEW t \in Seq(S)
  PROVE  /\ s \o t \in Seq(S)
         /\ Len(s \o t) = Len(s) + Len(t)
         /\ \A i \in 1 .. Len(s) : (s \o t)[i] = s[i]
         /\ \A i \in 1 .. Len(t) : (s \o t)[Len(s) + i] = t[i]
<1>1. Len(s) \in Nat /\ Len(t) \in Nat
  OBVIOUS
<1>2. s \o t \in Seq(S) /\ Len(s \o t) = Len(s) + Len(t)
  OBVIOUS
<1>3. \A i \in 1 .. Len(s) : (s \o t)[i] = s[i]
  OBVIOUS
<1>4. ASSUME NEW i \in 1 .. Len(t) PROVE (s \o t)[Len(s) + i] = t[i]
  OBVIOUS
<1> QED BY <1>2, <1>3, <1>4

\* f[i] is the first i of the sequences, one behind the other.
Flat(S, seqs, f, n) ==
  /\ f \in [1 .. n -> Seq(S)]
  /\ f[1] = seqs[1]
  /\ \A i \in 2 .. n : f[i] = f[i - 1] \o seqs[i]

LEMMA FlatExists ==
  ASSUME NEW S, NEW seqs \in Seq(Seq(S)), seqs # <<>>
  PROVE  \E f : Flat(S, seqs, f, Len(seqs))
<1> DEFINE m == Len(seqs)
           Bad == {k \in Nat : k \in 1 .. m /\ ~(\E f : Flat(S, seqs, f, k))}
<1>1. m \in Nat /\ m >= 1 /\ \A i \in 1 .. m : seqs[i] \in Seq(S)
  OBVIOUS
<1>2. \E f : Flat(S, seqs, f, 1)
  <2> DEFINE f == [i \in 1 .. 1 |-> seqs[1]]
  <2>1. f \in [1 .. 1 -> Seq(S)] /\ f[1] = seqs[1]
    BY <1>1
  <2> HIDE DEF f
  <2> QED BY <2>1 DEF Flat
<1>3. ASSUME NEW n \in 1 .. m - 1, NEW f, Flat(S, seqs, f, n)
      PROVE  \E g : Flat(S, seqs, g, n + 1)
  <2> DEFINE last == f[n] \o seqs[n + 1]
             g == [i \in 1 .. n + 1 |-> IF i = n + 1 THEN last ELSE f[i]]
  <2>1. last \in Seq(S)
    <3>1. n + 1 \in 1 .. m /\ f[n] \in Seq(S) /\ seqs[n + 1] \in Seq(S)
      BY <1>1, <1>3 DEF Flat
    <3> QED BY <3>1, ConcatParts
  <2>2. last = f[n] \o seqs[n + 1]
    OBVIOUS
  <2> HIDE DEF last, m
  <2>3. n \in Nat /\ n >= 1
    BY <1>1
  <2>4. g \in [1 .. n + 1 -> Seq(S)]
    <3>1. \A i \in 1 .. n : f[i] \in Seq(S)
      BY <1>3 DEF Flat
    <3> QED BY <2>1, <2>3, <3>1
  <2>5. g[n + 1] = last /\ \A i \in 1 .. n : g[i] = f[i]
    BY <2>3
  <2> HIDE DEF g
  <2>6. g[1] = seqs[1]
    BY <1>3, <2>3, <2>5 DEF Flat
  <2>7. ASSUME NEW i \in 2 .. n + 1 PROVE g[i] = g[i - 1] \o seqs[i]
    <3>1. i - 1 \in 1 .. n /\ g[i - 1] = f[i - 1]
      BY <2>3, <2>5
    <3>2. CASE i = n + 1
      <4>1. i - 1 = n
        BY <3>2, <2>3
      <4> QED BY <3>1, <3>2, <4>1, <2>2, <2>5
    <3>3. CASE i # n + 1
      <4>1. i \in 2 .. n /\ i \in 1 .. n
        BY <3>3, <2>3
      <4>2. f[i] = f[i - 1] \o seqs[i]
        BY <1>3, <4>1 DEF Flat
      <4> QED BY <3>1, <4>1, <4>2, <2>5
    <3> QED BY <3>2, <3>3
  <2> QED BY <2>4, <2>6, <2>7 DEF Flat
<1>4. Bad = {}
  <2> SUFFICES ASSUME Bad # {} PROVE FALSE
    OBVIOUS
  <2>1. PICK k \in Bad : \A l \in Bad : k <= l
    <3>1. Bad \in SUBSET Nat
      OBVIOUS
    <3> HIDE DEF Bad
    <3> QED BY <3>1, Least
  <2>2. k \in 1 .. m /\ k # 1
    BY <2>1, <1>2
  <2>3. k - 1 \in 1 .. m - 1 /\ (k - 1) + 1 = k /\ ~(k <= k - 1) /\ k - 1 \in Nat
    <3> HIDE DEF m, Bad
    <3> QED BY <1>1, <2>2
  <2>4. k - 1 \notin Bad
    <3> HIDE DEF Bad
    <3> QED BY <2>1, <2>3
  <2>5. \E f : Flat(S, seqs, f, k - 1)
    <3>1. k - 1 \in 1 .. m
      <4> HIDE DEF m, Bad
      <4> QED BY <2>3, <1>1
    <3> QED BY <2>3, <2>4, <3>1
  <2>6. \E f : Flat(S, seqs, f, k)
    <3> HIDE DEF m, Bad
    <3>1. \E f : Flat(S, seqs, f, (k - 1) + 1)
      BY <1>3, <2>3, <2>5
    <3> QED BY <3>1, <2>3
  <2> QED BY <2>1, <2>6
<1> QED BY <1>1, <1>4

Begins(q, p) == Len(p) <= Len(q) /\ \A j \in 1 .. Len(p) : q[j] = p[j]

\* What the first i of them begin with, the first h begin with.
LEMMA FlatPrefix ==
  ASSUME NEW S, NEW seqs \in Seq(Seq(S)), NEW m \in 1 .. Len(seqs),
         NEW f, Flat(S, seqs, f, m), NEW i \in 1 .. m, NEW h \in i .. m
  PROVE  Begins(f[h], f[i])
<1> DEFINE Kept(k) == Len(f[i]) <= Len(f[k]) /\ \A j \in 1 .. Len(f[i]) : f[k][j] = f[i][j]
           Bad == {k \in Nat : k \in i .. m /\ ~Kept(k)}
<1>1. m \in Nat /\ i \in Nat /\ i >= 1 /\ m <= Len(seqs) /\ Len(seqs) \in Nat
  OBVIOUS
<1>2. \A k \in 1 .. m : f[k] \in Seq(S) /\ Len(f[k]) \in Nat
  BY DEF Flat
<1>3. Bad = {}
  <2> SUFFICES ASSUME Bad # {} PROVE FALSE
    OBVIOUS
  <2>1. PICK k \in Bad : \A l \in Bad : k <= l
    <3>1. Bad \in SUBSET Nat
      OBVIOUS
    <3> HIDE DEF Bad
    <3> QED BY <3>1, Least
  <2>2. Kept(i)
    BY <1>1, <1>2
  <2>3. k \in i .. m /\ k # i
    BY <2>1, <2>2
  <2>4. k - 1 \in i .. m /\ k \in 2 .. m /\ ~(k <= k - 1) /\ k - 1 \in Nat /\ k - 1 \in 1 .. m
    BY ONLY <1>1, <2>3
  <2>5. Kept(k - 1)
    <3>1. k - 1 \notin Bad
      <4> HIDE DEF Bad
      <4> QED BY <2>1, <2>4
    <3> HIDE DEF Kept
    <3> QED BY <2>4, <3>1
  <2> DEFINE p == f[k - 1]
             q == seqs[k]
  <2>6. p \in Seq(S) /\ q \in Seq(S) /\ f[k] = p \o q
    <3>1. k \in 1 .. Len(seqs)
      BY ONLY <1>1, <2>4
    <3>2. p \in Seq(S) /\ f[k] = p \o q
      BY <1>2, <2>4 DEF Flat
    <3>3. q \in Seq(S)
      BY <3>1
    <3> QED BY <3>2, <3>3
  <2>7. /\ Len(p \o q) = Len(p) + Len(q)
        /\ \A j \in 1 .. Len(p) : (p \o q)[j] = p[j]
    <3> HIDE DEF p, q
    <3> QED BY <2>6, ConcatParts
  <2>8. Kept(k)
    <3>1. Len(f[i]) <= Len(p) /\ \A j \in 1 .. Len(f[i]) : p[j] = f[i][j]
      BY <2>5
    <3> HIDE DEF p, q
    <3>2. Len(p) \in Nat /\ Len(q) \in Nat /\ Len(f[i]) \in Nat
      BY <1>2, <2>6
    <3>3. Len(f[k]) = Len(p) + Len(q)
      BY <2>6, <2>7
    <3>4. \A j \in 1 .. Len(p) : f[k][j] = p[j]
      BY <2>6, <2>7
    <3> QED BY ONLY <3>1, <3>2, <3>3, <3>4
  <2> QED BY <2>1, <2>8
<1>4. h \in Nat /\ h \in i .. m
  OBVIOUS
<1> HIDE DEF Kept
<1>5. Kept(h)
  BY <1>3, <1>4
<1> QED BY <1>5 DEF Kept, Begins

\* FlattenSeq goes through such a row.
LEMMA FlattenIs ==
  ASSUME NEW S, NEW seqs \in Seq(Seq(S)), seqs # <<>>
  PROVE  \E f : Flat(S, seqs, f, Len(seqs)) /\ FlattenSeq(seqs) = f[Len(seqs)]
<1> DEFINE m == Len(seqs)
<1>1. m \in Nat /\ m >= 1 /\ \A i \in 1 .. m : seqs[i] \in Seq(S) /\ Len(seqs[i]) \in Nat
  OBVIOUS
<1>2. PICK f : Flat(S, seqs, f, m)
  BY FlatExists
<1> DEFINE flatten == CHOOSE g : g = [i \in 1 .. m |-> IF i = 1 THEN seqs[i] ELSE g[i - 1] \o seqs[i]]
<1>3. FlattenSeq(seqs) = flatten[m]
  BY <1>1 DEF FlattenSeq
<1>4. Flat(S, seqs, flatten, m)
  <2>1. f = [i \in 1 .. m |-> IF i = 1 THEN seqs[i] ELSE f[i - 1] \o seqs[i]]
    <3>1. f = [i \in 1 .. m |-> f[i]]
      BY <1>2 DEF Flat
    <3>2. \A i \in 1 .. m : f[i] = IF i = 1 THEN seqs[i] ELSE f[i - 1] \o seqs[i]
      <4> TAKE i \in 1 .. m
      <4>1. i = 1 \/ i \in 2 .. m
        BY <1>1
      <4> QED BY <4>1, <1>2 DEF Flat
    <3> QED BY <3>1, <3>2
  <2>2. flatten = [i \in 1 .. m |-> IF i = 1 THEN seqs[i] ELSE flatten[i - 1] \o seqs[i]]
    BY <2>1
  <2> HIDE DEF flatten, m
  <2>3. DEFINE Good(k) == flatten[k] = f[k]
               Bad == {k \in Nat : k \in 1 .. m /\ ~Good(k)}
  <2>4. \A i \in 1 .. m : flatten[i] = IF i = 1 THEN seqs[i] ELSE flatten[i - 1] \o seqs[i]
    BY <2>2
  <2>5. Bad = {}
    <3> SUFFICES ASSUME Bad # {} PROVE FALSE
      OBVIOUS
    <3>1. PICK k \in Bad : \A l \in Bad : k <= l
      <4>1. Bad \in SUBSET Nat
        OBVIOUS
      <4> HIDE DEF Bad
      <4> QED BY <4>1, Least
    <3>2. k \in 1 .. m /\ k # 1
      <4>1. Good(1)
        <5>1. 1 \in 1 .. m
          BY <1>1
        <5> QED BY <5>1, <2>1, <2>4
      <4> QED BY <3>1, <4>1
    <3>3. k - 1 \in 1 .. m /\ ~(k <= k - 1) /\ k - 1 \in Nat
      BY ONLY <1>1, <3>2
    <3>4. k - 1 \notin Bad
      <4> HIDE DEF Bad
      <4> QED BY <3>1, <3>3
    <3>5. flatten[k - 1] = f[k - 1]
      BY <3>3, <3>4
    <3>6. flatten[k] = flatten[k - 1] \o seqs[k] /\ f[k] = f[k - 1] \o seqs[k]
      BY <3>2, <2>1, <2>4
    <3> QED BY <3>1, <3>5, <3>6
  <2>6. ASSUME NEW k \in 1 .. m PROVE flatten[k] = f[k]
    <3>1. k \in Nat
      BY <1>1
    <3> QED BY <3>1, <2>5
  <2>7. flatten = f
    <3>1. flatten = [i \in 1 .. m |-> flatten[i]]
      BY <2>2, Zenon
    <3>2. f = [i \in 1 .. m |-> f[i]]
      BY <1>2 DEF Flat
    <3> QED BY <3>1, <3>2, <2>6
  <2> QED BY <1>2, <2>7
<1> QED BY <1>3, <1>4

\* The sequences one behind the other: the first i of them take the first at[i]
\* places.
Laid(seqs, flat, at) ==
  /\ at \in [0 .. Len(seqs) -> Nat] /\ at[0] = 0 /\ at[Len(seqs)] = Len(flat)
  /\ \A i \in 1 .. Len(seqs) :
       /\ at[i] = at[i - 1] + Len(seqs[i]) /\ at[i] <= Len(flat)
       /\ \A j \in 1 .. Len(seqs[i]) : flat[at[i - 1] + j] = seqs[i][j]

LEMMA Flattened ==
  ASSUME NEW S, NEW seqs \in Seq(Seq(S)), seqs # <<>>
  PROVE  /\ FlattenSeq(seqs) \in Seq(S)
         /\ \E at : Laid(seqs, FlattenSeq(seqs), at)
<1> DEFINE m == Len(seqs)
<1>1. m \in Nat /\ m >= 1 /\ \A i \in 1 .. m : seqs[i] \in Seq(S) /\ Len(seqs[i]) \in Nat
  OBVIOUS
<1>2. PICK flatten : Flat(S, seqs, flatten, m) /\ FlattenSeq(seqs) = flatten[m]
  BY FlattenIs
<1>3. FlattenSeq(seqs) = flatten[m]
  BY <1>2
<1>4. Flat(S, seqs, flatten, m)
  BY <1>2
<1> DEFINE at == [i \in 0 .. m |-> IF i = 0 THEN 0 ELSE Len(flatten[i])]
<1>5. \A i \in 1 .. m : flatten[i] \in Seq(S) /\ Len(flatten[i]) \in Nat
  BY <1>4 DEF Flat
<1>6. /\ at \in [0 .. m -> Nat] /\ at[0] = 0
      /\ \A i \in 1 .. m : at[i] = Len(flatten[i])
  BY <1>1, <1>5
<1> HIDE DEF at
<1>7. ASSUME NEW i \in 1 .. m
      PROVE  /\ at[i] = at[i - 1] + Len(seqs[i])
             /\ \A j \in 1 .. Len(seqs[i]) : flatten[i][at[i - 1] + j] = seqs[i][j]
  <2>1. CASE i = 1
    <3>1. flatten[1] = seqs[1] /\ i - 1 = 0 /\ at[i] = Len(seqs[1]) /\ Len(seqs[1]) \in Nat
      BY <2>1, <1>1, <1>4, <1>6 DEF Flat
    <3> QED BY <2>1, <3>1, <1>6
  <2>2. CASE i # 1
    <3> DEFINE p == flatten[i - 1]
               q == seqs[i]
    <3>1. i - 1 \in 1 .. m /\ i \in 2 .. m
      BY <2>2, <1>1
    <3>2. p \in Seq(S) /\ q \in Seq(S) /\ flatten[i] = p \o q /\ at[i - 1] = Len(p)
      BY <1>1, <1>4, <1>5, <1>6, <3>1 DEF Flat
    <3>3. at[i] = Len(flatten[i])
      BY <1>6
    <3> HIDE DEF p
    <3>4. /\ Len(p \o q) = Len(p) + Len(q)
          /\ \A j \in 1 .. Len(q) : (p \o q)[Len(p) + j] = q[j]
      <4> HIDE DEF q
      <4> QED BY <3>2, ConcatParts
    <3> QED BY <3>2, <3>3, <3>4
  <2> QED BY <2>1, <2>2
<1>8. ASSUME NEW i \in 1 .. m, NEW j \in 1 .. Len(seqs[i])
      PROVE  flatten[m][at[i - 1] + j] = seqs[i][j]
  <2>1. /\ at[i - 1] \in Nat /\ Len(seqs[i]) \in Nat /\ at[i] \in Nat
        /\ Len(flatten[i]) = at[i - 1] + Len(seqs[i])
    <3>1. i - 1 \in 0 .. m /\ i \in 0 .. m
      BY <1>1
    <3> QED BY <3>1, <1>1, <1>6, <1>7
  <2>2. at[i - 1] + j \in 1 .. Len(flatten[i])
    BY ONLY <2>1, j \in 1 .. Len(seqs[i])
  <2>3. m \in 1 .. Len(seqs) /\ m \in i .. m
    BY <1>1
  <2>4. \A n \in 1 .. Len(flatten[i]) : flatten[m][n] = flatten[i][n]
    <3>1. Begins(flatten[m], flatten[i])
      <4> HIDE DEF m
      <4> QED BY <1>4, <2>3, FlatPrefix
    <3> QED BY <3>1 DEF Begins
  <2> QED BY <1>7, <2>2, <2>4
<1>9. flatten[m] \in Seq(S) /\ Len(flatten[m]) = at[m]
  <2>1. m \in 1 .. m
    BY <1>1
  <2> QED BY <2>1, <1>5, <1>6
<1>10. ASSUME NEW i \in 1 .. m PROVE at[i] <= Len(flatten[m])
  <2>1. m \in 1 .. Len(seqs) /\ m \in i .. m
    BY <1>1
  <2>2. Len(flatten[i]) <= Len(flatten[m])
    <3>1. Begins(flatten[m], flatten[i])
      <4> HIDE DEF m
      <4> QED BY <1>4, <2>1, FlatPrefix
    <3> QED BY <3>1 DEF Begins
  <2> QED BY <1>6, <2>2
<1>11. Laid(seqs, flatten[m], at)
  BY <1>6, <1>7, <1>8, <1>9, <1>10 DEF Laid
<1> QED BY <1>3, <1>9, <1>11

\* The texts of a row of sequences behind v, one by one.
Behinds(S, v, seqs, g) ==
  /\ g \in [0 .. Len(seqs) -> Seq(S)] /\ g[0] = v
  /\ \A n \in 1 .. Len(seqs) : g[n] = g[n - 1] \o seqs[n]
  /\ g[Len(seqs)] = v \o FlattenSeq(seqs)

LEMMA FlatBehind ==
  ASSUME NEW S, NEW v \in Seq(S), NEW seqs \in Seq(Seq(S))
  PROVE  \E g : Behinds(S, v, seqs, g)
<1> DEFINE m == Len(seqs)
<1>1. m \in Nat /\ \A i \in 1 .. m : seqs[i] \in Seq(S)
  OBVIOUS
<1>2. CASE seqs = <<>>
  <2> DEFINE g == [n \in 0 .. 0 |-> v]
  <2>1. FlattenSeq(seqs) = <<>> /\ m = 0
    BY <1>2 DEF FlattenSeq
  <2>2. v \o <<>> = v
    BY ConcatEmptySeq
  <2>3. g \in [0 .. m -> Seq(S)] /\ g[0] = v /\ 1 .. m = {}
    BY <2>1
  <2> HIDE DEF g
  <2>4. Behinds(S, v, seqs, g)
    BY <2>1, <2>2, <2>3 DEF Behinds
  <2> QED BY <2>4
<1>3. CASE seqs # <<>>
  <2>1. PICK f : Flat(S, seqs, f, m) /\ FlattenSeq(seqs) = f[m]
    BY <1>3, FlattenIs
  <2>2. m >= 1
    BY <1>3
  <2>2a. f \in [1 .. m -> Seq(S)] /\ f[1] = seqs[1]
         /\ \A i \in 2 .. m : f[i] = f[i - 1] \o seqs[i]
    <3> HIDE DEF m
    <3> QED BY <2>1 DEF Flat
  <2> DEFINE g == [n \in 0 .. m |-> IF n = 0 THEN v ELSE v \o f[n]]
  <2> HIDE DEF m
  <2>3. \A n \in 1 .. m : f[n] \in Seq(S) /\ v \o f[n] \in Seq(S)
    BY <2>2a, ConcatParts
  <2>4. g \in [0 .. m -> Seq(S)] /\ g[0] = v /\ \A n \in 1 .. m : g[n] = v \o f[n]
    BY <1>1, <2>3
  <2> HIDE DEF g
  <2>5. ASSUME NEW n \in 1 .. m PROVE g[n] = g[n - 1] \o seqs[n]
    <3>1. CASE n = 1
      <4>1. n - 1 = 0 /\ f[n] = seqs[n]
        BY <3>1, <2>2a
      <4> QED BY <2>4, <4>1
    <3>2. CASE n # 1
      <4>1. n \in 2 .. m /\ n - 1 \in 1 .. m
        BY <3>2, <1>1
      <4> DEFINE p == f[n - 1]
                 q == seqs[n]
      <4>2. p \in Seq(S) /\ q \in Seq(S) /\ g[n - 1] = v \o p /\ f[n] = p \o q
            /\ g[n] = v \o f[n]
        BY <1>1, <2>2a, <2>3, <2>4, <4>1
      <4> HIDE DEF p, q
      <4>4. v \in Seq(S) /\ p \in Seq(S) /\ q \in Seq(S)
        BY <4>2
      <4>3. (v \o p) \o q = v \o (p \o q)
        BY ONLY <4>4, ConcatAssociative
      <4> QED BY <4>2, <4>3 DEF q
    <3> QED BY <3>1, <3>2
  <2>6. g[m] = v \o FlattenSeq(seqs)
    BY <1>1, <2>1, <2>2, <2>4
  <2>7. Behinds(S, v, seqs, g)
    BY <2>4, <2>5, <2>6 DEF Behinds, m
  <2> QED BY <2>7
<1> QED BY <1>2, <1>3

\* at cuts t into the sequences: each goes on where the one before it ends.
CutsInto(t, seqs, at) ==
  /\ at \in [0 .. Len(seqs) -> 0 .. Len(t)] /\ at[0] = 0
  /\ \A i \in 1 .. Len(seqs) :
       at[i - 1] <= at[i] /\ seqs[i] = SubSeq(t, at[i - 1] + 1, at[i])

\* Such sequences one behind the other are what was cut.
LEMMA PiecesJoin ==
  ASSUME NEW S, NEW t \in Seq(S), NEW seqs \in Seq(Seq(S)), seqs # <<>>,
         NEW at, CutsInto(t, seqs, at)
  PROVE  FlattenSeq(seqs) = SubSeq(t, 1, at[Len(seqs)])
<1> DEFINE m == Len(seqs)
<1>1. m \in Nat /\ m >= 1 /\ \A i \in 1 .. m : seqs[i] \in Seq(S)
  OBVIOUS
<1>2. PICK f : Flat(S, seqs, f, m) /\ FlattenSeq(seqs) = f[m]
  BY FlattenIs
<1>3. FlattenSeq(seqs) = f[m] /\ f[1] = seqs[1] /\ \A i \in 2 .. m : f[i] = f[i - 1] \o seqs[i]
  BY <1>2 DEF Flat
<1>4. /\ at \in [0 .. m -> 0 .. Len(t)] /\ at[0] = 0
      /\ \A i \in 1 .. m : at[i - 1] <= at[i] /\ seqs[i] = SubSeq(t, at[i - 1] + 1, at[i])
  BY DEF CutsInto
<1> HIDE DEF m
<1> DEFINE T == {n \in Nat : n \in 0 .. m - 1 /\ f[n + 1] = SubSeq(t, 1, at[n + 1])}
<1>5. 0 \in T
  <2>1. 1 \in 1 .. m /\ 1 - 1 = 0 /\ 0 + 1 = 1
    BY <1>1
  <2>2. seqs[1] = SubSeq(t, at[0] + 1, at[1])
    BY <1>4, <2>1
  <2> QED BY <1>1, <1>3, <1>4, <2>1, <2>2
<1>6. ASSUME NEW n \in T, n \in 0 .. (m - 1) - 1 PROVE n + 1 \in T
  <2>1. n \in Nat /\ n + 1 \in 1 .. m /\ n + 2 \in 1 .. m /\ n + 2 \in 2 .. m
        /\ (n + 2) - 1 = n + 1 /\ (n + 1) + 1 = n + 2 /\ n + 1 \in 0 .. m - 1
    BY <1>1, <1>6
  <2> DEFINE a == at[n + 1]
             b == at[n + 2]
  <2>2. a \in 0 .. Len(t) /\ b \in 0 .. Len(t) /\ a <= b
    <3>1. at[(n + 2) - 1] <= at[n + 2]
      BY <1>4, <2>1
    <3>2. \A k \in 1 .. m : at[k] \in 0 .. Len(t)
      <4>1. \A k \in 1 .. m : k \in 0 .. m
        OBVIOUS
      <4> QED BY <1>4, <4>1
    <3> QED BY <2>1, <3>1, <3>2
  <2>3. f[n + 2] = SubSeq(t, 1, a) \o SubSeq(t, a + 1, b)
    <3>1. f[n + 2] = f[(n + 2) - 1] \o seqs[n + 2]
      BY <1>3, <2>1
    <3>2. seqs[n + 2] = SubSeq(t, at[(n + 2) - 1] + 1, at[n + 2])
      BY <1>4, <2>1
    <3>3. f[n + 1] = SubSeq(t, 1, at[n + 1])
      OBVIOUS
    <3> QED BY <2>1, <3>1, <3>2, <3>3
  <2> HIDE DEF a, b
  <2>4. SubSeq(t, 1, a) \o SubSeq(t, a + 1, b) = SubSeq(t, 1, b)
    <3>1. Len(t) \in Nat
      OBVIOUS
    <3>2. 1 \in 1 .. Len(t) + 1 /\ a \in 1 - 1 .. Len(t) /\ b \in a .. Len(t)
      BY <2>2, <3>1
    <3> QED BY <3>2, ConcatAdjacentSubSeq
  <2>5. f[(n + 1) + 1] = SubSeq(t, 1, at[(n + 1) + 1])
    BY <2>1, <2>3, <2>4 DEF b
  <2> QED BY <2>1, <2>5
<1>7. 0 .. m - 1 \subseteq T
  <2>1. m - 1 \in Nat
    BY <1>1
  <2> HIDE DEF T
  <2> QED BY <1>5, <1>6, <2>1, Induction
<1>8. m - 1 \in T /\ (m - 1) + 1 = m
  <2>1. m - 1 \in 0 .. m - 1 /\ (m - 1) + 1 = m
    BY <1>1
  <2> HIDE DEF T
  <2> QED BY <1>7, <2>1
<1> QED BY <1>3, <1>8 DEF m

\* A sequence over S is one over more.
LEMMA SeqOfMore == ASSUME NEW S, NEW T, S \subseteq T, NEW t \in Seq(S) PROVE t \in Seq(T)
<1>1. Len(t) \in Nat /\ t = [i \in 1 .. Len(t) |-> t[i]] /\ \A i \in 1 .. Len(t) : t[i] \in T
  BY ElementOfSeq
<1> QED BY <1>1

\* A row of sequences, empty or not, is laid out by FlattenSeq.
LEMMA LaidOut ==
  ASSUME NEW S, NEW seqs \in Seq(Seq(S))
  PROVE  FlattenSeq(seqs) \in Seq(S) /\ \E at : Laid(seqs, FlattenSeq(seqs), at)
<1>1. CASE seqs = <<>>
  <2> DEFINE at == [i \in 0 .. 0 |-> 0]
  <2>1. FlattenSeq(seqs) = <<>> /\ Len(seqs) = 0
    BY <1>1 DEF FlattenSeq
  <2>2. at \in [0 .. 0 -> Nat] /\ at[0] = 0 /\ 1 .. 0 = {} /\ Len(<<>>) = 0 /\ <<>> \in Seq(S)
    OBVIOUS
  <2> HIDE DEF at
  <2>3. Laid(seqs, FlattenSeq(seqs), at)
    BY <2>1, <2>2 DEF Laid
  <2> QED BY <2>1, <2>2, <2>3
<1>2. CASE seqs # <<>>
  BY <1>2, Flattened
<1> QED BY <1>1, <1>2
=============================================================================
