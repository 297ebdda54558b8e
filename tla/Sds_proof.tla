----------------------------- MODULE Sds_proof -----------------------------
(***************************************************************************)
(* What holds of strings of every length and for all limits of the         *)
(* headers: SdsInv, what every operation means, and that an append moves a *)
(* string seldom; that what is printed is printed whole and reads back;    *)
(* that texts compare and map as they should; that splitting loses no      *)
(* byte; and that quoted texts are read back.                              *)
(***************************************************************************)
EXTENDS SdsText, SequenceFacts, FiniteSetTheorems

Raw == Byte \cup {Garbage}

-----------------------------------------------------------------------------
(* The header. *)

LEMMA ReqTypeFits ==
  ASSUME NEW n \in Nat
  PROVE  ReqType(n) \in Type /\ (ReqType(n) # 64 => n < Below[ReqType(n)])
BY SdsAssumption DEF ReqType, Type

LEMMA FieldKeeps ==
  ASSUME NEW type \in Type, NEW n \in Nat, type # 64 => n < Below[type]
  PROVE  Field(type, n) = n
<1>1. CASE type = 64
  BY <1>1 DEF Field
<1>2. CASE type # 64
  <2>1. Below[type] \in Nat \ {0} /\ n < Below[type]
    BY <1>2, SdsAssumption DEF Type
  <2>2. n % Below[type] = n
    BY <2>1
  <2> QED BY <1>2, <2>2 DEF Field
<1> QED BY <1>1, <1>2

LEMMA PreallocRoom ==
  ASSUME NEW n \in Nat
  PROVE  /\ Prealloc(n) \in Nat
         /\ Prealloc(n) - n >= IF n < MaxPrealloc THEN n ELSE MaxPrealloc
BY SdsAssumption DEF Prealloc

-----------------------------------------------------------------------------
(* Writing to the block. *)

LEMMA StoreFits ==
  ASSUME NEW x, Fits(x), NEW t \in Seq(Raw), NEW at \in Nat,
         at + Len(t) <= Len(x.buf)
  PROVE  LET y == Store(x, at, t) IN
         /\ Fits(y)
         /\ y.type = x.type /\ y.len = x.len /\ y.alloc = x.alloc /\ y.block = x.block
         /\ \A i \in 1 .. Len(x.buf) :
              y.buf[i] = IF i \in at + 1 .. at + Len(t) THEN t[i - at] ELSE x.buf[i]
<1> DEFINE y == Store(x, at, t)
<1>1. x \in SdsType /\ x.buf \in Seq(Raw) /\ Len(t) \in Nat
  BY DEF Fits, SdsType, Raw
<1> DEFINE f == [i \in 1 .. Len(x.buf) |->
                  IF i \in at + 1 .. at + Len(t) THEN t[i - at] ELSE x.buf[i]]
<1>2. \A i \in 1 .. Len(x.buf) :
        (IF i \in at + 1 .. at + Len(t) THEN t[i - at] ELSE x.buf[i]) \in Raw
  BY <1>1
<1>3. f \in Seq(Raw) /\ Len(f) = Len(x.buf)
  BY <1>1, <1>2
<1>4. y = [x EXCEPT !.buf = f]
  <2> DEFINE end == IF at + Len(t) > Len(x.buf) THEN at + Len(t) ELSE Len(x.buf)
             g == [i \in 1 .. end |-> IF i \in at + 1 .. at + Len(t) THEN t[i - at]
                                     ELSE IF i <= Len(x.buf) THEN x.buf[i] ELSE Garbage]
  <2>1. Len(x.buf) \in Nat /\ end = Len(x.buf)
    BY <1>1
  <2>2. \A i \in 1 .. Len(x.buf) : i <= Len(x.buf)
    BY <2>1
  <2>3. g = f
    BY <2>1, <2>2
  <2> QED BY <2>3 DEF Store
<1> HIDE DEF y
<1>5. /\ y.type = x.type /\ y.len = x.len /\ y.alloc = x.alloc /\ y.block = x.block
      /\ y.buf = f
      /\ y \in SdsType
  <2> HIDE DEF f
  <2> QED BY <1>1, <1>3, <1>4 DEF SdsType, Raw
<1>6. Fits(y)
  <2> HIDE DEF f
  <2> QED BY <1>3, <1>5 DEF Fits, Alloc
<1> QED BY <1>5, <1>6 DEF y

\* How every operation on the text ends.
LEMMA EndedSound ==
  ASSUME NEW x, Fits(x), NEW n \in 0 .. Alloc(x),
         \A i \in 1 .. n : x.buf[i] \in Byte
  PROVE  LET y == Ended(x, n) IN
         /\ Fits(y) /\ Ends(y)
         /\ y.len = n /\ y.type = x.type /\ y.block = x.block
         /\ y.alloc = x.alloc
         /\ \A i \in 1 .. n : y.buf[i] = x.buf[i]
<1>1. x \in SdsType /\ n \in Nat /\ n < Len(x.buf) /\ (x.type # 64 => n < Below[x.type])
  BY SdsAssumption DEF Fits, SdsType, Alloc, Type
<1> DEFINE z == Store(x, n, <<Nul>>)
           y == Ended(x, n)
<1>2. <<Nul>> \in Seq(Raw) /\ Len(<<Nul>>) = 1 /\ <<Nul>>[1] = Nul
  BY SdsAssumption DEF Raw
<1> HIDE DEF y
<1>2a. n + Len(<<Nul>>) <= Len(x.buf)
  BY <1>1, <1>2 DEF SdsType
<1>3. /\ Fits(z)
      /\ z.type = x.type /\ z.len = x.len /\ z.alloc = x.alloc /\ z.block = x.block
      /\ \A i \in 1 .. Len(x.buf) :
           z.buf[i] = IF i \in n + 1 .. n + Len(<<Nul>>) THEN <<Nul>>[i - n] ELSE x.buf[i]
  BY <1>1, <1>2, <1>2a, StoreFits
<1> HIDE DEF z
<1>4. z.buf[n + 1] = Nul /\ \A i \in 1 .. n : z.buf[i] = x.buf[i]
  BY <1>1, <1>2, <1>3 DEF SdsType
<1>5. Field(z.type, n) = n
  BY <1>1, <1>3, FieldKeeps DEF SdsType
<1>6. y = [z EXCEPT !.len = n]
  BY <1>5 DEF Ended, SetLen, y, z
<1>7. z \in SdsType
  BY <1>3 DEF Fits
<1>8. /\ y.len = n /\ y.type = z.type /\ y.block = z.block /\ y.alloc = z.alloc
      /\ y.buf = z.buf /\ y \in SdsType
  BY <1>1, <1>6, <1>7 DEF SdsType
<1>9. Fits(y)
  <2>1. Alloc(z) = Alloc(x)
    BY <1>3 DEF Alloc
  <2>2. n <= Alloc(y) /\ Alloc(y) < y.block
    BY <1>1, <1>3, <1>8, <2>1 DEF Alloc, Fits, SdsType
  <2>3. y.type # 64 => y.len < Below[y.type] /\ y.alloc < Below[y.type]
    BY <1>1, <1>3, <1>8 DEF Fits
  <2> QED BY <1>3, <1>8, <2>2, <2>3 DEF Fits
<1>10. Ends(y)
  BY <1>4, <1>8 DEF Ends
<1> QED BY <1>3, <1>4, <1>8, <1>9, <1>10 DEF y
-----------------------------------------------------------------------------
(* Blocks. *)

LEMMA MoveSound ==
  ASSUME NEW x, Fits(x), NEW type \in Type, NEW n \in Nat, NEW keep \in Nat,
         type # 64 => n < Below[type], x.len <= n, type = 5 => n = x.len, keep > x.len
  PROVE  LET y == SetAlloc(SetLen(Move(x, type, n, keep), x.len), n) IN
         /\ Fits(y) /\ (Ends(x) => Ends(y))
         /\ y.type = type /\ y.len = x.len /\ y.block = n + 1 /\ Alloc(y) = n
         /\ \A i \in 1 .. x.len : y.buf[i] = x.buf[i]
<1>1. x \in SdsType /\ x.len \in Nat /\ x.buf \in Seq(Raw) /\ Len(x.buf) > x.len
  BY SdsAssumption DEF Fits, SdsType, Raw, Alloc
<1> DEFINE f == [i \in 1 .. n + 1 |-> IF i <= keep /\ i <= Len(x.buf) THEN x.buf[i]
                                     ELSE Garbage]
           a == IF type = 5 THEN 0 ELSE n
           y == SetAlloc(SetLen(Move(x, type, n, keep), x.len), n)
<1>2. \A i \in 1 .. n + 1 :
        (IF i <= keep /\ i <= Len(x.buf) THEN x.buf[i] ELSE Garbage) \in Raw
  BY <1>1 DEF Raw
<1>3. f \in Seq(Raw) /\ Len(f) = n + 1
  BY <1>2
<1>4. \A i \in 1 .. x.len + 1 : f[i] = x.buf[i]
  BY <1>1
<1>5. Field(type, x.len) = x.len /\ Field(type, n) = n
  <2>1. type # 64 => x.len < Below[type]
    BY <1>1, SdsAssumption DEF Type
  <2> QED BY <1>1, <2>1, FieldKeeps
<1> DEFINE m == Move(x, type, n, keep)
<1>6. m = [x EXCEPT !.type = type, !.alloc = 0, !.block = n + 1, !.buf = f]
  BY DEF Move
<1> HIDE DEF m, f
<1>7. m.type = type /\ m.alloc = 0 /\ m.block = n + 1 /\ m.buf = f /\ m.len = x.len
      /\ m \in SdsType
  <2>1. n + 1 \in Nat /\ 0 \in Nat /\ f \in Seq(Byte \cup {Garbage})
    BY <1>3 DEF Raw
  <2> HIDE DEF Raw
  <2> QED BY <1>1, <1>6, <2>1 DEF SdsType
<1> DEFINE l == SetLen(m, x.len)
<1>8. l = [m EXCEPT !.len = x.len]
  BY <1>5, <1>7 DEF SetLen
<1> HIDE DEF l
<1>9. l.type = type /\ l.alloc = 0 /\ l.block = n + 1 /\ l.buf = f /\ l.len = x.len
      /\ l \in SdsType
  BY <1>1, <1>7, <1>8 DEF SdsType
<1>10. y = SetAlloc(l, n)
  BY DEF l, m
<1> HIDE DEF y
<1>11. y.type = type /\ y.alloc = a /\ y.block = n + 1 /\ y.buf = f /\ y.len = x.len
       /\ y \in SdsType
  <2>1. CASE type = 5
    BY <1>9, <1>10, <2>1 DEF SetAlloc
  <2>2. CASE type # 5
    <3>1. y = [l EXCEPT !.alloc = n]
      BY <1>5, <1>9, <1>10, <2>2 DEF SetAlloc
    <3> QED BY <1>9, <2>2, <3>1 DEF SdsType
  <2> QED BY <2>1, <2>2
<1>12. Alloc(y) = n
  BY <1>11 DEF Alloc
<1>13. Fits(y)
  BY <1>1, <1>3, <1>11, <1>12, SdsAssumption DEF Fits, Type
<1>14. ASSUME Ends(x) PROVE Ends(y)
  <2>1. x.len + 1 \in 1 .. x.len + 1 /\ \A i \in 1 .. x.len : i \in 1 .. x.len + 1
    BY <1>1
  <2>2. f[x.len + 1] = Nul /\ \A i \in 1 .. x.len : f[i] \in Byte
    BY <1>4, <1>14, <2>1 DEF Ends
  <2> QED BY <1>11, <2>2 DEF Ends
<1>15. \A i \in 1 .. x.len : y.buf[i] = x.buf[i]
  BY <1>1, <1>4, <1>11
<1> QED BY <1>11, <1>12, <1>13, <1>14, <1>15 DEF y

\* A string whose free space does not do is moved, to a header that has a
\* capacity.  The loop of sdscatfmt moves strings that have no zero byte behind them yet.
LEMMA MakeRoomSound ==
  ASSUME NEW x, Fits(x), NEW add \in Nat
  PROVE  LET y == sdsMakeRoomFor(x, add) IN
         /\ Fits(y) /\ (Ends(x) => Ends(y))
         /\ y.len = x.len /\ x.len + add <= Alloc(y)
         /\ \A i \in 1 .. x.len : y.buf[i] = x.buf[i]
         /\ IF Avail(x) >= add THEN y = x
            ELSE y.type # 5 /\ Alloc(y) = Prealloc(x.len + add)
<1> DEFINE n == Prealloc(x.len + add)
           type == IF ReqType(n) = 5 THEN 8 ELSE ReqType(n)
           keep == IF type = x.type THEN Len(x.buf) ELSE x.len + 1
<1>1. x.len \in Nat /\ x.alloc \in Nat /\ Len(x.buf) \in Nat /\ Len(x.buf) > x.len
  BY SdsAssumption DEF Fits, SdsType, Alloc
<1>2. n \in Nat /\ n >= x.len + add
  <2>1. x.len + add \in Nat
    BY <1>1
  <2>2. /\ Prealloc(x.len + add) \in Nat
        /\ Prealloc(x.len + add) >= x.len + add
    BY <2>1, SdsAssumption DEF Prealloc
  <2> QED BY <2>2
<1>3. CASE Avail(x) >= add
  <2>1. sdsMakeRoomFor(x, add) = x
    BY <1>3 DEF sdsMakeRoomFor
  <2>2. x.len + add <= Alloc(x)
    BY <1>1, <1>3 DEF Avail, Alloc
  <2> QED BY <1>3, <2>1, <2>2
<1>4. CASE ~(Avail(x) >= add)
  <2>1. sdsMakeRoomFor(x, add) = SetAlloc(SetLen(Move(x, type, n, keep), x.len), n)
    BY <1>4 DEF sdsMakeRoomFor
  <2>2. type \in Type /\ type # 5 /\ (type # 64 => n < Below[type])
    BY <1>2, ReqTypeFits, SdsAssumption DEF Type
  <2>3. keep \in Nat /\ keep > x.len
    BY <1>1
  <2>4. x.len <= n
    BY <1>1, <1>2
  <2> HIDE DEF n, type, keep
  <2>5. LET y == SetAlloc(SetLen(Move(x, type, n, keep), x.len), n) IN
        /\ Fits(y) /\ (Ends(x) => Ends(y))
        /\ y.type = type /\ y.len = x.len /\ y.block = n + 1 /\ Alloc(y) = n
        /\ \A i \in 1 .. x.len : y.buf[i] = x.buf[i]
    BY <1>2, <2>2, <2>3, <2>4, MoveSound
  <2> QED BY <1>2, <1>4, <2>1, <2>2, <2>5 DEF n
<1> QED BY <1>3, <1>4

LEMMA RemoveFreeSpaceSound ==
  ASSUME NEW x, Fits(x), Ends(x)
  PROVE  LET y == sdsRemoveFreeSpace(x) IN
         /\ Fits(y) /\ Ends(y)
         /\ y.len = x.len /\ \A i \in 1 .. x.len : y.buf[i] = x.buf[i]
<1> DEFINE type == IF ReqType(x.len) > 8 THEN x.type ELSE ReqType(x.len)
<1>1. x.len \in Nat /\ x.type \in Type /\ (x.type # 64 => x.len < Below[x.type])
  BY DEF Fits, SdsType
<1>2. type \in Type /\ (type # 64 => x.len < Below[type])
  BY <1>1, ReqTypeFits
<1>3. CASE Avail(x) = 0
  BY <1>3 DEF sdsRemoveFreeSpace
<1>4. CASE Avail(x) # 0
  <2>1. sdsRemoveFreeSpace(x) = SetAlloc(SetLen(Move(x, type, x.len, x.len + 1), x.len), x.len)
    BY <1>4 DEF sdsRemoveFreeSpace
  <2> HIDE DEF type
  <2>2. x.len + 1 \in Nat /\ x.len + 1 > x.len /\ x.len <= x.len
    BY <1>1
  <2> QED BY <1>1, <1>2, <2>1, <2>2, MoveSound
<1> QED BY <1>3, <1>4

LEMMA NewSound ==
  ASSUME NEW t \in Seq(Byte)
  PROVE  Fits(sdsnewlen(t)) /\ Ends(sdsnewlen(t))
<1> DEFINE n == Len(t)
           type == IF n = 0 THEN 8 ELSE ReqType(n)
           y == sdsnewlen(t)
<1>1. n \in Nat /\ type \in Type /\ (type # 64 => n < Below[type])
  BY ReqTypeFits, SdsAssumption DEF Type
<1>2. Field(type, n) = n
  <2> HIDE DEF type, n
  <2> QED BY <1>1, FieldKeeps
<1>3. /\ Append(t, Nul) \in Seq(Raw) /\ Len(Append(t, Nul)) = n + 1
      /\ \A i \in 1 .. n : Append(t, Nul)[i] \in Byte
      /\ Append(t, Nul)[n + 1] = Nul
  <2>1. t \in Seq(Raw) /\ Nul \in Raw
    BY SdsAssumption DEF Raw
  <2> QED BY <2>1, AppendProperties
<1>4. y = [type |-> type, len |-> n, alloc |-> IF type = 5 THEN 0 ELSE n,
           block |-> n + 1, buf |-> Append(t, Nul)]
  BY <1>2 DEF sdsnewlen
<1> HIDE DEF n, type, y
<1>5. y \in SdsType
  BY <1>1, <1>3, <1>4 DEF SdsType, Raw
<1>6. y.type = type /\ y.len = n /\ y.alloc = (IF type = 5 THEN 0 ELSE n) /\ y.block = n + 1
      /\ y.buf = Append(t, Nul)
  BY <1>4
<1>7. Fits(y)
  <2>1. type # 64 => Below[type] \in Nat \ {0}
    BY <1>1, SdsAssumption DEF Type
  <2> QED BY <1>1, <1>3, <1>5, <1>6, <2>1 DEF Fits, Alloc
<1>8. Ends(y)
  BY <1>3, <1>6 DEF Ends
<1> QED BY <1>7, <1>8 DEF y
-----------------------------------------------------------------------------
(* Operations on the text. *)

\* Room for t at an offset inside what is kept, t written, the string ended.
LEMMA WrittenSound ==
  ASSUME NEW x, Fits(x), NEW at \in Nat, NEW t \in Seq(Byte),
         at + Len(t) <= Alloc(x), \A i \in 1 .. at : x.buf[i] \in Byte
  PROVE  LET y == Ended(Store(x, at, t), at + Len(t)) IN
         /\ Fits(y) /\ Ends(y)
         /\ y.len = at + Len(t) /\ y.type = x.type /\ y.block = x.block
         /\ y.alloc = x.alloc
         /\ \A i \in 1 .. at + Len(t) : y.buf[i] = IF i <= at THEN x.buf[i] ELSE t[i - at]
<1>1. x \in SdsType /\ Len(t) \in Nat /\ Len(x.buf) \in Nat /\ Alloc(x) < Len(x.buf)
  BY DEF Fits, SdsType
<1>2. Alloc(x) \in Nat
  BY <1>1 DEF Alloc, SdsType
<1>3. t \in Seq(Raw) /\ at + Len(t) <= Len(x.buf)
  BY <1>1, <1>2 DEF Raw
<1> DEFINE z == Store(x, at, t)
<1>4. /\ Fits(z)
      /\ z.type = x.type /\ z.len = x.len /\ z.alloc = x.alloc /\ z.block = x.block
      /\ \A i \in 1 .. Len(x.buf) :
           z.buf[i] = IF i \in at + 1 .. at + Len(t) THEN t[i - at] ELSE x.buf[i]
  BY <1>3, StoreFits
<1> HIDE DEF z
<1>5. \A i \in 1 .. at + Len(t) : z.buf[i] \in Byte
  <2>1. ASSUME NEW i \in 1 .. at + Len(t) PROVE z.buf[i] \in Byte
    <3>1. i \in 1 .. Len(x.buf)
      BY <1>1, <1>3
    <3>2. CASE i \in 1 .. at
      BY <1>1, <1>4, <3>1, <3>2
    <3>3. CASE i \in at + 1 .. at + Len(t)
      <4>1. i - at \in 1 .. Len(t)
        BY <1>1, <3>3
      <4>2. t[i - at] \in Byte
        BY <4>1
      <4> QED BY <1>4, <3>1, <3>3, <4>2
    <3> QED BY <1>1, <3>2, <3>3
  <2> QED BY <2>1
<1>6. at + Len(t) \in 0 .. Alloc(z)
  BY <1>1, <1>2, <1>4 DEF Alloc
<1>7. LET y == Ended(z, at + Len(t)) IN
      /\ Fits(y) /\ Ends(y)
      /\ y.len = at + Len(t) /\ y.type = z.type /\ y.block = z.block
      /\ y.alloc = z.alloc
      /\ \A i \in 1 .. at + Len(t) : y.buf[i] = z.buf[i]
  BY <1>4, <1>5, <1>6, EndedSound
<1>8. \A i \in 1 .. at + Len(t) : z.buf[i] = IF i <= at THEN x.buf[i] ELSE t[i - at]
  BY <1>1, <1>3, <1>4
<1> QED BY <1>4, <1>7, <1>8 DEF z

LEMMA LenAlloc ==
  ASSUME NEW x, Fits(x)
  PROVE  /\ x.len \in Nat /\ Alloc(x) \in Nat /\ x.len <= Alloc(x)
         /\ Alloc(x) < Len(x.buf) /\ Len(x.buf) = x.block
         /\ x.buf \in Seq(Raw)
BY DEF Fits, SdsType, Alloc, Raw

LEMMA ClearSound ==
  ASSUME NEW x, Fits(x)
  PROVE  Fits(sdsclear(x)) /\ Ends(sdsclear(x))
<1>1. 0 \in 0 .. Alloc(x) /\ \A i \in 1 .. 0 : x.buf[i] \in Byte
  BY LenAlloc
<1> QED BY <1>1, EndedSound DEF sdsclear

LEMMA CatSound ==
  ASSUME NEW x, Fits(x), Ends(x), NEW t \in Seq(Byte)
  PROVE  LET y == sdscatlen(x, t)
             r == sdsMakeRoomFor(x, Len(t)) IN
         /\ Fits(y) /\ Ends(y)
         /\ y.len = x.len + Len(t) /\ y.type = r.type /\ y.block = r.block
         /\ y.alloc = r.alloc
<1> DEFINE r == sdsMakeRoomFor(x, Len(t))
<1>1. x.len \in Nat /\ Len(t) \in Nat
  BY LenAlloc
<1>2. /\ Fits(r) /\ Ends(r) /\ r.len = x.len /\ x.len + Len(t) <= Alloc(r)
  BY <1>1, MakeRoomSound
<1> HIDE DEF r
<1>3. \A i \in 1 .. x.len : r.buf[i] \in Byte
  BY <1>2 DEF Ends
<1>4. LET y == Ended(Store(r, x.len, t), x.len + Len(t)) IN
      /\ Fits(y) /\ Ends(y)
      /\ y.len = x.len + Len(t) /\ y.type = r.type /\ y.block = r.block
      /\ y.alloc = r.alloc
  BY <1>1, <1>2, <1>3, WrittenSound
<1> QED BY <1>4 DEF sdscatlen, r

LEMMA CpyRoom ==
  ASSUME NEW x, Fits(x), Ends(x), NEW t \in Seq(Byte)
  PROVE  LET r == IF Alloc(x) < Len(t) THEN sdsMakeRoomFor(x, Len(t) - x.len) ELSE x
         IN  Fits(r) /\ Len(t) <= Alloc(r)
<1>1. x.len \in Nat /\ Len(t) \in Nat /\ Alloc(x) \in Nat /\ x.len <= Alloc(x)
  BY LenAlloc
<1>2. CASE Alloc(x) < Len(t)
  <2>1. Len(t) - x.len \in Nat
    BY <1>1, <1>2
  <2>2. /\ Fits(sdsMakeRoomFor(x, Len(t) - x.len))
        /\ x.len + (Len(t) - x.len) <= Alloc(sdsMakeRoomFor(x, Len(t) - x.len))
    BY <2>1, MakeRoomSound
  <2> QED BY <1>1, <1>2, <2>2
<1>3. CASE ~(Alloc(x) < Len(t))
  BY <1>1, <1>3
<1> QED BY <1>2, <1>3

LEMMA CpySound ==
  ASSUME NEW x, Fits(x), Ends(x), NEW t \in Seq(Byte)
  PROVE  Fits(sdscpylen(x, t)) /\ Ends(sdscpylen(x, t))
<1> DEFINE r == IF Alloc(x) < Len(t) THEN sdsMakeRoomFor(x, Len(t) - x.len) ELSE x
<1>1. Len(t) \in Nat
  OBVIOUS
<1>2. Fits(r) /\ 0 + Len(t) <= Alloc(r)
  BY <1>1, CpyRoom
<1> HIDE DEF r
<1>3. \A i \in 1 .. 0 : r.buf[i] \in Byte
  OBVIOUS
<1>4. /\ Fits(Ended(Store(r, 0, t), 0 + Len(t)))
      /\ Ends(Ended(Store(r, 0, t), 0 + Len(t)))
  BY <1>2, <1>3, WrittenSound
<1>5. 0 + Len(t) = Len(t)
  BY <1>1
<1> QED BY <1>4, <1>5 DEF sdscpylen, r

LEMMA GrowSound ==
  ASSUME NEW x, Fits(x), Ends(x), NEW n \in Nat
  PROVE  Fits(sdsgrowzero(x, n)) /\ Ends(sdsgrowzero(x, n))
<1>1. x.len \in Nat
  BY LenAlloc
<1>2. CASE n <= x.len
  BY <1>2 DEF sdsgrowzero
<1>3. CASE ~(n <= x.len)
  <2> DEFINE zeros == [i \in 1 .. n - x.len |-> Nul]
             r == sdsMakeRoomFor(x, n - x.len)
  <2>1. n - x.len \in Nat
    BY <1>1, <1>3
  <2>2. zeros \in Seq(Byte) /\ Len(zeros) = n - x.len
    BY <2>1, SdsAssumption
  <2>3. Fits(r) /\ Ends(r) /\ r.len = x.len /\ x.len + (n - x.len) <= Alloc(r)
    BY <2>1, MakeRoomSound
  <2>4. sdsgrowzero(x, n) = Ended(Store(r, x.len, zeros), n)
    BY <1>3 DEF sdsgrowzero
  <2> HIDE DEF zeros, r
  <2>5. \A i \in 1 .. x.len : r.buf[i] \in Byte
    BY <2>3 DEF Ends
  <2>6. x.len + Len(zeros) = n /\ x.len + Len(zeros) <= Alloc(r)
    BY <1>1, <2>2, <2>3
  <2>7. /\ Fits(Ended(Store(r, x.len, zeros), x.len + Len(zeros)))
        /\ Ends(Ended(Store(r, x.len, zeros), x.len + Len(zeros)))
    BY <1>1, <2>2, <2>3, <2>5, <2>6, WrittenSound
  <2> QED BY <2>4, <2>6, <2>7
<1> QED BY <1>2, <1>3

LEMMA IncrLenSound ==
  ASSUME NEW x, Fits(x), Ends(x), NEW t \in Seq(Byte), Len(t) <= Avail(x), Len(t) > 0
  PROVE  Fits(sdsIncrLen(x, t)) /\ Ends(sdsIncrLen(x, t))
<1>1. x.len \in Nat /\ Len(t) \in Nat /\ x.alloc \in Nat
  BY DEF Fits, SdsType
<1>2. x.len + Len(t) <= Alloc(x)
  BY <1>1 DEF Avail, Alloc
<1>3. \A i \in 1 .. x.len : x.buf[i] \in Byte
  BY DEF Ends
<1> QED BY <1>1, <1>2, <1>3, WrittenSound DEF sdsIncrLen

LEMMA DecrLenSound ==
  ASSUME NEW x, Fits(x), Ends(x), NEW n \in 1 .. x.len
  PROVE  Fits(sdsDecrLen(x, n)) /\ Ends(sdsDecrLen(x, n)) /\ sdsDecrLen(x, n).len = x.len - n
<1>1. x.len \in Nat /\ Alloc(x) \in Nat /\ x.len <= Alloc(x)
  BY LenAlloc
<1>2. x.len - n \in 0 .. Alloc(x) /\ \A i \in 1 .. x.len - n : x.buf[i] \in Byte
  BY <1>1 DEF Ends
<1> QED BY <1>2, EndedSound DEF sdsDecrLen

LEMMA CutSound ==
  ASSUME NEW x, Fits(x), Ends(x), NEW start \in Nat, NEW n \in Nat, start + n <= x.len
  PROVE  Fits(Cut(x, start, n)) /\ Ends(Cut(x, start, n))
<1>1. /\ x.len \in Nat /\ Alloc(x) \in Nat /\ x.len <= Alloc(x) /\ Alloc(x) < Len(x.buf)
      /\ x.buf \in Seq(Raw)
  BY LenAlloc
<1> DEFINE t == SubSeq(x.buf, start + 1, start + n)
<1>2. Len(t) = n /\ \A i \in 1 .. n : t[i] = x.buf[start + i]
  BY <1>1
<1>3. \A i \in 1 .. n : start + i \in 1 .. x.len
  BY <1>1
<1>4. \A i \in 1 .. n : t[i] \in Byte
  BY <1>2, <1>3 DEF Ends
<1>5. t \in Seq(Byte)
  <2>1. t \in Seq(Raw)
    BY <1>1
  <2> HIDE DEF t
  <2>2. t = [i \in 1 .. n |-> t[i]]
    BY <1>2, <2>1
  <2> QED BY <1>4, <2>2
<1> HIDE DEF t
<1>6. 0 + Len(t) <= Alloc(x) /\ 0 + Len(t) = n /\ \A i \in 1 .. 0 : x.buf[i] \in Byte
  BY <1>1, <1>2
<1>7. Fits(Ended(Store(x, 0, t), 0 + Len(t))) /\ Ends(Ended(Store(x, 0, t), 0 + Len(t)))
  BY <1>5, <1>6, WrittenSound
<1> QED BY <1>6, <1>7 DEF Cut, t

LEMMA RangeSound ==
  ASSUME NEW x, Fits(x), Ends(x), NEW first \in Int, NEW last \in Int
  PROVE  Fits(sdsrange(x, first, last)) /\ Ends(sdsrange(x, first, last))
<1>1. x.len \in Nat
  BY LenAlloc
<1> DEFINE start == FromLeft(first, x.len)
           to == FromLeft(last, x.len)
           end == EndWithin(to, x.len)
<1>2. start \in Nat /\ to \in Nat
  BY <1>1 DEF FromLeft
<1>3. CASE x.len = 0
  BY <1>3 DEF sdsrange
<1>4. CASE x.len # 0 /\ (start > to \/ start >= x.len)
  <2>1. sdsrange(x, first, last) = Cut(x, 0, 0)
    BY <1>4 DEF sdsrange
  <2> QED BY <1>1, <2>1, CutSound
<1>5. CASE x.len # 0 /\ ~(start > to \/ start >= x.len)
  <2>1. sdsrange(x, first, last) = Cut(x, start, end - start + 1)
    BY <1>5 DEF sdsrange
  <2>2. end - start + 1 \in Nat /\ start + (end - start + 1) <= x.len
    BY <1>1, <1>2, <1>5 DEF EndWithin
  <2> HIDE DEF start, end
  <2> QED BY <1>2, <2>1, <2>2, CutSound
<1> QED BY <1>3, <1>4, <1>5

LEMMA TrimSound ==
  ASSUME NEW x, Fits(x), Ends(x), NEW cset
  PROVE  Fits(sdstrim(x, cset)) /\ Ends(sdstrim(x, cset))
<1>1. x.len \in Nat
  BY LenAlloc
<1> DEFINE kept == {i \in 1 .. x.len : x.buf[i] \notin cset \cup {Nul}}
           sp == CHOOSE i \in kept : \A k \in kept : i <= k
           ep == CHOOSE i \in kept : \A k \in kept : k <= i
<1>2. CASE kept = {}
  <2>1. sdstrim(x, cset) = Cut(x, 0, 0)
    BY <1>2 DEF sdstrim
  <2> QED BY <1>1, <2>1, CutSound
<1>3. CASE kept # {}
  <2>1. sdstrim(x, cset) = Cut(x, sp - 1, ep - sp + 1)
    BY <1>3 DEF sdstrim
  <2>2. kept \in SUBSET Nat /\ kept \in SUBSET (0 .. x.len)
    BY <1>1
  <2>3. \A i \in kept : i \in 1 .. x.len
    OBVIOUS
  <2> HIDE DEF kept
  <2>4. sp \in kept /\ \A k \in kept : sp <= k
    BY <1>3, <2>2, Least
  <2>5. ep \in kept
    BY <1>1, <1>3, <2>2, Greatest
  <2>6. sp \in 1 .. x.len /\ ep \in 1 .. x.len /\ sp <= ep
    BY <2>3, <2>4, <2>5
  <2> HIDE DEF sp, ep
  <2>7. sp - 1 \in Nat /\ ep - sp + 1 \in Nat /\ (sp - 1) + (ep - sp + 1) <= x.len
    BY <1>1, <2>6
  <2> QED BY <2>1, <2>7, CutSound
<1> QED BY <1>2, <1>3

\* strlen comes to the first zero byte, at the latest to the terminator.
LEMMA FirstZero ==
  ASSUME NEW x, Fits(x), Ends(x)
  PROVE  \E n \in 0 .. x.len :
           /\ sdsupdatelen(x) = [x EXCEPT !.len = n]
           /\ x.buf[n + 1] = Nul /\ \A k \in 0 .. n - 1 : x.buf[k + 1] # Nul
<1>1. /\ x.len \in Nat /\ Alloc(x) \in Nat /\ x.len <= Alloc(x) /\ Alloc(x) < Len(x.buf)
      /\ x.buf \in Seq(Raw) /\ Len(x.buf) \in Nat
  BY LenAlloc
<1> DEFINE Zero == {n \in 0 .. Len(x.buf) - 1 : x.buf[n + 1] = Nul}
           First(n) == x.buf[n + 1] = Nul /\ \A k \in 0 .. n - 1 : x.buf[k + 1] # Nul
           n0 == CHOOSE n \in 0 .. Len(x.buf) - 1 : First(n)
<1>2. x.len \in Zero
  BY <1>1 DEF Ends
<1>3. \E n \in Zero : \A k \in Zero : n <= k
  <2>1. Zero \in SUBSET Nat
    BY <1>1
  <2> HIDE DEF Zero
  <2> QED BY <1>2, <2>1, Least
<1>4. \E n \in 0 .. Len(x.buf) - 1 : First(n)
  <2>1. PICK n \in Zero : \A k \in Zero : n <= k
    BY <1>3
  <2>2. \A k \in 0 .. n - 1 : k \in 0 .. Len(x.buf) - 1 /\ ~(n <= k)
    BY <1>1
  <2> QED BY <2>1, <2>2
<1>5. n0 \in 0 .. Len(x.buf) - 1 /\ First(n0)
  BY <1>4
<1>6. n0 <= x.len
  <2> SUFFICES ASSUME x.len < n0 PROVE FALSE
    BY <1>1, <1>5
  <2>1. x.len \in 0 .. n0 - 1
    BY <1>1, <1>5
  <2> QED BY <1>5, <2>1 DEF Ends
<1>7. sdsupdatelen(x) = SetLen(x, n0)
  BY DEF sdsupdatelen
<1>8. n0 \in Nat /\ x.buf[n0 + 1] = Nul /\ \A k \in 0 .. n0 - 1 : x.buf[k + 1] # Nul
  <2> HIDE DEF n0
  <2> QED BY <1>5
<1> HIDE DEF n0
<1>9. x \in SdsType /\ (x.type # 64 => n0 < Below[x.type]) /\ x.type \in Type
  BY <1>1, <1>6, <1>8, SdsAssumption DEF Fits, SdsType, Type
<1>10. SetLen(x, n0) = [x EXCEPT !.len = n0]
  BY <1>8, <1>9, FieldKeeps DEF SetLen
<1> QED BY <1>1, <1>6, <1>7, <1>8, <1>10

LEMMA UpdateLenSound ==
  ASSUME NEW x, Fits(x), Ends(x)
  PROVE  Fits(sdsupdatelen(x)) /\ Ends(sdsupdatelen(x))
<1>1. /\ x.len \in Nat /\ Alloc(x) \in Nat /\ x.len <= Alloc(x) /\ Alloc(x) < Len(x.buf)
      /\ x \in SdsType /\ Len(x.buf) = x.block
  BY LenAlloc DEF Fits
<1>2. PICK n0 \in 0 .. x.len : /\ sdsupdatelen(x) = [x EXCEPT !.len = n0]
                              /\ x.buf[n0 + 1] = Nul
  BY FirstZero
<1>3. n0 \in Nat /\ n0 <= x.len
  BY <1>1
<1> DEFINE y == [x EXCEPT !.len = n0]
<1>4. /\ y.len = n0 /\ y.type = x.type /\ y.alloc = x.alloc /\ y.block = x.block
       /\ y.buf = x.buf /\ y \in SdsType
  BY <1>1, <1>3 DEF SdsType
<1> HIDE DEF y
<1>5. n0 <= Alloc(y) /\ Alloc(y) < y.block
  BY <1>1, <1>3, <1>4 DEF Alloc
<1>6. Fits(y)
  <2>1. x.type # 64 => n0 < Below[x.type] /\ x.alloc < Below[x.type]
    BY <1>1, <1>3, SdsAssumption DEF Fits, SdsType, Type
  <2> QED BY <1>1, <1>3, <1>4, <1>5, <2>1 DEF Fits
<1>7. Ends(y)
  <2>1. \A i \in 1 .. n0 : i \in 1 .. x.len
    BY <1>1, <1>3
  <2> QED BY <1>2, <1>4, <2>1 DEF Ends
<1> QED BY <1>2, <1>6, <1>7 DEF y
-----------------------------------------------------------------------------
(* What the operations mean for the text. *)

LEMMA ValueIsText ==
  ASSUME NEW x, Fits(x), Ends(x)
  PROVE  /\ Value(x) \in Seq(Byte) /\ Len(Value(x)) = x.len
         /\ \A i \in 1 .. x.len : Value(x)[i] = x.buf[i]
<1>1. x.len \in Int /\ 1 \in Int /\ \A i \in 1 .. x.len : x.buf[i] \in Byte
  BY LenAlloc DEF Ends
<1> DEFINE v == SubSeq(x.buf, 1, x.len)
<1>2. /\ v \in Seq(Byte)
      /\ Len(v) = IF 1 <= x.len THEN x.len - 1 + 1 ELSE 0
      /\ \A i \in 1 .. x.len - 1 + 1 : v[i] = x.buf[1 + i - 1]
  BY <1>1, SubSeqProperties
<1> HIDE DEF v
<1>3. Len(v) = x.len /\ \A i \in 1 .. x.len : v[i] = x.buf[i]
  BY <1>2, LenAlloc
<1> QED BY <1>2, <1>3 DEF v, Value

\* A text is known by its bytes.
LEMMA SameValue ==
  ASSUME NEW x, Fits(x), Ends(x), NEW t \in Seq(Byte), Len(t) = x.len,
         \A i \in 1 .. x.len : x.buf[i] = t[i]
  PROVE  Value(x) = t
<1> DEFINE v == Value(x)
<1>1. v \in Seq(Byte) /\ Len(v) = Len(t) /\ \A i \in 1 .. Len(t) : v[i] = t[i]
  BY ValueIsText
<1> HIDE DEF v
<1>2. v = t
  BY <1>1, SeqEqual
<1> QED BY <1>2 DEF v

\* What is written behind, or over, a text.
LEMMA WrittenMeans ==
  ASSUME NEW x, Fits(x), NEW v \in Seq(Byte), NEW t \in Seq(Byte),
         Len(v) + Len(t) <= Alloc(x), \A i \in 1 .. Len(v) : x.buf[i] = v[i]
  PROVE  Value(Ended(Store(x, Len(v), t), Len(v) + Len(t))) = v \o t
<1> DEFINE y == Ended(Store(x, Len(v), t), Len(v) + Len(t))
<1>1. Len(v) \in Nat /\ \A i \in 1 .. Len(v) : x.buf[i] \in Byte
  OBVIOUS
<1>2. /\ Fits(y) /\ Ends(y) /\ y.len = Len(v) + Len(t)
      /\ \A i \in 1 .. Len(v) + Len(t) :
           y.buf[i] = IF i <= Len(v) THEN x.buf[i] ELSE t[i - Len(v)]
  BY <1>1, WrittenSound
<1> HIDE DEF y
<1>3. /\ v \o t \in Seq(Byte) /\ Len(v \o t) = Len(v) + Len(t)
      /\ \A i \in 1 .. Len(v) + Len(t) : (v \o t)[i] = IF i <= Len(v) THEN v[i] ELSE t[i - Len(v)]
  BY ConcatProperties
<1>4. \A i \in 1 .. y.len : y.buf[i] = (v \o t)[i]
  BY <1>1, <1>2, <1>3
<1> QED BY <1>2, <1>3, <1>4, SameValue DEF y

LEMMA MakeRoomMeans ==
  ASSUME NEW x, Fits(x), Ends(x), NEW n \in Nat
  PROVE  /\ Value(sdsMakeRoomFor(x, n)) = Value(x)
         /\ Avail(sdsMakeRoomFor(x, n)) >= n
<1> DEFINE r == sdsMakeRoomFor(x, n)
<1>1. /\ Fits(r) /\ Ends(r) /\ r.len = x.len /\ x.len + n <= Alloc(r)
      /\ \A i \in 1 .. x.len : r.buf[i] = x.buf[i]
      /\ IF Avail(x) >= n THEN r = x ELSE r.type # 5
  BY MakeRoomSound
<1> HIDE DEF r
<1>2. Value(r) = Value(x)
  BY <1>1, ValueIsText, SameValue
<1>3. Avail(r) >= n
  <2>1. CASE Avail(x) >= n
    BY <1>1, <2>1
  <2>2. CASE ~(Avail(x) >= n)
    <3>1. r.type # 5 /\ r.len \in Nat /\ r.alloc \in Nat
      BY <1>1, <2>2 DEF Fits, SdsType
    <3> QED BY <1>1, <3>1 DEF Avail, Alloc
  <2> QED BY <2>1, <2>2
<1> QED BY <1>2, <1>3 DEF r

LEMMA RemoveFreeSpaceMeans ==
  ASSUME NEW x, Fits(x), Ends(x)
  PROVE  Value(sdsRemoveFreeSpace(x)) = Value(x)
<1> DEFINE y == sdsRemoveFreeSpace(x)
<1>1. Fits(y) /\ Ends(y) /\ y.len = x.len /\ \A i \in 1 .. x.len : y.buf[i] = x.buf[i]
  BY RemoveFreeSpaceSound
<1> HIDE DEF y
<1> QED BY <1>1, ValueIsText, SameValue DEF y

LEMMA CatMeans ==
  ASSUME NEW x, Fits(x), Ends(x), NEW t \in Seq(Byte)
  PROVE  Value(sdscatlen(x, t)) = Value(x) \o t
<1> DEFINE r == sdsMakeRoomFor(x, Len(t))
           v == Value(x)
<1>1. Len(t) \in Nat /\ v \in Seq(Byte) /\ Len(v) = x.len
      /\ \A i \in 1 .. x.len : v[i] = x.buf[i]
  BY ValueIsText
<1>2. /\ Fits(r) /\ x.len + Len(t) <= Alloc(r)
      /\ \A i \in 1 .. x.len : r.buf[i] = x.buf[i]
  BY <1>1, MakeRoomSound
<1>3. sdscatlen(x, t) = Ended(Store(r, Len(v), t), Len(v) + Len(t))
  BY <1>1 DEF sdscatlen
<1> HIDE DEF r, v
<1>4. Len(v) + Len(t) <= Alloc(r) /\ \A i \in 1 .. Len(v) : r.buf[i] = v[i]
  BY <1>1, <1>2
<1>5. Value(Ended(Store(r, Len(v), t), Len(v) + Len(t))) = v \o t
  BY <1>1, <1>2, <1>4, WrittenMeans
<1> QED BY <1>3, <1>5 DEF v

\* An empty text, written over.
LEMMA OverwriteMeans ==
  ASSUME NEW x, Fits(x), NEW t \in Seq(Byte), Len(t) <= Alloc(x)
  PROVE  Value(Ended(Store(x, 0, t), Len(t))) = t
<1> DEFINE none == <<>>
<1>1. /\ none \in Seq(Byte) /\ Len(none) = 0 /\ none \o t = t /\ 0 + Len(t) = Len(t)
      /\ \A i \in 1 .. 0 : x.buf[i] = none[i]
  OBVIOUS
<1> HIDE DEF none
<1>2. Value(Ended(Store(x, Len(none), t), Len(none) + Len(t))) = none \o t
  BY <1>1, WrittenMeans
<1> QED BY <1>1, <1>2

LEMMA CpyMeans ==
  ASSUME NEW x, Fits(x), Ends(x), NEW t \in Seq(Byte)
  PROVE  Value(sdscpylen(x, t)) = t
<1> DEFINE r == IF Alloc(x) < Len(t) THEN sdsMakeRoomFor(x, Len(t) - x.len) ELSE x
<1>1. Fits(r) /\ Len(t) <= Alloc(r)
  BY CpyRoom
<1> HIDE DEF r
<1> QED BY <1>1, OverwriteMeans DEF sdscpylen, r

LEMMA ClearMeans ==
  ASSUME NEW x, Fits(x)
  PROVE  Value(sdsclear(x)) = <<>>
<1> DEFINE y == sdsclear(x)
<1>1. 0 \in 0 .. Alloc(x) /\ \A i \in 1 .. 0 : x.buf[i] \in Byte
  BY LenAlloc
<1>2. Fits(y) /\ Ends(y) /\ y.len = 0
  BY <1>1, EndedSound DEF sdsclear
<1> HIDE DEF y
<1>3. <<>> \in Seq(Byte) /\ Len(<<>>) = 0 /\ \A i \in 1 .. 0 : y.buf[i] = <<>>[i]
  OBVIOUS
<1> QED BY <1>2, <1>3, SameValue DEF y

LEMMA DecrLenMeans ==
  ASSUME NEW x, Fits(x), Ends(x), NEW n \in 1 .. x.len
  PROVE  Value(sdsDecrLen(x, n)) = SubSeq(Value(x), 1, x.len - n)
<1> DEFINE m == x.len - n
           v == Value(x)
           t == SubSeq(v, 1, m)
           y == sdsDecrLen(x, n)
<1>1. /\ x.len \in Nat /\ m \in Nat /\ m <= x.len
      /\ v \in Seq(Byte) /\ Len(v) = x.len /\ \A i \in 1 .. x.len : v[i] = x.buf[i]
  BY ValueIsText, LenAlloc
<1>2. m \in 0 .. Alloc(x) /\ \A i \in 1 .. m : x.buf[i] \in Byte
  BY LenAlloc DEF Ends
<1>3. Fits(y) /\ Ends(y) /\ y.len = m /\ \A i \in 1 .. m : y.buf[i] = x.buf[i]
  BY <1>2, EndedSound DEF sdsDecrLen
<1> HIDE DEF m, v, y
<1>4. t \in Seq(Byte) /\ Len(t) = m /\ \A i \in 1 .. m : t[i] = v[i]
  BY <1>1
<1> HIDE DEF t
<1>5. \A i \in 1 .. m : y.buf[i] = t[i]
  BY <1>1, <1>3, <1>4
<1>6. Value(y) = t
  BY <1>3, <1>4, <1>5, SameValue
<1> QED BY <1>6 DEF y, t, v, m

LEMMA IncrLenMeans ==
  ASSUME NEW x, Fits(x), Ends(x), NEW t \in Seq(Byte), Len(t) <= Avail(x), Len(t) > 0
  PROVE  Value(sdsIncrLen(x, t)) = Value(x) \o t
<1> DEFINE v == Value(x)
<1>1. /\ v \in Seq(Byte) /\ Len(v) = x.len /\ \A i \in 1 .. x.len : v[i] = x.buf[i]
  BY ValueIsText
<1>2. x.len + Len(t) <= Alloc(x)
  <2>1. x.len \in Nat /\ Len(t) \in Nat /\ x.alloc \in Nat
    BY DEF Fits, SdsType
  <2> QED BY <2>1 DEF Avail, Alloc
<1>3. sdsIncrLen(x, t) = Ended(Store(x, Len(v), t), Len(v) + Len(t))
  BY <1>1 DEF sdsIncrLen
<1> HIDE DEF v
<1>4. Len(v) + Len(t) <= Alloc(x) /\ \A i \in 1 .. Len(v) : x.buf[i] = v[i]
  BY <1>1, <1>2
<1>5. Value(Ended(Store(x, Len(v), t), Len(v) + Len(t))) = v \o t
  BY <1>1, <1>4, WrittenMeans
<1> QED BY <1>3, <1>5 DEF v

LEMMA GrowZeroMeans ==
  ASSUME NEW x, Fits(x), Ends(x), NEW n \in Nat
  PROVE  Value(sdsgrowzero(x, n)) = Value(x) \o [i \in 1 .. n - x.len |-> Nul]
<1> DEFINE v == Value(x)
           zeros == [i \in 1 .. n - x.len |-> Nul]
           r == sdsMakeRoomFor(x, n - x.len)
<1>1. /\ v \in Seq(Byte) /\ Len(v) = x.len /\ x.len \in Nat
      /\ \A i \in 1 .. x.len : v[i] = x.buf[i]
  BY ValueIsText, LenAlloc
<1>2. CASE n <= x.len
  <2>1. 1 .. n - x.len = {}
    BY <1>1, <1>2
  <2>2. zeros = <<>>
    BY <2>1
  <2> HIDE DEF zeros
  <2>3. v \o zeros = v
    BY <1>1, <2>2, ConcatEmptySeq
  <2> QED BY <1>2, <2>3 DEF sdsgrowzero, zeros
<1>3. CASE ~(n <= x.len)
  <2>1. n - x.len \in Nat
    BY <1>1, <1>3
  <2>2. zeros \in Seq(Byte) /\ Len(zeros) = n - x.len
    BY <2>1, SdsAssumption
  <2>3. /\ Fits(r) /\ x.len + (n - x.len) <= Alloc(r)
        /\ \A i \in 1 .. x.len : r.buf[i] = x.buf[i]
    BY <2>1, MakeRoomSound
  <2>4. sdsgrowzero(x, n) = Ended(Store(r, x.len, zeros), n)
    BY <1>3 DEF sdsgrowzero
  <2> HIDE DEF zeros, r, v
  <2>5. Len(v) + Len(zeros) = n /\ Len(v) + Len(zeros) <= Alloc(r)
        /\ \A i \in 1 .. Len(v) : r.buf[i] = v[i]
    BY <1>1, <2>2, <2>3
  <2>6. Value(Ended(Store(r, Len(v), zeros), Len(v) + Len(zeros))) = v \o zeros
    BY <1>1, <2>2, <2>3, <2>5, WrittenMeans
  <2> QED BY <1>1, <2>4, <2>5, <2>6 DEF v, zeros
<1> QED BY <1>2, <1>3

LEMMA CutMeans ==
  ASSUME NEW x, Fits(x), Ends(x), NEW i \in Nat, NEW k \in Nat, i <= k, k <= x.len
  PROVE  Part(Value(x), i, k, Value(Cut(x, i, k - i)))
<1> DEFINE t == SubSeq(x.buf, i + 1, i + (k - i))
           v == Value(x)
<1>1. /\ x.len \in Nat /\ x.len <= Alloc(x) /\ Alloc(x) \in Nat
      /\ v \in Seq(Byte) /\ Len(v) = x.len /\ \A h \in 1 .. x.len : v[h] = x.buf[h]
  BY LenAlloc, ValueIsText
<1>2. i + (k - i) = k /\ k - (i + 1) + 1 = k - i
  OBVIOUS
<1>3. /\ t \in Seq(Byte) /\ Len(t) = k - i
      /\ \A h \in 1 .. k - i : t[h] = x.buf[i + h]
  <2>1. /\ i + 1 \in Int /\ k \in Int
        /\ \A h \in i + 1 .. k : x.buf[h] \in Byte
    BY <1>1 DEF Ends
  <2>2. /\ SubSeq(x.buf, i + 1, k) \in Seq(Byte)
        /\ Len(SubSeq(x.buf, i + 1, k)) = IF i + 1 <= k THEN k - (i + 1) + 1 ELSE 0
        /\ \A h \in 1 .. k - (i + 1) + 1 : SubSeq(x.buf, i + 1, k)[h] = x.buf[(i + 1) + h - 1]
    BY <2>1, SubSeqProperties
  <2>3. t = SubSeq(x.buf, i + 1, k)
    BY <1>2
  <2> HIDE DEF t
  <2>4. Len(t) = k - i
    BY <2>2, <2>3
  <2>5. \A h \in 1 .. k - i : (i + 1) + h - 1 = i + h
    OBVIOUS
  <2> QED BY <1>2, <2>2, <2>3, <2>4, <2>5
<1>4. /\ SubSeq(v, i + 1, k) \in Seq(Byte)
      /\ Len(SubSeq(v, i + 1, k)) = k - i
      /\ \A h \in 1 .. k - i : SubSeq(v, i + 1, k)[h] = v[i + h]
  <2> HIDE DEF v
  <2>1. /\ i + 1 \in Int /\ k \in Int
        /\ \A h \in i + 1 .. k : v[h] \in Byte
    BY <1>1
  <2>2. /\ SubSeq(v, i + 1, k) \in Seq(Byte)
        /\ Len(SubSeq(v, i + 1, k)) = IF i + 1 <= k THEN k - (i + 1) + 1 ELSE 0
        /\ \A h \in 1 .. k - (i + 1) + 1 : SubSeq(v, i + 1, k)[h] = v[(i + 1) + h - 1]
    BY <2>1, SubSeqProperties
  <2>3. \A h \in 1 .. k - i : (i + 1) + h - 1 = i + h
    OBVIOUS
  <2>4. Len(SubSeq(v, i + 1, k)) = k - i
    BY <2>2
  <2> QED BY <1>2, <2>2, <2>3, <2>4
<1>5. Cut(x, i, k - i) = Ended(Store(x, 0, t), Len(t))
  BY <1>3 DEF Cut
<1> HIDE DEF t, v
<1>6. Value(Cut(x, i, k - i)) = t
  BY <1>1, <1>3, <1>5, OverwriteMeans
<1>7. t = SubSeq(v, i + 1, k)
  <2>1. \A h \in 1 .. k - i : t[h] = SubSeq(v, i + 1, k)[h]
    <3>1. \A h \in 1 .. k - i : i + h \in 1 .. x.len
      BY <1>1
    <3> QED BY <1>1, <1>3, <1>4, <3>1
  <2> QED BY <1>3, <1>4, <2>1, SeqEqual
<1> QED BY <1>6, <1>7 DEF Part, v

LEMMA RangeMeansFor ==
  ASSUME NEW x, Fits(x), Ends(x), NEW first \in Int, NEW last \in Int
  PROVE  \E i, k \in 0 .. x.len :
           /\ {o \in 0 .. x.len - 1 : InRange(o, x.len, first, last)} = i .. k - 1
           /\ Part(Value(x), i, k, Value(sdsrange(x, first, last)))
<1> DEFINE n == x.len
           start == FromLeft(first, n)
           to == FromLeft(last, n)
           end == EndWithin(to, n)
           kept == {o \in 0 .. n - 1 : InRange(o, n, first, last)}
<1>1. n \in Nat /\ Value(x) \in Seq(Byte) /\ Len(Value(x)) = n
  BY LenAlloc, ValueIsText
<1>2. start \in Nat /\ to \in Nat
  BY <1>1 DEF FromLeft
<1>3. \A o \in 0 .. n - 1 : InRange(o, n, first, last) <=> start <= o /\ o <= to
  BY <1>1 DEF InRange, FromLeft
<1>4. CASE n = 0
  <2>1. sdsrange(x, first, last) = x
    BY <1>4 DEF sdsrange
  <2>2. kept = {} /\ 0 .. 0 - 1 = {}
    BY <1>4
  <2>3. Part(Value(x), 0, 0, Value(x))
    <3>1. SubSeq(Value(x), 0 + 1, 0) = <<>>
      BY <1>1, <1>4, SubSeqEmpty
    <3>2. Value(x) = <<>>
      BY <1>1, <1>4, EmptySeq
    <3> QED BY <3>1, <3>2 DEF Part
  <2>4. 0 \in 0 .. n
    BY <1>1
  <2> QED BY <2>1, <2>2, <2>3, <2>4
<1>5. CASE n # 0 /\ (start > to \/ start >= n)
  <2>1. sdsrange(x, first, last) = Cut(x, 0, 0 - 0)
    BY <1>5 DEF sdsrange
  <2>2. kept = {} /\ 0 .. 0 - 1 = {}
    BY <1>1, <1>2, <1>3, <1>5
  <2>3. Part(Value(x), 0, 0, Value(Cut(x, 0, 0 - 0)))
    BY <1>1, CutMeans
  <2>4. 0 \in 0 .. n
    BY <1>1
  <2> QED BY <2>1, <2>2, <2>3, <2>4
<1>6. CASE n # 0 /\ ~(start > to \/ start >= n)
  <2> DEFINE k == end + 1
  <2>1. /\ end \in Nat /\ start <= k /\ k <= n /\ k \in Nat /\ end - start + 1 = k - start
        /\ k - 1 = IF to >= n THEN n - 1 ELSE to
    <3>1. end = IF to >= n THEN n - 1 ELSE to
      BY DEF EndWithin
    <3>2. n \in Nat /\ start \in Nat /\ to \in Nat /\ n # 0 /\ start <= to /\ start < n
      BY <1>1, <1>2, <1>6
    <3> HIDE DEF start, to, end, n
    <3>3. CASE to >= n
      BY <3>1, <3>2, <3>3
    <3>4. CASE ~(to >= n)
      BY <3>1, <3>2, <3>4
    <3> QED BY <3>3, <3>4
  <2>2. sdsrange(x, first, last) = Cut(x, start, k - start)
    <3>1. sdsrange(x, first, last) = Cut(x, start, end - start + 1)
      BY <1>6 DEF sdsrange
    <3> QED BY <2>1, <3>1
  <2> HIDE DEF start, to, k
  <2>3. kept = start .. k - 1
    <3>1. \A o \in kept : o \in start .. k - 1
      BY <1>1, <1>2, <1>3, <2>1
    <3>2. \A o \in start .. k - 1 : o \in kept
      BY <1>1, <1>2, <1>3, <2>1
    <3> QED BY <3>1, <3>2
  <2>4. Part(Value(x), start, k, Value(Cut(x, start, k - start)))
    BY <1>1, <1>2, <2>1, CutMeans
  <2>5. start \in 0 .. n /\ k \in 0 .. n
    BY <1>1, <1>2, <2>1
  <2> QED BY <2>2, <2>3, <2>4, <2>5
<1> QED BY <1>4, <1>5, <1>6

LEMMA TrimMeansFor ==
  ASSUME NEW x, Fits(x), Ends(x), NEW cset
  PROVE  LET kept == {h \in 1 .. x.len : Value(x)[h] \notin cset \cup {Nul}}
         IN  \E i, k \in 0 .. x.len :
               /\ kept \subseteq i + 1 .. k
               /\ i < k => {i + 1, k} \subseteq kept
               /\ Part(Value(x), i, k, Value(sdstrim(x, cset)))
<1> DEFINE kept == {h \in 1 .. x.len : x.buf[h] \notin cset \cup {Nul}}
           sp == CHOOSE i \in kept : \A k \in kept : i <= k
           ep == CHOOSE i \in kept : \A k \in kept : k <= i
<1>1. x.len \in Nat /\ kept \in SUBSET (1 .. x.len)
  BY LenAlloc
<1>2. {h \in 1 .. x.len : Value(x)[h] \notin cset \cup {Nul}} = kept
  BY ValueIsText
<1>3. CASE kept = {}
  <2>1. sdstrim(x, cset) = Cut(x, 0, 0 - 0)
    BY <1>3 DEF sdstrim
  <2>2. Part(Value(x), 0, 0, Value(Cut(x, 0, 0 - 0)))
    BY <1>1, CutMeans
  <2>3. 0 \in 0 .. x.len
    BY <1>1
  <2> HIDE DEF kept
  <2> QED BY <1>2, <1>3, <2>1, <2>2, <2>3
<1>4. CASE kept # {}
  <2>1. sdstrim(x, cset) = Cut(x, sp - 1, ep - sp + 1)
    BY <1>4 DEF sdstrim
  <2>2. kept \in SUBSET Nat /\ kept \in SUBSET (0 .. x.len)
    BY <1>1
  <2> HIDE DEF kept
  <2>3. sp \in kept /\ \A k \in kept : sp <= k
    BY <1>4, <2>2, Least
  <2>4. ep \in kept /\ \A k \in kept : k <= ep
    BY <1>1, <1>4, <2>2, Greatest
  <2> HIDE DEF sp, ep
  <2>5. sp \in 1 .. x.len /\ ep \in 1 .. x.len /\ sp <= ep
    BY <1>1, <2>3, <2>4
  <2>6. PICK i \in 0 .. x.len : i = sp - 1
    BY <1>1, <2>5
  <2>7. /\ i \in Nat /\ ep \in Nat /\ i <= ep /\ ep <= x.len
        /\ ep - sp + 1 = ep - i /\ i + 1 = sp
    BY <1>1, <2>5, <2>6
  <2>8. Part(Value(x), i, ep, Value(Cut(x, i, ep - i)))
    BY <2>7, CutMeans
  <2>9. kept \subseteq i + 1 .. ep
    BY <1>1, <2>3, <2>4, <2>7
  <2>10. sdstrim(x, cset) = Cut(x, i, ep - i) /\ ep \in 0 .. x.len
    BY <1>1, <2>1, <2>5, <2>6, <2>7
  <2> QED BY <1>2, <2>3, <2>4, <2>7, <2>8, <2>9, <2>10
<1> QED BY <1>3, <1>4

LEMMA UpdateLenMeansFor ==
  ASSUME NEW x, Fits(x), Ends(x)
  PROVE  \E k \in 0 .. x.len :
           /\ Part(Value(x), 0, k, Value(sdsupdatelen(x)))
           /\ \A h \in 1 .. k : Value(x)[h] # Nul
           /\ k < x.len => Value(x)[k + 1] = Nul
<1>1. PICK k \in 0 .. x.len :
        /\ sdsupdatelen(x) = [x EXCEPT !.len = k]
        /\ x.buf[k + 1] = Nul /\ \A h \in 0 .. k - 1 : x.buf[h + 1] # Nul
  BY FirstZero
<1> DEFINE y == sdsupdatelen(x)
           v == Value(x)
<1>2. Fits(y) /\ Ends(y)
  BY UpdateLenSound
<1>3. x \in SdsType /\ x.len \in Nat /\ k \in Nat
  BY <1>1, LenAlloc DEF Fits
<1>4. y.len = k /\ y.buf = x.buf
  BY <1>1, <1>3 DEF SdsType
<1>5. v \in Seq(Byte) /\ Len(v) = x.len /\ \A h \in 1 .. x.len : v[h] = x.buf[h]
  BY ValueIsText
<1> HIDE DEF y, v
<1>6. /\ SubSeq(v, 0 + 1, k) \in Seq(Byte) /\ Len(SubSeq(v, 0 + 1, k)) = k
      /\ \A h \in 1 .. k : SubSeq(v, 0 + 1, k)[h] = x.buf[h]
  <2>1. 1 \in Int /\ k \in Int /\ \A h \in 1 .. k : v[h] \in Byte
    BY <1>3, <1>5
  <2>2. /\ SubSeq(v, 1, k) \in Seq(Byte)
        /\ Len(SubSeq(v, 1, k)) = IF 1 <= k THEN k - 1 + 1 ELSE 0
        /\ \A h \in 1 .. k - 1 + 1 : SubSeq(v, 1, k)[h] = v[1 + h - 1]
    BY <2>1, SubSeqProperties
  <2>3. Len(SubSeq(v, 1, k)) = k /\ \A h \in 1 .. k : SubSeq(v, 1, k)[h] = v[h]
    BY <1>3, <2>2
  <2> QED BY <1>3, <1>5, <2>2, <2>3
<1>7. Value(y) = SubSeq(v, 0 + 1, k)
  BY <1>2, <1>4, <1>6, SameValue
<1>8. \A h \in 1 .. k : v[h] # Nul
  <2> TAKE h \in 1 .. k
  <2>1. h - 1 \in 0 .. k - 1 /\ (h - 1) + 1 = h /\ h \in 1 .. x.len
    BY <1>3
  <2> QED BY <1>1, <1>5, <2>1
<1>9. k < x.len => v[k + 1] = Nul
  BY <1>1, <1>3, <1>5
<1> QED BY <1>3, <1>7, <1>8, <1>9 DEF Part, y, v

-----------------------------------------------------------------------------
(* The specification. *)

LEMMA NextSound ==
  ASSUME SdsInv, [Next]_s
  PROVE  SdsInv'
<1>1. Fits(s) /\ Ends(s)
  BY DEF SdsInv
<1>2. ASSUME Fits(s') /\ Ends(s') PROVE SdsInv'
  BY <1>2 DEF SdsInv, Fits, Ends, Alloc
<1>3. Text \subseteq Seq(Byte) /\ MaxLen \in Nat /\ s.len \in Nat
  BY <1>1, SdsAssumption, LenAlloc
<1>4. CASE UNCHANGED s
  BY <1>1, <1>2, <1>4
<1>5. CASE s' = sdsclear(s)
  BY <1>1, <1>2, <1>5, ClearSound
<1>6. CASE s' = sdsRemoveFreeSpace(s)
  BY <1>1, <1>2, <1>6, RemoveFreeSpaceSound
<1>7. CASE s' = sdsupdatelen(s)
  BY <1>1, <1>2, <1>7, UpdateLenSound
<1>8. CASE \E n \in 0 .. Room : s' = sdsMakeRoomFor(s, n)
  <2>1. PICK n \in 0 .. Room : s' = sdsMakeRoomFor(s, n)
    BY <1>8
  <2>2. n \in Nat
    BY <1>3 DEF Room
  <2> QED BY <1>1, <1>2, <2>1, <2>2, MakeRoomSound
<1>9. CASE \E n \in 0 .. MaxLen : s' = sdsgrowzero(s, n)
  BY <1>1, <1>2, <1>3, <1>9, GrowSound
<1>10. CASE \E t \in Text : Len(t) <= Room /\ s' = sdscatlen(s, t)
  BY <1>1, <1>2, <1>3, <1>10, CatSound
<1>11. CASE \E t \in Text : Len(t) <= MaxLen /\ s' = sdscpylen(s, t)
  BY <1>1, <1>2, <1>3, <1>11, CpySound
<1>12. CASE \E t \in Text : Len(t) \in 1 .. Avail(s) /\ s' = sdsIncrLen(s, t)
  <2>1. PICK t \in Text : Len(t) \in 1 .. Avail(s) /\ s' = sdsIncrLen(s, t)
    BY <1>12
  <2>2. t \in Seq(Byte) /\ Len(t) <= Avail(s) /\ Len(t) > 0
    <3>1. Avail(s) \in Int
      BY <1>1 DEF Avail, Fits, SdsType
    <3> QED BY <1>3, <2>1, <3>1
  <2> QED BY <1>1, <1>2, <2>1, <2>2, IncrLenSound
<1>13. CASE \E n \in 1 .. s.len : s' = sdsDecrLen(s, n)
  BY <1>1, <1>2, <1>13, DecrLenSound
<1>14. CASE \E first, last \in -(MaxLen + 1) .. MaxLen : s' = sdsrange(s, first, last)
  <2>1. PICK first \in -(MaxLen + 1) .. MaxLen, last \in -(MaxLen + 1) .. MaxLen :
          s' = sdsrange(s, first, last)
    BY <1>14
  <2>2. first \in Int /\ last \in Int
    BY <1>3
  <2> QED BY <1>1, <1>2, <2>1, <2>2, RangeSound
<1>15. CASE \E cset \in SUBSET Byte : s' = sdstrim(s, cset)
  BY <1>1, <1>2, <1>15, TrimSound
<1> QED BY <1>4, <1>5, <1>6, <1>7, <1>8, <1>9, <1>10, <1>11, <1>12, <1>13, <1>14,
           <1>15 DEF Next

\* For headers of any size, after any row of operations: no length or capacity
\* is cut to the width of its field, and the string ends in a zero byte inside
\* its block (sds.c:204-291, 398-436, 756-780).
THEOREM SdsInvariance == Spec => []SdsInv
<1>1. Init => SdsInv
  <2> SUFFICES ASSUME Init PROVE SdsInv
    OBVIOUS
  <2>1. PICK t \in Text : s = sdsnewlen(t)
    BY DEF Init
  <2> QED BY <2>1, SdsAssumption, NewSound DEF SdsInv
<1>2. SdsInv /\ [Next]_s => SdsInv'
  BY NextSound
<1> QED BY <1>1, <1>2, PTL DEF Spec

\* An append moves the string only when it must, and doubles it or leaves
\* MaxPrealloc bytes of room when it does (sds.c:212-220).
THEOREM AppendsMoveSeldom == Spec => []GrowsSeldom
<1>1. SdsInv => GrowsSeldom
  <2> SUFFICES ASSUME SdsInv, NEW t \in Text
               PROVE  LET r == sdscatlen(s, t) IN
                      /\ Len(t) <= Avail(s) => r.block = s.block /\ r.type = s.type
                      /\ Len(t) > Avail(s) =>
                           Avail(r) >= IF r.len < MaxPrealloc THEN r.len ELSE MaxPrealloc
    BY DEF GrowsSeldom
  <2> DEFINE y == sdscatlen(s, t)
             r == sdsMakeRoomFor(s, Len(t))
  <2>1. Fits(s) /\ Ends(s) /\ t \in Seq(Byte) /\ Len(t) \in Nat
    BY SdsAssumption DEF SdsInv
  <2>2. s.len \in Nat /\ Avail(s) \in Int
    BY <2>1 DEF Fits, SdsType, Avail
  <2>3. /\ y.len = s.len + Len(t) /\ y.type = r.type /\ y.block = r.block /\ y.alloc = r.alloc
    BY <2>1, CatSound
  <2>4. IF Avail(s) >= Len(t) THEN r = s
        ELSE r.type # 5 /\ Alloc(r) = Prealloc(s.len + Len(t))
    BY <2>1, MakeRoomSound
  <2> HIDE DEF y, r
  <2>5. CASE Len(t) <= Avail(s)
    BY <2>1, <2>2, <2>3, <2>4, <2>5 DEF y
  <2>6. CASE Len(t) > Avail(s)
    <3>1. r.type # 5 /\ Alloc(r) = Prealloc(s.len + Len(t))
      BY <2>1, <2>2, <2>4, <2>6
    <3>2. Avail(y) = Prealloc(y.len) - y.len
      BY <2>3, <3>1 DEF Avail, Alloc
    <3>3. y.len \in Nat
      BY <2>1, <2>2, <2>3
    <3>4. Prealloc(y.len) - y.len >= IF y.len < MaxPrealloc THEN y.len ELSE MaxPrealloc
      BY <3>3, PreallocRoom
    <3> QED BY <2>1, <2>2, <2>6, <3>2, <3>4 DEF y
  <2> QED BY <2>1, <2>2, <2>5, <2>6
<1>2. Spec => []SdsInv
  BY SdsInvariance
<1> QED BY <1>1, <1>2, PTL

LEMMA SdsInv_Meaning == SdsInv => Meaning
<1> SUFFICES ASSUME SdsInv PROVE Meaning
  OBVIOUS
<1>1. Fits(s) /\ Ends(s) /\ s.len \in Nat /\ MaxLen \in Nat /\ Text \subseteq Seq(Byte)
  BY LenAlloc, SdsAssumption DEF SdsInv
<1>2. GrowMeans(Value(s))
  <2>1. \A n \in 0 .. Room : n \in Nat
    BY <1>1 DEF Room
  <2>2. \A n \in 0 .. Room : /\ Value(sdsMakeRoomFor(s, n)) = Value(s)
                             /\ Avail(sdsMakeRoomFor(s, n)) >= n
    BY <1>1, <2>1, MakeRoomMeans
  <2>3. \A n \in 0 .. MaxLen :
          Value(sdsgrowzero(s, n)) = Value(s) \o [i \in 1 .. n - s.len |-> Nul]
    <3>1. \A n \in 0 .. MaxLen : n \in Nat
      BY <1>1
    <3> QED BY <1>1, <3>1, GrowZeroMeans, Zenon
  <2>4. Value(sdsRemoveFreeSpace(s)) = Value(s)
    BY <1>1, RemoveFreeSpaceMeans
  <2> QED BY <2>2, <2>3, <2>4 DEF GrowMeans
<1>3. WriteMeans(Value(s))
  <2>1. ASSUME NEW t \in Text, Len(t) \in 1 .. Avail(s)
        PROVE  Value(sdsIncrLen(s, t)) = Value(s) \o t
    <3>1. t \in Seq(Byte) /\ Avail(s) \in Int
      BY <1>1 DEF Avail, Fits, SdsType
    <3>2. Len(t) <= Avail(s) /\ Len(t) > 0
      BY <2>1, <3>1
    <3> QED BY <1>1, <3>1, <3>2, IncrLenMeans
  <2>2. Value(sdsclear(s)) = <<>>
    BY <1>1, ClearMeans
  <2>3. \A t \in Text : Value(sdscatlen(s, t)) = Value(s) \o t /\ Value(sdscpylen(s, t)) = t
    BY <1>1, CatMeans, CpyMeans
  <2>4. \A n \in 1 .. s.len : Value(sdsDecrLen(s, n)) = SubSeq(Value(s), 1, s.len - n)
    BY <1>1, DecrLenMeans
  <2> QED BY <2>1, <2>2, <2>3, <2>4 DEF WriteMeans
<1>4. RangeMeans(Value(s))
  <2>1. -(MaxLen + 1) .. MaxLen \subseteq Int
    OBVIOUS
  <2> QED BY <1>1, <2>1, RangeMeansFor DEF RangeMeans
<1>5. TrimMeans(Value(s))
  BY <1>1, TrimMeansFor DEF TrimMeans
<1>6. UpdateLenMeans(Value(s))
  BY <1>1, UpdateLenMeansFor DEF UpdateLenMeans
<1> QED BY <1>2, <1>3, <1>4, <1>5, <1>6 DEF Meaning

\* Every operation does to the text what its reference definition says, on
\* whatever string the operations before it have left, and for headers of any
\* size (sds.c:204-291, 331-436, 725-780).
THEOREM OperationsMean == Spec => []Meaning
<1>1. SdsInv => Meaning
  BY SdsInv_Meaning
<1> QED BY <1>1, SdsInvariance, PTL

-----------------------------------------------------------------------------
(* Printing. *)

\* String x holds the text v; what is behind it is not said.
Holds(x, v) == Fits(x) /\ x.len = Len(v) /\ \A i \in 1 .. Len(v) : x.buf[i] = v[i]

LEMMA RoomHolds ==
  ASSUME NEW x, NEW v \in Seq(Byte), Holds(x, v), NEW n \in Nat
  PROVE  /\ Holds(sdsMakeRoomFor(x, n), v)
         /\ Len(v) + n <= Alloc(sdsMakeRoomFor(x, n))
<1> DEFINE r == sdsMakeRoomFor(x, n)
<1>1. Fits(x) /\ x.len = Len(v) /\ \A i \in 1 .. Len(v) : x.buf[i] = v[i]
  BY DEF Holds
<1>2. /\ Fits(r) /\ r.len = x.len /\ x.len + n <= Alloc(r)
      /\ \A i \in 1 .. x.len : r.buf[i] = x.buf[i]
  BY <1>1, MakeRoomSound
<1> HIDE DEF r
<1>3. Holds(r, v)
  BY <1>1, <1>2 DEF Holds
<1> QED BY <1>1, <1>2, <1>3 DEF r

LEMMA AvailIsRoom ==
  ASSUME NEW x, Fits(x)
  PROVE  /\ Avail(x) \in Nat /\ x.len + Avail(x) <= Alloc(x)
         /\ (x.type # 5 => x.len + Avail(x) = Alloc(x))
BY DEF Fits, SdsType, Alloc, Avail

\* A text is written behind the one that is held, and counted.
LEMMA StoreHolds ==
  ASSUME NEW x, NEW v \in Seq(Byte), Holds(x, v), NEW t \in Seq(Byte),
         Len(v) + Len(t) <= Alloc(x)
  PROVE  Holds(SetLen(Store(x, Len(v), t), x.len + Len(t)), v \o t)
<1> DEFINE z == Store(x, Len(v), t)
           n == Len(v) + Len(t)
           y == SetLen(z, x.len + Len(t))
<1>1. /\ Fits(x) /\ x.len = Len(v) /\ \A i \in 1 .. Len(v) : x.buf[i] = v[i]
      /\ Len(v) \in Nat /\ Len(t) \in Nat /\ n \in Nat
  BY DEF Holds
<1>2. n <= Alloc(x) /\ Alloc(x) < Len(x.buf) /\ Len(x.buf) \in Nat /\ Alloc(x) \in Nat
  BY <1>1, LenAlloc
<1>3. t \in Seq(Raw) /\ Len(v) + Len(t) <= Len(x.buf)
  BY <1>1, <1>2 DEF Raw
<1>4. /\ Fits(z)
      /\ z.type = x.type /\ z.len = x.len /\ z.alloc = x.alloc /\ z.block = x.block
      /\ \A i \in 1 .. Len(x.buf) :
           z.buf[i] = IF i \in Len(v) + 1 .. Len(v) + Len(t) THEN t[i - Len(v)] ELSE x.buf[i]
  BY <1>1, <1>3, StoreFits
<1> HIDE DEF z
<1>5. z.type \in Type /\ (z.type # 64 => n < Below[z.type]) /\ Alloc(z) = Alloc(x)
  <2>1. Alloc(z) = Alloc(x)
    BY <1>4 DEF Alloc
  <2>2. z.type \in Type /\ (z.type # 64 => Alloc(z) < Below[z.type] /\ Below[z.type] \in Nat)
    BY <1>4, SdsAssumption DEF Fits, SdsType, Alloc, Type
  <2> QED BY <1>1, <1>2, <2>1, <2>2
<1>6. Field(z.type, n) = n
  <2> HIDE DEF n
  <2> QED BY <1>1, <1>5, FieldKeeps
<1>7. y = [z EXCEPT !.len = n]
  BY <1>1, <1>6 DEF SetLen
<1> HIDE DEF y
<1>8. /\ y.len = n /\ y.type = z.type /\ y.block = z.block /\ y.alloc = z.alloc
      /\ y.buf = z.buf /\ y \in SdsType
  <2>1. z \in SdsType
    BY <1>4 DEF Fits
  <2> QED BY <1>1, <1>7, <2>1 DEF SdsType
<1>9. Fits(y)
  <2>1. n <= Alloc(y) /\ Alloc(y) < y.block
    BY <1>1, <1>2, <1>4, <1>5, <1>8 DEF Alloc, Fits, SdsType
  <2>2. y.type # 64 => y.len < Below[y.type] /\ y.alloc < Below[y.type]
    BY <1>4, <1>5, <1>8 DEF Fits
  <2> QED BY <1>4, <1>8, <2>1, <2>2 DEF Fits
<1>10. /\ v \o t \in Seq(Byte) /\ Len(v \o t) = n
       /\ \A i \in 1 .. Len(v) : (v \o t)[i] = v[i]
       /\ \A i \in 1 .. Len(t) : (v \o t)[Len(v) + i] = t[i]
  BY ConcatParts
<1> DEFINE vt == v \o t
<1>11. \A i \in 1 .. n : y.buf[i] = vt[i]
  <2> TAKE i \in 1 .. n
  <2>1. i \in 1 .. Len(x.buf) /\ i \in Int
    BY <1>1, <1>2
  <2>2. CASE i <= Len(v)
    <3>1. i \in 1 .. Len(v) /\ ~(i \in Len(v) + 1 .. Len(v) + Len(t))
      BY <1>1, <2>1, <2>2
    <3> QED BY <1>1, <1>4, <1>8, <1>10, <2>1, <3>1
  <2>3. CASE ~(i <= Len(v))
    <3>1. i - Len(v) \in 1 .. Len(t) /\ i \in Len(v) + 1 .. Len(v) + Len(t)
          /\ Len(v) + (i - Len(v)) = i
      BY <1>1, <2>1, <2>3
    <3>2. vt[Len(v) + (i - Len(v))] = t[i - Len(v)]
      BY <1>10, <3>1
    <3> QED BY <1>4, <1>8, <2>1, <3>1, <3>2
  <2> QED BY <2>2, <2>3
<1> HIDE DEF vt
<1>12. Len(vt) = n
  BY <1>10 DEF vt
<1>13. Holds(y, vt)
  BY <1>8, <1>9, <1>11, <1>12 DEF Holds
<1> QED BY <1>13 DEF y, z, vt

\* A turn of sdscatfmt's loop prints its directive.
LEMMA TurnHolds ==
  ASSUME NEW x, NEW v \in Seq(Byte), Holds(x, v), NEW d \in Directive,
         d.conversion \/ Len(d.text) <= 1
  PROVE  Holds(Turn(x, Len(v), d), v \o d.text)
<1> DEFINE l == Len(d.text)
           one == IF Avail(x) = 0 THEN sdsMakeRoomFor(x, 1) ELSE x
           room == IF d.conversion /\ Avail(one) < l THEN sdsMakeRoomFor(one, l) ELSE one
<1>1. d.text \in Seq(Byte) /\ l \in Nat
  BY DEF Directive
<1>2. Holds(one, v) /\ Len(v) + 1 <= Alloc(one)
  <2>1. CASE Avail(x) = 0
    BY <2>1, RoomHolds
  <2>2. CASE Avail(x) # 0
    <3>1. Fits(x) /\ x.len = Len(v) /\ Len(v) \in Nat
      BY DEF Holds
    <3>2. Avail(x) \in Nat /\ x.len + Avail(x) <= Alloc(x) /\ Alloc(x) \in Nat
      BY <3>1, AvailIsRoom, LenAlloc
    <3> QED BY <2>2, <3>1, <3>2
  <2> QED BY <2>1, <2>2
<1> HIDE DEF one
<1>3. Holds(room, v) /\ Len(v) + l <= Alloc(room)
  <2>1. CASE d.conversion /\ Avail(one) < l
    <3>1. room = sdsMakeRoomFor(one, l)
      BY <2>1
    <3> HIDE DEF room, l
    <3> QED BY <1>1, <1>2, <3>1, RoomHolds
  <2>2. CASE d.conversion /\ ~(Avail(one) < l)
    <3>1. room = one
      BY <2>2
    <3>2. Fits(one) /\ one.len = Len(v) /\ Len(v) \in Nat
      BY <1>2 DEF Holds
    <3>3. Avail(one) \in Nat /\ one.len + Avail(one) <= Alloc(one) /\ Alloc(one) \in Nat
      BY <3>2, AvailIsRoom, LenAlloc
    <3> QED BY <1>1, <1>2, <2>2, <3>1, <3>2, <3>3
  <2>3. CASE ~d.conversion
    <3>1. room = one /\ l <= 1
      BY <2>3
    <3>2. Len(v) \in Nat /\ Alloc(one) \in Nat
      BY <1>2, LenAlloc DEF Holds
    <3> QED BY <1>1, <1>2, <3>1, <3>2
  <2> QED BY <2>1, <2>2, <2>3
<1> HIDE DEF room
<1>4. Holds(SetLen(Store(room, Len(v), d.text), room.len + Len(d.text)), v \o d.text)
  BY <1>1, <1>3, StoreHolds
<1>5. Turn(x, Len(v), d) = SetLen(Store(room, Len(v), d.text), room.len + Len(d.text))
  BY DEF Turn, room, one
<1> QED BY <1>4, <1>5

\* The zero byte behind the text makes it a string.
LEMMA NulEnds ==
  ASSUME NEW x, NEW v \in Seq(Byte), Holds(x, v)
  PROVE  LET y == Store(x, Len(v), <<Nul>>) IN Fits(y) /\ Ends(y) /\ Value(y) = v
<1> DEFINE y == Store(x, Len(v), <<Nul>>)
<1>1. /\ Fits(x) /\ x.len = Len(v) /\ \A i \in 1 .. Len(v) : x.buf[i] = v[i]
      /\ Len(v) \in Nat
  BY DEF Holds
<1>2. x.len <= Alloc(x) /\ Alloc(x) < Len(x.buf) /\ Len(x.buf) \in Nat /\ Alloc(x) \in Nat
  BY <1>1, LenAlloc
<1>3. <<Nul>> \in Seq(Raw) /\ Len(<<Nul>>) = 1 /\ <<Nul>>[1] = Nul
      /\ Len(v) + Len(<<Nul>>) <= Len(x.buf)
  BY <1>1, <1>2, SdsAssumption DEF Raw
<1>4. /\ Fits(y) /\ y.len = x.len
      /\ \A i \in 1 .. Len(x.buf) :
           y.buf[i] = IF i \in Len(v) + 1 .. Len(v) + Len(<<Nul>>) THEN <<Nul>>[i - Len(v)]
                      ELSE x.buf[i]
  BY <1>1, <1>3, StoreFits
<1> HIDE DEF y
<1>5. /\ \A i \in 1 .. Len(v) : y.buf[i] = v[i]
      /\ y.buf[Len(v) + 1] = Nul
  BY <1>1, <1>2, <1>3, <1>4, SMTT(30)
<1>6. Ends(y)
  BY <1>1, <1>4, <1>5 DEF Ends
<1>7. Value(y) = v
  BY <1>1, <1>4, <1>5, <1>6, SameValue
<1> QED BY <1>4, <1>6, <1>7 DEF y

LEMMA WidthType == ASSUME NEW fmt \in Seq(Directive) PROVE Width(fmt) \in Nat
<1> DEFINE wide == {i \in DOMAIN fmt : fmt[i].width = 2}
<1>1. Len(fmt) \in Nat /\ DOMAIN fmt = 1 .. Len(fmt) /\ IsFiniteSet(1 .. Len(fmt))
  BY FS_Interval
<1>2. IsFiniteSet(wide)
  BY <1>1, FS_Subset
<1>3. Cardinality(wide) \in Nat
  BY <1>2, FS_CardinalityType
<1> QED BY <1>1, <1>3 DEF Width

\* What the loop of sdscatfmt writes, and where: the positions and the strings
\* of its turns.
Ats(x, fmt) ==
  CHOOSE at : at = [n \in 0 .. Len(fmt) |-> IF n = 0 THEN x.len
                                            ELSE at[n - 1] + Len(fmt[n].text)]

TurnsOf(x, fmt) ==
  CHOOSE turns : turns = [n \in 0 .. Len(fmt) |->
                           IF n = 0 THEN sdsMakeRoomFor(x, x.len + 2 * Width(fmt))
                           ELSE Turn(turns[n - 1], Ats(x, fmt)[n - 1], fmt[n])]

LEMMA CatFmtIs ==
  ASSUME NEW x, NEW fmt
  PROVE  sdscatfmt(x, fmt)
           = Store(TurnsOf(x, fmt)[Len(fmt)], Ats(x, fmt)[Len(fmt)], <<Nul>>)
BY DEF sdscatfmt, TurnsOf, Ats

\* The loop's position is the length of what is written.
LEMMA AtsAre ==
  ASSUME NEW x, NEW fmt \in Seq(Directive), NEW g, NEW v,
         Behinds(Byte, v, [i \in DOMAIN fmt |-> fmt[i].text], g), x.len = Len(v)
  PROVE  \A n \in 0 .. Len(fmt) : Ats(x, fmt)[n] = Len(g[n])
<1> DEFINE m == Len(fmt)
           seqs == [i \in DOMAIN fmt |-> fmt[i].text]
           f == [n \in 0 .. m |-> Len(g[n])]
           at == Ats(x, fmt)
<1>1. /\ m \in Nat /\ DOMAIN fmt = 1 .. m
      /\ \A n \in 1 .. m : fmt[n].text \in Seq(Byte) /\ Len(fmt[n].text) \in Nat
  <2>1. m \in Nat /\ DOMAIN fmt = 1 .. m /\ \A n \in 1 .. m : fmt[n] \in Directive
    OBVIOUS
  <2>2. \A d \in Directive : d.text \in Seq(Byte) /\ Len(d.text) \in Nat
    BY DEF Directive
  <2> QED BY <2>1, <2>2
<1>2. seqs \in Seq(Seq(Byte)) /\ Len(seqs) = m
  BY <1>1
<1>3. /\ \A n \in 0 .. m : g[n] \in Seq(Byte)
      /\ g[0] = v /\ \A n \in 1 .. m : g[n] = g[n - 1] \o fmt[n].text
  BY <1>1, <1>2 DEF Behinds
<1> HIDE DEF m, seqs
<1>4. f[0] = x.len /\ \A n \in 1 .. m : f[n] = f[n - 1] + Len(fmt[n].text)
  <2>1. ASSUME NEW n \in 1 .. m PROVE f[n] = f[n - 1] + Len(fmt[n].text)
    <3>1. n - 1 \in 0 .. m /\ n \in 0 .. m
      BY <1>1
    <3> DEFINE p == g[n - 1]
               q == fmt[n].text
    <3>2. p \in Seq(Byte) /\ q \in Seq(Byte) /\ g[n] = p \o q
      BY <1>1, <1>3, <3>1
    <3> HIDE DEF p, q
    <3>3. Len(p \o q) = Len(p) + Len(q)
      BY <3>2, ConcatParts
    <3> QED BY <3>1, <3>2, <3>3 DEF p, q
  <2>2. f[0] = x.len
    <3>1. 0 \in 0 .. m /\ g[0] = v
      BY <1>1, <1>3
    <3> QED BY <3>1
  <2> QED BY <2>1, <2>2
<1>5. f = [n \in 0 .. m |-> IF n = 0 THEN x.len ELSE f[n - 1] + Len(fmt[n].text)]
  <2>1. \A n \in 0 .. m : n = 0 \/ n \in 1 .. m
    BY <1>1
  <2>2. f = [n \in 0 .. m |-> f[n]]
    OBVIOUS
  <2> HIDE DEF f
  <2> QED BY <1>4, <2>1, <2>2
<1>6. at = [n \in 0 .. m |-> IF n = 0 THEN x.len ELSE at[n - 1] + Len(fmt[n].text)]
  <2> HIDE DEF f
  <2> QED BY <1>5 DEF Ats, m
<1> HIDE DEF at
<1>7. at[0] = f[0] /\ \A n \in 1 .. m : at[n - 1] = f[n - 1] => at[n] = f[n]
  <2>1. 0 \in 0 .. m /\ \A n \in 1 .. m : n \in 0 .. m /\ n # 0
    BY <1>1
  <2> HIDE DEF f
  <2> QED BY <1>4, <1>6, <2>1
<1>8. Alike(at, f, m)
  <2> HIDE DEF f
  <2> QED BY <1>1, <1>7, Agree
<1>9. \A n \in 0 .. m : at[n] = f[n]
  BY <1>8 DEF Alike
<1> QED BY <1>9 DEF at, m

LEMMA LoopHolds ==
  ASSUME NEW x, Fits(x), Ends(x), NEW fmt \in Seq(Directive),
         \A i \in DOMAIN fmt : fmt[i].conversion \/ Len(fmt[i].text) <= 1
  PROVE  LET r == sdscatfmt(x, fmt) IN
         Fits(r) /\ Ends(r) /\ Value(r) = Value(x) \o Printed(fmt)
<1> DEFINE m == Len(fmt)
           v == Value(x)
           seqs == [i \in DOMAIN fmt |-> fmt[i].text]
           at == Ats(x, fmt)
           first == sdsMakeRoomFor(x, x.len + 2 * Width(fmt))
           turns == TurnsOf(x, fmt)
<1>1. /\ m \in Nat /\ DOMAIN fmt = 1 .. m
      /\ \A n \in 1 .. m : /\ fmt[n] \in Directive /\ fmt[n].text \in Seq(Byte)
                           /\ fmt[n].conversion \/ Len(fmt[n].text) <= 1
  <2>1. m \in Nat /\ DOMAIN fmt = 1 .. m /\ \A n \in 1 .. m : fmt[n] \in Directive
    OBVIOUS
  <2>2. \A d \in Directive : d.text \in Seq(Byte)
    BY DEF Directive
  <2> QED BY <2>1, <2>2
<1>2. seqs \in Seq(Seq(Byte)) /\ Len(seqs) = m /\ \A n \in 1 .. m : seqs[n] = fmt[n].text
  BY <1>1
<1>3. v \in Seq(Byte) /\ Len(v) = x.len /\ \A i \in 1 .. x.len : v[i] = x.buf[i]
  BY ValueIsText
<1>4. PICK g : Behinds(Byte, v, seqs, g)
  <2> HIDE DEF v, seqs
  <2> QED BY <1>2, <1>3, FlatBehind
<1>5. \A n \in 0 .. m : at[n] = Len(g[n])
  <2> HIDE DEF v
  <2> QED BY <1>3, <1>4, AtsAre
<1> HIDE DEF m, seqs, v, at
<1>6. /\ \A n \in 0 .. m : g[n] \in Seq(Byte)
      /\ g[0] = v /\ \A n \in 1 .. m : g[n] = g[n - 1] \o fmt[n].text
      /\ g[m] = v \o FlattenSeq(seqs)
  BY <1>2, <1>4 DEF Behinds
<1> DEFINE S == [n \in 0 .. m |-> {y \in SdsType : Holds(y, g[n])}]
           G == [n \in 1 .. m |-> [y \in SdsType |-> Turn(y, at[n - 1], fmt[n])]]
<1>7. first \in S[0]
  <2>1. Holds(x, v)
    BY <1>3 DEF Holds
  <2>2. x.len + 2 * Width(fmt) \in Nat
    BY WidthType, LenAlloc
  <2>3. Holds(first, v)
    BY <1>3, <2>1, <2>2, RoomHolds
  <2> HIDE DEF first
  <2>4. first \in SdsType /\ 0 \in 0 .. m
    BY <1>1, <2>3 DEF Holds, Fits
  <2> QED BY <1>6, <2>3, <2>4
<1>8. ASSUME NEW n \in 1 .. m, NEW y \in S[n - 1]
      PROVE  Turn(y, at[n - 1], fmt[n]) \in S[n] /\ y \in SdsType
  <2>1. n - 1 \in 0 .. m /\ n \in 0 .. m
    BY <1>1
  <2>2. y \in SdsType /\ Holds(y, g[n - 1]) /\ at[n - 1] = Len(g[n - 1])
    BY <1>5, <2>1
  <2>3. Holds(Turn(y, Len(g[n - 1]), fmt[n]), g[n - 1] \o fmt[n].text)
    <3>1. g[n - 1] \in Seq(Byte) /\ fmt[n] \in Directive
          /\ (fmt[n].conversion \/ Len(fmt[n].text) <= 1)
      BY <1>1, <1>6, <2>1
    <3> QED BY <2>2, <3>1, TurnHolds
  <2>4. Holds(Turn(y, at[n - 1], fmt[n]), g[n])
    BY <1>6, <2>2, <2>3
  <2> QED BY <2>1, <2>2, <2>4 DEF Holds, Fits
<1>9. \A n \in 1 .. m : \A y \in S[n - 1] : G[n][y] \in S[n] /\ G[n][y] = Turn(y, at[n - 1], fmt[n])
  BY <1>8
<1> HIDE DEF S, G, first
<1>10. PICK f : Runs(f, m, first, G, S)
  BY <1>1, <1>7, <1>9, Recursion
<1>11. /\ f = [n \in 0 .. m |-> f[n]] /\ f[0] = first
       /\ \A n \in 1 .. m : f[n] = Turn(f[n - 1], at[n - 1], fmt[n])
       /\ \A n \in 0 .. m : f[n] \in S[n]
  <2>1. \A n \in 1 .. m : n - 1 \in 0 .. m
    BY <1>1
  <2> QED BY <1>9, <1>10, <2>1 DEF Runs
<1>12. f = [n \in 0 .. m |-> IF n = 0 THEN first ELSE Turn(f[n - 1], at[n - 1], fmt[n])]
  <2>1. \A n \in 0 .. m : n = 0 \/ n \in 1 .. m
    BY <1>1
  <2> QED BY <1>11, <2>1
<1>13. turns = [n \in 0 .. m |-> IF n = 0 THEN first ELSE Turn(turns[n - 1], at[n - 1], fmt[n])]
  BY <1>12 DEF TurnsOf, first, at, m
<1> HIDE DEF turns
<1>14. turns[0] = f[0] /\ \A n \in 1 .. m : turns[n - 1] = f[n - 1] => turns[n] = f[n]
  <2>1. 0 \in 0 .. m /\ \A n \in 1 .. m : n \in 0 .. m /\ n # 0
    BY <1>1
  <2> QED BY <1>11, <1>13, <2>1
<1>15. turns[m] = f[m]
  <2>1. Alike(turns, f, m)
    BY <1>1, <1>14, Agree
  <2> QED BY <1>1, <2>1 DEF Alike
<1>16. Holds(turns[m], g[m]) /\ at[m] = Len(g[m]) /\ g[m] \in Seq(Byte)
  <2>1. m \in 0 .. m
    BY <1>1
  <2>2. f[m] \in S[m] /\ S[m] = {y \in SdsType : Holds(y, g[m])}
    BY <1>11, <2>1 DEF S
  <2> QED BY <1>5, <1>6, <1>15, <2>1, <2>2
<1>17. sdscatfmt(x, fmt) = Store(turns[m], Len(g[m]), <<Nul>>)
  BY <1>16, CatFmtIs DEF turns, at, m
<1>18. LET r == Store(turns[m], Len(g[m]), <<Nul>>)
       IN  Fits(r) /\ Ends(r) /\ Value(r) = g[m]
  BY <1>16, NulEnds
<1>19. g[m] = Value(x) \o Printed(fmt)
  BY <1>6 DEF v, seqs, Printed
<1> QED BY <1>17, <1>18, <1>19

\* Whichever buffer sdscatvprintf prints into, it appends the whole text.
LEMMA VPrintFIs ==
  ASSUME NEW x, NEW n \in Nat, NEW t \in Seq(Byte)
  PROVE  sdscatvprintf(x, n, t) = sdscatlen(x, t)
<1> DEFINE buflen == IF 2 * n > StaticBuf THEN 2 * n ELSE StaticBuf
           size == IF FitsIn(t, buflen) THEN buflen ELSE Len(t) + 1
<1>1. buflen \in Nat /\ Len(t) \in Nat
  BY FormatAssumption
<1> HIDE DEF buflen
<1>2. Len(t) < size
  BY <1>1 DEF FitsIn
<1>3. VSNPrintF(size, t) = SubSeq(t, 1, Len(t))
  <2> HIDE DEF size
  <2> QED BY <1>2 DEF VSNPrintF
<1>4. SubSeq(t, 1, Len(t)) = t
  BY SubSeqFull
<1>5. sdscatvprintf(x, n, t) = sdscatlen(x, VSNPrintF(size, t))
  BY DEF sdscatvprintf, buflen
<1> QED BY <1>3, <1>4, <1>5

LEMMA PrintedType == ASSUME NEW fmt \in Seq(Directive) PROVE Printed(fmt) \in Seq(Byte)
<1> DEFINE seqs == [i \in DOMAIN fmt |-> fmt[i].text]
           v == <<>>
<1>1. Len(fmt) \in Nat /\ DOMAIN fmt = 1 .. Len(fmt) /\ \A n \in 1 .. Len(fmt) : fmt[n] \in Directive
  OBVIOUS
<1>2. \A d \in Directive : d.text \in Seq(Byte)
  BY DEF Directive
<1>3. seqs \in Seq(Seq(Byte)) /\ v \in Seq(Byte)
  BY <1>1, <1>2
<1> HIDE DEF seqs
<1>4. CASE seqs = <<>>
  BY <1>4 DEF Printed, seqs, FlattenSeq
<1>5. CASE seqs # <<>>
  BY <1>3, <1>5, Flattened DEF Printed, seqs
<1> QED BY <1>4, <1>5

\* Printing behind a string, in one turn or in many, with whatever moves that
\* takes: the whole text is appended, no number of the header is cut to its
\* field, and a zero byte inside the block ends the string, for formats and
\* headers of any size (sds.c:534-709).
THEOREM FormatsAreWhole == Spec => []FormatsFit
<1>1. SdsInv => FormatsFit
  <2> SUFFICES ASSUME SdsInv, NEW fmt \in Format,
                      NEW r \in {sdscatfmt(s, fmt), sdscatvprintf(s, Width(fmt), Printed(fmt))}
               PROVE  Fits(r) /\ Ends(r) /\ Value(r) = Value(s) \o Printed(fmt)
    BY DEF FormatsFit
  <2>1. Fits(s) /\ Ends(s)
    BY DEF SdsInv
  <2>2. fmt \in Seq(Directive) /\ \A i \in DOMAIN fmt : fmt[i].conversion \/ Len(fmt[i].text) <= 1
    <3>1. /\ fmt \in Seq(Directive)
          /\ \A i \in DOMAIN fmt : fmt[i].conversion \/ Len(fmt[i].text) = 1 \/ fmt[i].text = <<>>
      BY FormatAssumption
    <3>2. Len(<<>>) <= 1 /\ 1 <= 1
      OBVIOUS
    <3> QED BY <3>1, <3>2
  <2>3. CASE r = sdscatfmt(s, fmt)
    BY <2>1, <2>2, <2>3, LoopHolds
  <2>4. CASE r = sdscatvprintf(s, Width(fmt), Printed(fmt))
    <3>1. Printed(fmt) \in Seq(Byte) /\ Width(fmt) \in Nat
      BY <2>2, PrintedType, WidthType
    <3>2. r = sdscatlen(s, Printed(fmt))
      BY <2>4, <3>1, VPrintFIs
    <3>3. Fits(r) /\ Ends(r) /\ Value(r) = Value(s) \o Printed(fmt)
      BY <2>1, <3>1, <3>2, CatSound, CatMeans
    <3> QED BY <3>3
  <2> QED BY <2>3, <2>4
<1> QED BY <1>1, SdsInvariance, PTL

-----------------------------------------------------------------------------
(* Numbers. *)

LEMMA TenToIs ==
  /\ TenTo(0) = 1
  /\ \A n \in Nat : TenTo(n) \in Nat /\ TenTo(n + 1) = 10 * TenTo(n)
<1> DEFINE ten(n) == CHOOSE t : t = [k \in 0 .. n |-> IF k = 0 THEN 1 ELSE 10 * t[k - 1]]
<1>1. \A n : TenTo(n) = ten(n)[n]
  BY DEF TenTo
<1>2. ASSUME NEW n \in Nat
      PROVE  /\ ten(n) = [k \in 0 .. n |-> IF k = 0 THEN 1 ELSE 10 * ten(n)[k - 1]]
             /\ \A k \in 0 .. n : ten(n)[k] \in Nat
  <2> DEFINE S == [k \in 0 .. n |-> Nat]
             G == [k \in 1 .. n |-> [x \in Nat |-> 10 * x]]
  <2>1. \A k \in 1 .. n : S[k - 1] = Nat /\ S[k] = Nat /\ \A x \in Nat : G[k][x] = 10 * x
    OBVIOUS
  <2>2. 1 \in S[0] /\ \A k \in 1 .. n : \A x \in S[k - 1] : G[k][x] \in S[k]
    <3>1. 0 \in 0 .. n
      OBVIOUS
    <3> QED BY <2>1, <3>1
  <2>3. \A k \in 0 .. n : S[k] = Nat
    OBVIOUS
  <2> HIDE DEF S, G
  <2>4. PICK f : Runs(f, n, 1, G, S)
    BY <2>2, Recursion
  <2>5. /\ f = [k \in 0 .. n |-> f[k]] /\ f[0] = 1
        /\ \A k \in 1 .. n : f[k] = 10 * f[k - 1]
        /\ \A k \in 0 .. n : f[k] \in Nat
    <3>1. \A k \in 1 .. n : k - 1 \in 0 .. n
      OBVIOUS
    <3> QED BY <2>1, <2>3, <2>4, <3>1 DEF Runs
  <2>6. f = [k \in 0 .. n |-> IF k = 0 THEN 1 ELSE 10 * f[k - 1]]
    <3>1. \A k \in 0 .. n : k = 0 \/ k \in 1 .. n
      OBVIOUS
    <3> QED BY <2>5, <3>1
  <2>7. ten(n) = [k \in 0 .. n |-> IF k = 0 THEN 1 ELSE 10 * ten(n)[k - 1]]
    BY <2>6
  <2> DEFINE t == ten(n)
  <2> HIDE DEF t
  <2>8. t[0] = f[0] /\ \A k \in 1 .. n : t[k - 1] = f[k - 1] => t[k] = f[k]
    <3>1. 0 \in 0 .. n /\ \A k \in 1 .. n : k \in 0 .. n /\ k # 0
      OBVIOUS
    <3>2. t = [k \in 0 .. n |-> IF k = 0 THEN 1 ELSE 10 * t[k - 1]]
      BY <2>7 DEF t
    <3> QED BY <2>5, <3>1, <3>2
  <2>9. Alike(t, f, n)
    BY <2>8, Agree
  <2> QED BY <2>5, <2>7, <2>9 DEF Alike, t
<1> HIDE DEF ten
<1>3. TenTo(0) = 1
  <2>1. 0 \in Nat /\ 0 \in 0 .. 0
    OBVIOUS
  <2>2. ten(0) = [k \in 0 .. 0 |-> IF k = 0 THEN 1 ELSE 10 * ten(0)[k - 1]]
    BY <1>2, <2>1
  <2> QED BY <1>1, <2>1, <2>2
<1>4. ASSUME NEW n \in Nat PROVE TenTo(n) \in Nat /\ TenTo(n + 1) = 10 * TenTo(n)
  <2> DEFINE t == ten(n)
             u == ten(n + 1)
  <2>1. /\ n + 1 \in Nat /\ n \in 0 .. n /\ 0 \in 0 .. n /\ n + 1 \in 0 .. n + 1 /\ n + 1 # 0
        /\ (n + 1) - 1 = n /\ 0 \in 0 .. n + 1
        /\ \A k \in 1 .. n : k \in 0 .. n /\ k \in 0 .. n + 1 /\ k # 0
    OBVIOUS
  <2>2. /\ t = [k \in 0 .. n |-> IF k = 0 THEN 1 ELSE 10 * t[k - 1]]
        /\ \A k \in 0 .. n : t[k] \in Nat
    BY <1>2
  <2>3. u = [k \in 0 .. n + 1 |-> IF k = 0 THEN 1 ELSE 10 * u[k - 1]]
    BY <1>2, <2>1
  <2> HIDE DEF t, u
  <2>4. t[0] = u[0] /\ \A k \in 1 .. n : t[k - 1] = u[k - 1] => t[k] = u[k]
    BY <2>1, <2>2, <2>3
  <2>5. Alike(t, u, n)
    BY <2>4, Agree
  <2>6. u[n + 1] = 10 * t[n] /\ t[n] \in Nat
    BY <2>1, <2>2, <2>3, <2>5 DEF Alike
  <2> QED BY <1>1, <2>6 DEF t, u
<1> QED BY <1>3, <1>4

\* The number that the first n bytes of t say.
Firsts(t) ==
  CHOOSE first : first = [n \in 0 .. Len(t) |-> IF n = 0 THEN 0
                                               ELSE 10 * first[n - 1] + (t[n] - 48)]

LEMMA FirstsAre ==
  ASSUME NEW t \in Seq(Int)
  PROVE  /\ Firsts(t) = [n \in 0 .. Len(t) |-> IF n = 0 THEN 0
                                              ELSE 10 * Firsts(t)[n - 1] + (t[n] - 48)]
         /\ \A n \in 0 .. Len(t) : Firsts(t)[n] \in Int
<1> DEFINE m == Len(t)
           S == [n \in 0 .. m |-> Int]
           G == [n \in 1 .. m |-> [x \in Int |-> 10 * x + (t[n] - 48)]]
           w == Firsts(t)
<1>1. m \in Nat /\ \A n \in 1 .. m : t[n] \in Int
  OBVIOUS
<1> HIDE DEF m
<1>2a. \A n \in 0 .. m : S[n] = Int
  OBVIOUS
<1>2b. \A n \in 1 .. m : \A x \in Int : G[n][x] = 10 * x + (t[n] - 48)
  OBVIOUS
<1>2. /\ \A n \in 1 .. m : n \in 0 .. m /\ n - 1 \in 0 .. m /\ n # 0
      /\ 0 \in 0 .. m /\ \A n \in 0 .. m : n = 0 \/ n \in 1 .. m
  BY <1>1
<1>3. 0 \in S[0] /\ \A n \in 1 .. m : \A x \in S[n - 1] : G[n][x] \in S[n]
  <2>1. \A n \in 1 .. m : \A x \in Int : 10 * x + (t[n] - 48) \in Int
    BY <1>1
  <2>2. ASSUME NEW n \in 1 .. m, NEW x \in S[n - 1] PROVE G[n][x] \in S[n]
    <3> HIDE DEF S, G
    <3>1. x \in Int /\ S[n] = Int
      BY <1>2, <1>2a
    <3> QED BY <1>2b, <2>1, <3>1, ZenonT(60)
  <2>3. 0 \in S[0]
    BY <1>2, <1>2a
  <2> HIDE DEF S, G
  <2> QED BY <2>2, <2>3
<1> HIDE DEF S, G
<1>4. PICK f : Runs(f, m, 0, G, S)
  BY <1>1, <1>3, Recursion
<1>5. /\ f = [n \in 0 .. m |-> f[n]] /\ f[0] = 0
      /\ \A n \in 1 .. m : f[n] = 10 * f[n - 1] + (t[n] - 48)
      /\ \A n \in 0 .. m : f[n] \in Int
  <2>1. /\ f = [n \in 0 .. m |-> f[n]] /\ f[0] = 0
        /\ \A n \in 1 .. m : f[n] = G[n][f[n - 1]]
        /\ \A n \in 0 .. m : f[n] \in S[n]
    BY <1>4 DEF Runs
  <2>2. \A n \in 0 .. m : f[n] \in Int
    BY <1>2a, <2>1
  <2>3. ASSUME NEW n \in 1 .. m PROVE f[n] = 10 * f[n - 1] + (t[n] - 48)
    <3>1. f[n - 1] \in Int /\ f[n] = G[n][f[n - 1]]
      BY <1>2, <2>1, <2>2
    <3> QED BY <1>2b, <3>1
  <2> QED BY <2>1, <2>2, <2>3
<1>6. f = [n \in 0 .. m |-> IF n = 0 THEN 0 ELSE 10 * f[n - 1] + (t[n] - 48)]
  BY <1>2, <1>5
<1>7. w = [n \in 0 .. m |-> IF n = 0 THEN 0 ELSE 10 * w[n - 1] + (t[n] - 48)]
  BY <1>6 DEF Firsts, m
<1> HIDE DEF w
<1>8. w[0] = f[0] /\ \A n \in 1 .. m : w[n - 1] = f[n - 1] => w[n] = f[n]
  <2>1. w[0] = 0
    BY <1>2, <1>7
  <2>2. ASSUME NEW n \in 1 .. m, w[n - 1] = f[n - 1] PROVE w[n] = f[n]
    <3>1. n \in 0 .. m /\ n # 0
      BY <1>2
    <3>2. w[n] = 10 * w[n - 1] + (t[n] - 48)
      BY <1>7, <3>1
    <3>3. f[n] = 10 * f[n - 1] + (t[n] - 48)
      BY <1>5
    <3> QED BY <2>2, <3>2, <3>3
  <2> QED BY <1>5, <2>1, <2>2
<1>9. Alike(w, f, m)
  BY <1>1, <1>8, Agree
<1> QED BY <1>5, <1>7, <1>9 DEF Alike, w, m

LEMMA NumberIs ==
  /\ Number(<<>>) = 0
  /\ \A t \in Seq(Int), b \in Int :
       Number(t) \in Int /\ Number(Append(t, b)) = 10 * Number(t) + (b - 48)
<1>1. \A t : Number(t) = Firsts(t)[Len(t)]
  BY DEF Number, Firsts
<1>2. Number(<<>>) = 0
  <2> DEFINE none == <<>>
  <2>1. none \in Seq(Int) /\ Len(none) = 0 /\ 0 \in 0 .. 0
    OBVIOUS
  <2> HIDE DEF none
  <2>2. Firsts(none)[0] = 0
    BY <2>1, FirstsAre
  <2> QED BY <1>1, <2>1, <2>2 DEF none
<1>3. ASSUME NEW t \in Seq(Int), NEW b \in Int
      PROVE  Number(t) \in Int /\ Number(Append(t, b)) = 10 * Number(t) + (b - 48)
  <2> DEFINE m == Len(t)
             u == Append(t, b)
             f == Firsts(t)
             g == Firsts(u)
  <2>1. /\ u \in Seq(Int) /\ Len(u) = m + 1 /\ m \in Nat
        /\ \A n \in 1 .. m : u[n] = t[n]
        /\ u[m + 1] = b
    BY AppendProperties
  <2>2. /\ f = [n \in 0 .. m |-> IF n = 0 THEN 0 ELSE 10 * f[n - 1] + (t[n] - 48)]
        /\ \A n \in 0 .. m : f[n] \in Int
    BY FirstsAre
  <2> HIDE DEF u
  <2>3. g = [n \in 0 .. Len(u) |-> IF n = 0 THEN 0 ELSE 10 * g[n - 1] + (u[n] - 48)]
    BY <2>1, FirstsAre
  <2> HIDE DEF f, g, m
  <2>4. /\ m \in 0 .. m /\ m + 1 \in 0 .. m + 1 /\ m + 1 # 0 /\ (m + 1) - 1 = m
        /\ 0 \in 0 .. m /\ 0 \in 0 .. m + 1
        /\ \A n \in 1 .. m : n \in 0 .. m /\ n \in 0 .. m + 1 /\ n # 0
    BY <2>1
  <2>5. f[0] = g[0] /\ \A n \in 1 .. m : f[n - 1] = g[n - 1] => f[n] = g[n]
    <3>1. f[0] = g[0]
      BY <2>1, <2>2, <2>3, <2>4
    <3>2. ASSUME NEW n \in 1 .. m, f[n - 1] = g[n - 1] PROVE f[n] = g[n]
      <4>1. n \in 0 .. m /\ n \in 0 .. Len(u) /\ n # 0 /\ u[n] = t[n]
        BY <2>1, <2>4
      <4>2. f[n] = 10 * f[n - 1] + (t[n] - 48)
        BY <2>2, <4>1
      <4>3. g[n] = 10 * g[n - 1] + (u[n] - 48)
        BY <2>3, <4>1
      <4> QED BY <3>2, <4>1, <4>2, <4>3
    <3> QED BY <3>1, <3>2
  <2>6. Alike(f, g, m)
    BY <2>1, <2>5, Agree
  <2>7. g[m + 1] = 10 * f[m] + (b - 48) /\ f[m] \in Int
    <3>1. f[m] \in Int /\ g[m] = f[m]
      BY <2>2, <2>4, <2>6 DEF Alike
    <3>2. g[m + 1] = 10 * g[(m + 1) - 1] + (u[m + 1] - 48)
      BY <2>1, <2>3, <2>4
    <3>3. g[m + 1] = 10 * g[m] + (b - 48)
      BY <2>1, <2>4, <3>2
    <3> QED BY <3>1, <3>3
  <2> QED BY <1>1, <2>1, <2>7 DEF f, g, u, m
<1> QED BY <1>2, <1>3

\* The digits of v, from the first to the last, as numbers up to v have them.
DigitsTo(v) ==
  CHOOSE digits : digits = [u \in 0 .. v |-> <<48 + (u % 10)>>
                              \o (IF u \div 10 = 0 THEN <<>> ELSE digits[u \div 10])]

LEMMA DigitsAre ==
  ASSUME NEW v \in Nat
  PROVE  DigitsTo(v) = [u \in 0 .. v |-> <<48 + (u % 10)>>
                          \o (IF u \div 10 = 0 THEN <<>> ELSE DigitsTo(v)[u \div 10])]
<1> DEFINE Good(d, k) == d = [u \in 0 .. k |-> <<48 + (u % 10)>>
                                \o (IF u \div 10 = 0 THEN <<>> ELSE d[u \div 10])]
           T == {k \in Nat : \E d : Good(d, k)}
<1>1. 0 \in T
  <2> DEFINE d == [u \in 0 .. 0 |-> <<48 + (u % 10)>> \o <<>>]
  <2>1. \A u \in 0 .. 0 : u \div 10 = 0
    OBVIOUS
  <2>2. Good(d, 0)
    BY <2>1
  <2> HIDE DEF d, Good
  <2> QED BY <2>2
<1>2. ASSUME NEW k \in T PROVE k + 1 \in T
  <2>1. PICK d : Good(d, k)
    OBVIOUS
  <2> DEFINE last == <<48 + ((k + 1) % 10)>>
                       \o (IF (k + 1) \div 10 = 0 THEN <<>> ELSE d[(k + 1) \div 10])
             e == [u \in 0 .. k + 1 |-> IF u = k + 1 THEN last ELSE d[u]]
  <2>2. k \in Nat
    OBVIOUS
  <2>3. \A u \in 0 .. k + 1 : u \div 10 \in 0 .. k + 1 /\ (u > 0 => u \div 10 \in 0 .. k)
    BY <2>2
  <2>4. e[k + 1] = last /\ (\A u \in 0 .. k : e[u] = d[u]) /\ e = [u \in 0 .. k + 1 |-> e[u]]
    <3> HIDE DEF last
    <3> QED BY <2>2
  <2>5. last = <<48 + ((k + 1) % 10)>>
                  \o (IF (k + 1) \div 10 = 0 THEN <<>> ELSE d[(k + 1) \div 10])
    OBVIOUS
  <2> HIDE DEF e, last
  <2>6. ASSUME NEW u \in 0 .. k + 1
        PROVE  e[u] = <<48 + (u % 10)>> \o (IF u \div 10 = 0 THEN <<>> ELSE e[u \div 10])
    <3>1. CASE u = k + 1
      <4>1. u \div 10 \in 0 .. k
        BY <2>2, <2>3, <3>1
      <4>2. e[u \div 10] = d[u \div 10]
        BY <2>4, <4>1
      <4> QED BY <2>4, <2>5, <3>1, <4>2
    <3>2. CASE u # k + 1
      <4>1. u \in 0 .. k /\ u \div 10 \in 0 .. k
        BY <2>2, <2>3, <3>2
      <4>2. e[u] = d[u] /\ e[u \div 10] = d[u \div 10]
        BY <2>4, <4>1
      <4>3. d[u] = <<48 + (u % 10)>> \o (IF u \div 10 = 0 THEN <<>> ELSE d[u \div 10])
        BY <2>1, <4>1
      <4> QED BY <4>2, <4>3
    <3> QED BY <3>1, <3>2
  <2>7. Good(e, k + 1)
    BY <2>4, <2>6
  <2> HIDE DEF Good
  <2> QED BY <2>2, <2>7
<1>3. v \in T
  <2>1. \A k \in T : k \in 0 .. v - 1 => k + 1 \in T
    BY <1>2
  <2> HIDE DEF T
  <2>2. 0 .. v \subseteq T
    BY <1>1, <2>1, Induction
  <2> QED BY <2>2
<1>4. PICK d : Good(d, v)
  BY <1>3, ZenonT(60)
<1>5. Good(DigitsTo(v), v)
  BY <1>4, ZenonT(60) DEF DigitsTo
<1> QED BY <1>5

LEMMA ReverseIs ==
  ASSUME NEW t \in Seq(Int), NEW b \in Int
  PROVE  /\ Reverse(t) \in Seq(Int) /\ Len(Reverse(t)) = Len(t)
         /\ Reverse(<<b>> \o t) = Append(Reverse(t), b)
         /\ Reverse(Append(t, b)) = <<b>> \o Reverse(t)
<1> DEFINE m == Len(t)
           r == Reverse(t)
           one == <<b>>
           bt == one \o t
           tb == Append(t, b)
<1>1. m \in Nat /\ \A i \in 1 .. m : t[i] \in Int
  OBVIOUS
<1>2. /\ one \in Seq(Int) /\ Len(one) = 1 /\ one[1] = b
  OBVIOUS
<1>3. r \in Seq(Int) /\ Len(r) = m /\ \A i \in 1 .. m : r[i] = t[(m - i) + 1]
  <2>1. \A i \in 1 .. m : (m - i) + 1 \in 1 .. m
    BY <1>1
  <2>2. r = [i \in 1 .. m |-> t[(m - i) + 1]]
    BY DEF Reverse
  <2> HIDE DEF r, m
  <2> QED BY <1>1, <2>1, <2>2
<1> HIDE DEF r, one
<1>4. /\ bt \in Seq(Int) /\ Len(bt) = m + 1 /\ bt[1] = b
      /\ \A i \in 1 .. m : bt[1 + i] = t[i]
  <2>1. /\ bt \in Seq(Int) /\ Len(bt) = Len(one) + Len(t)
        /\ \A i \in 1 .. Len(one) : bt[i] = one[i]
        /\ \A i \in 1 .. Len(t) : bt[Len(one) + i] = t[i]
    <3>1. one \in Seq(Int) /\ t \in Seq(Int)
      BY <1>2
    <3> HIDE DEF m
    <3> QED BY <3>1, ConcatParts
  <2> HIDE DEF bt
  <2> QED BY <1>1, <1>2, <2>1
<1>5. /\ tb \in Seq(Int) /\ Len(tb) = m + 1 /\ tb[m + 1] = b
      /\ \A i \in 1 .. m : tb[i] = t[i]
  BY AppendProperties
<1> DEFINE rb == Append(r, b)
           br == one \o r
<1>6. /\ rb \in Seq(Int) /\ Len(rb) = m + 1 /\ rb[m + 1] = b
      /\ \A i \in 1 .. m : rb[i] = r[i]
  BY <1>3, AppendProperties
<1>7. /\ br \in Seq(Int) /\ Len(br) = m + 1 /\ br[1] = b
      /\ \A i \in 1 .. m : br[1 + i] = r[i]
  <2>1. /\ br \in Seq(Int) /\ Len(br) = Len(one) + Len(r)
        /\ \A i \in 1 .. Len(one) : br[i] = one[i]
        /\ \A i \in 1 .. Len(r) : br[Len(one) + i] = r[i]
    <3>1. one \in Seq(Int) /\ r \in Seq(Int)
      BY <1>2, <1>3
    <3> HIDE DEF m
    <3> QED BY <3>1, ConcatParts
  <2> HIDE DEF br
  <2> QED BY <1>2, <1>3, <2>1
<1> HIDE DEF bt, tb, rb, br, m
<1>8. Reverse(bt) = rb
  <2>1. Reverse(bt) = [i \in 1 .. m + 1 |-> bt[((m + 1) - i) + 1]]
    BY <1>4 DEF Reverse
  <2>2. rb = [i \in 1 .. m + 1 |-> rb[i]]
    BY <1>1, <1>6
  <2>3. ASSUME NEW i \in 1 .. m + 1 PROVE bt[((m + 1) - i) + 1] = rb[i]
    <3>1. CASE i = m + 1
      BY <1>1, <1>4, <1>6, <3>1
    <3>2. CASE i # m + 1
      <4>1. i \in 1 .. m /\ (m - i) + 1 \in 1 .. m /\ ((m + 1) - i) + 1 = 1 + ((m - i) + 1)
        BY <1>1, <3>2
      <4> QED BY <1>3, <1>4, <1>6, <4>1
    <3> QED BY <3>1, <3>2
  <2> QED BY <2>1, <2>2, <2>3
<1>9. Reverse(tb) = br
  <2>1. Reverse(tb) = [i \in 1 .. m + 1 |-> tb[((m + 1) - i) + 1]]
    BY <1>5 DEF Reverse
  <2>2. br = [i \in 1 .. m + 1 |-> br[i]]
    BY <1>1, <1>7
  <2>3. ASSUME NEW i \in 1 .. m + 1 PROVE tb[((m + 1) - i) + 1] = br[i]
    <3>1. CASE i = 1
      <4>1. ((m + 1) - i) + 1 = m + 1
        BY <1>1, <3>1
      <4> QED BY <1>5, <1>7, <3>1, <4>1
    <3>2. CASE i # 1
      <4>1. i - 1 \in 1 .. m /\ (m - (i - 1)) + 1 \in 1 .. m /\ i = 1 + (i - 1)
            /\ ((m + 1) - i) + 1 = (m - (i - 1)) + 1
        BY <1>1, <3>2
      <4>2. br[i] = r[i - 1]
        BY <1>7, <4>1
      <4>3. r[i - 1] = t[(m - (i - 1)) + 1]
        BY <1>3, <4>1
      <4>4. tb[((m + 1) - i) + 1] = t[(m - (i - 1)) + 1]
        BY <1>5, <4>1
      <4> QED BY <4>2, <4>3, <4>4
    <3> QED BY <3>1, <3>2
  <2> QED BY <2>1, <2>2, <2>3
<1> QED BY <1>3, <1>8, <1>9 DEF r, m, bt, tb, rb, br, one

\* Text t is number u in decimal, with no needless zero and no needless digit.
Says(t, u) ==
  /\ t \in Seq(Int) /\ Len(t) >= 1 /\ Number(t) = u
  /\ t[1] = 48 => u = 0 /\ Len(t) = 1
  /\ \A k \in Nat \ {0} : u < TenTo(k) => Len(t) <= k

\* One more digit.
LEMMA SaysMore ==
  ASSUME NEW u \in Nat, NEW t, IF u \div 10 = 0 THEN t = <<>> ELSE Says(t, u \div 10)
  PROVE  Says(Append(t, 48 + (u % 10)), u)
<1> DEFINE q == u \div 10
           b == 48 + (u % 10)
           tb == Append(t, b)
<1>1. q \in Nat /\ b \in Int /\ b - 48 = u % 10 /\ u = 10 * q + (u % 10)
      /\ u % 10 \in 0 .. 9
  OBVIOUS
<1>2. t \in Seq(Int) /\ Number(t) = q
  <2>1. CASE q = 0
    BY <2>1, NumberIs
  <2>2. CASE q # 0
    BY <2>2 DEF Says
  <2> QED BY <2>1, <2>2
<1>2a. q # 0 => Says(t, q)
  OBVIOUS
<1>2b. q = 0 => t = <<>>
  OBVIOUS
<1> DEFINE r == u % 10
<1>2c. b = 48 + r
  OBVIOUS
<1> HIDE DEF q, b, r
<1>3. /\ tb \in Seq(Int) /\ Len(tb) = Len(t) + 1
      /\ \A i \in 1 .. Len(t) : tb[i] = t[i]
      /\ tb[Len(t) + 1] = b
  BY <1>1, <1>2, AppendProperties
<1>4. Number(tb) = 10 * Number(t) + (b - 48)
  BY <1>1, <1>2, NumberIs
<1>5. Number(tb) = u
  BY <1>1, <1>2, <1>2c, <1>4 DEF r
<1> HIDE DEF tb
<1>6. CASE q = 0
  <2>1. Len(t) = 0 /\ Len(tb) = 1 /\ tb[1] = b /\ u = r /\ r \in 0 .. 9
    BY <1>1, <1>2b, <1>3, <1>6 DEF r
  <2>2. tb[1] = 48 => u = 0
    BY <1>2c, <2>1
  <2> QED BY <1>3, <1>5, <2>1, <2>2 DEF Says, tb, b
<1>7. CASE q # 0
  <2>1. Says(t, q)
    BY <1>2a, <1>7
  <2>2. Len(t) \in Nat /\ Len(t) >= 1 /\ (t[1] = 48 => q = 0)
    BY <1>2, <2>1 DEF Says
  <2>3. tb[1] # 48 /\ Len(tb) >= 1
    BY <1>3, <1>7, <2>2
  <2>4. ASSUME NEW k \in Nat \ {0}, u < TenTo(k) PROVE Len(tb) <= k
    <3>1. k # 1
      <4>1. ASSUME k = 1 PROVE FALSE
        <5>1. TenTo(0 + 1) = 10 * TenTo(0) /\ 0 + 1 = 1
          BY TenToIs
        <5>2. u < 10
          BY <2>4, <4>1, <5>1, TenToIs
        <5> QED BY <1>1, <1>7, <5>2
      <4> QED BY <4>1
    <3>2. k - 1 \in Nat \ {0} /\ (k - 1) + 1 = k
      BY <3>1
    <3>3. TenTo(k) = 10 * TenTo(k - 1) /\ TenTo(k - 1) \in Nat
      BY <3>2, TenToIs
    <3>4. q < TenTo(k - 1)
      <4> DEFINE x == TenTo(k - 1)
      <4>1. u < 10 * x /\ x \in Nat
        BY <2>4, <3>3
      <4> HIDE DEF x
      <4>2. q < x
        BY <1>1, <4>1
      <4> QED BY <4>2 DEF x
    <3>5. Len(t) <= k - 1
      BY <2>1, <3>2, <3>4 DEF Says
    <3> QED BY <1>3, <2>2, <3>2, <3>5
  <2>5. Says(tb, u)
    BY <1>3, <1>5, <2>3, <2>4 DEF Says
  <2> QED BY <2>5 DEF tb, b
<1> QED BY <1>6, <1>7

LEMMA DigitsSay ==
  ASSUME NEW v \in Nat
  PROVE  Digits(v) \in Seq(Int) /\ Says(Reverse(Digits(v)), v)
<1> DEFINE d == DigitsTo(v)
           Good(u) == d[u] \in Seq(Int) /\ Says(Reverse(d[u]), u)
           Bad == {u \in Nat : u \in 0 .. v /\ ~Good(u)}
<1>1. \A u \in 0 .. v :
        d[u] = <<48 + (u % 10)>> \o (IF u \div 10 = 0 THEN <<>> ELSE d[u \div 10])
  <2>1. d = [u \in 0 .. v |-> <<48 + (u % 10)>> \o (IF u \div 10 = 0 THEN <<>> ELSE d[u \div 10])]
    BY DigitsAre
  <2> HIDE DEF d
  <2> QED BY <2>1
<1> HIDE DEF d
<1>2. Bad = {}
  <2> SUFFICES ASSUME Bad # {} PROVE FALSE
    OBVIOUS
  <2>1. PICK u \in Bad : \A l \in Bad : u <= l
    <3>1. Bad \in SUBSET Nat
      OBVIOUS
    <3> HIDE DEF Bad
    <3> QED BY <3>1, Least
  <2> DEFINE q == u \div 10
             b == 48 + (u % 10)
             rest == IF q = 0 THEN <<>> ELSE d[q]
  <2>2. u \in Nat /\ u \in 0 .. v
    BY <2>1
  <2>3. q \in Nat /\ q \in 0 .. v /\ (q # 0 => ~(u <= q)) /\ b \in Int
    BY <2>2
  <2>4. q # 0 => Good(q)
    <3>1. q # 0 => q \notin Bad
      <4> HIDE DEF Bad, q
      <4> QED BY <2>1, <2>3
    <3> HIDE DEF q, Good
    <3> QED BY <2>3, <3>1
  <2>5. rest \in Seq(Int) /\ (IF q = 0 THEN Reverse(rest) = <<>> ELSE Says(Reverse(rest), q))
    <3>1. CASE q = 0
      <4>1. Reverse(<<>>) = <<>>
        BY DEF Reverse
      <4> QED BY <3>1, <4>1
    <3>2. CASE q # 0
      BY <2>4, <3>2
    <3> QED BY <3>1, <3>2
  <2>6. d[u] = <<b>> \o rest
    BY <1>1, <2>2
  <2> HIDE DEF rest
  <2>7. Says(Append(Reverse(rest), b), u)
    BY <2>2, <2>5, SaysMore
  <2> HIDE DEF b
  <2>8. Reverse(<<b>> \o rest) = Append(Reverse(rest), b)
    BY <2>3, <2>5, ReverseIs
  <2>9. <<b>> \o rest \in Seq(Int)
    <3>1. <<b>> \in Seq(Int)
      BY <2>3
    <3> QED BY <2>5, <3>1, ConcatParts
  <2>10. Good(u)
    BY <2>6, <2>7, <2>8, <2>9
  <2> QED BY <2>1, <2>10
<1>3. Good(v)
  <2>1. v \in 0 .. v
    OBVIOUS
  <2> HIDE DEF Good
  <2> QED BY <1>2, <2>1
<1>4. Digits(v) = d[v]
  BY DEF Digits, d, DigitsTo
<1> QED BY <1>3, <1>4

\* A printed number reads back, has no needless zero and fits in its buffer.
LEMMA NumbersAreRead == NumbersReadBack
<1> SUFFICES ASSUME NEW v \in -(LLMax + 1) .. 2 * LLMax + 1
             PROVE  LET t      == IF v > LLMax THEN sdsull2str(v) ELSE sdsll2str(v)
                        digits == IF v < 0 THEN Tail(t) ELSE t
                    IN  /\ v < 0 => t[1] = 45
                        /\ digits # <<>> /\ Number(digits) = IF v < 0 THEN -v ELSE v
                        /\ digits[1] = 48 => Len(digits) = 1
                        /\ Len(t) + 1 <= LLStrSize
  BY DEF NumbersReadBack
<1> DEFINE m == IF v < 0 THEN -v ELSE v
           r == Reverse(Digits(m))
           t == IF v > LLMax THEN sdsull2str(v) ELSE sdsll2str(v)
<1>1. LLMax \in Nat /\ LLStrSize \in Nat /\ LLStrSize > 2
  BY FormatAssumption
<1>2. v \in Int /\ m \in Nat /\ (v < 0 => m <= LLMax + 1) /\ (v >= 0 => m <= 2 * LLMax + 1)
  BY <1>1
<1>3. Digits(m) \in Seq(Int) /\ Says(r, m)
  <2> HIDE DEF m
  <2> QED BY <1>2, DigitsSay
<1>4. r \in Seq(Int) /\ Len(r) >= 1 /\ Number(r) = m /\ (r[1] = 48 => Len(r) = 1)
      /\ Len(r) \in Nat
  <2>1. r \in Seq(Int) /\ Len(r) >= 1 /\ Number(r) = m /\ (r[1] = 48 => Len(r) = 1)
    BY <1>3 DEF Says
  <2> HIDE DEF r
  <2> QED BY <2>1
<1>5. CASE v < 0
  <2>1. Len(r) <= LLStrSize - 2
    <3>1. m < TenTo(LLStrSize - 2)
      <4> DEFINE x == TenTo(LLStrSize - 2)
      <4>1. LLMax + 1 < x /\ x \in Nat
        <5>1. LLStrSize - 2 \in Nat
          BY <1>1
        <5> QED BY <5>1, FormatAssumption, TenToIs
      <4> HIDE DEF x, m
      <4>2. m < x
        BY <1>1, <1>2, <1>5, <4>1
      <4> QED BY <4>2 DEF x
    <3>2. LLStrSize - 2 \in Nat \ {0}
      BY <1>1
    <3> HIDE DEF m, r
    <3> QED BY <1>3, <3>1, <3>2 DEF Says
  <2>2. t = Reverse(Append(Digits(m), 45))
    BY <1>1, <1>2, <1>5 DEF sdsll2str
  <2>3. Reverse(Append(Digits(m), 45)) = <<45>> \o r
    <3>1. 45 \in Int
      OBVIOUS
    <3> HIDE DEF m
    <3> QED BY <1>3, <3>1, ReverseIs DEF r
  <2> DEFINE one == <<45>>
  <2>4. one \in Seq(Int) /\ Len(one) = 1 /\ one[1] = 45
    OBVIOUS
  <2> HIDE DEF r, t, m, one
  <2>5. /\ one \o r \in Seq(Int) /\ Len(one \o r) = Len(one) + Len(r)
        /\ \A i \in 1 .. Len(one) : (one \o r)[i] = one[i]
        /\ \A i \in 1 .. Len(r) : (one \o r)[Len(one) + i] = r[i]
    <3>1. one \in Seq(Int) /\ r \in Seq(Int)
      BY <1>4, <2>4
    <3> QED BY <3>1, ConcatParts
  <2>6. t \in Seq(Int) /\ Len(t) = 1 + Len(r) /\ t[1] = 45
        /\ \A i \in 1 .. Len(r) : t[1 + i] = r[i]
    <3>1. t = one \o r
      BY <2>2, <2>3 DEF one
    <3> QED BY <1>4, <2>4, <2>5, <3>1
  <2>7. Tail(t) = r
    <3>1. t # <<>>
      BY <1>4, <2>6
    <3>2. /\ Tail(t) \in Seq(Int) /\ Len(Tail(t)) = Len(t) - 1
          /\ \A i \in 1 .. Len(Tail(t)) : Tail(t)[i] = t[i + 1]
      BY <2>6, <3>1, HeadTailProperties
    <3>3. Len(Tail(t)) = Len(r) /\ \A i \in 1 .. Len(r) : Tail(t)[i] = r[i]
      <4>1. Len(Tail(t)) = Len(r)
        BY <1>4, <2>6, <3>2
      <4>2. \A i \in 1 .. Len(r) : i + 1 = 1 + i
        BY <1>4
      <4>3. \A i \in 1 .. Len(r) : Tail(t)[i] = t[1 + i]
        BY <3>2, <4>1, <4>2
      <4> QED BY <2>6, <4>1, <4>3
    <3> QED BY <1>4, <3>2, <3>3, SeqEqual
  <2>8. Number(r) = IF v < 0 THEN -v ELSE v
    BY <1>4 DEF m
  <2>9. /\ v < 0 => t[1] = 45
        /\ Tail(t) # <<>> /\ Number(Tail(t)) = IF v < 0 THEN -v ELSE v
        /\ Tail(t)[1] = 48 => Len(Tail(t)) = 1
        /\ Len(t) + 1 <= LLStrSize
    <3>1. Len(t) + 1 <= LLStrSize
      BY <1>1, <1>4, <2>1, <2>6
    <3>2. r # <<>>
      BY <1>4
    <3> QED BY <1>4, <2>6, <2>7, <2>8, <3>1, <3>2
  <2> QED BY <1>5, <2>9 DEF t
<1>6. CASE ~(v < 0)
  <2>1. Len(r) <= LLStrSize - 1
    <3>1. m < TenTo(LLStrSize - 1)
      <4> DEFINE x == TenTo(LLStrSize - 1)
      <4>1. 2 * LLMax + 1 < x /\ x \in Nat
        <5>1. LLStrSize - 1 \in Nat
          BY <1>1
        <5> QED BY <5>1, FormatAssumption, TenToIs
      <4> HIDE DEF x, m
      <4>2. m < x
        BY <1>1, <1>2, <1>6, <4>1
      <4> QED BY <4>2 DEF x
    <3>2. LLStrSize - 1 \in Nat \ {0}
      BY <1>1
    <3> HIDE DEF m, r
    <3> QED BY <1>3, <3>1, <3>2 DEF Says
  <2>2. t = r
    BY <1>6 DEF sdsll2str, sdsull2str
  <2>3. Number(r) = IF v < 0 THEN -v ELSE v
    BY <1>4 DEF m
  <2> HIDE DEF r, t, m
  <2>4. /\ v < 0 => t[1] = 45
        /\ t # <<>> /\ Number(t) = IF v < 0 THEN -v ELSE v
        /\ t[1] = 48 => Len(t) = 1
        /\ Len(t) + 1 <= LLStrSize
    BY <1>1, <1>4, <1>6, <2>1, <2>2, <2>3
  <2> QED BY <1>6, <2>4 DEF t
<1> QED BY <1>5, <1>6

-----------------------------------------------------------------------------
(* Comparing and mapping. *)

Sign(a, b) == IF a > b THEN 1 ELSE IF a < b THEN -1 ELSE 0

Shorter(t, u) == IF Len(t) < Len(u) THEN Len(t) ELSE Len(u)

\* Alike as far as the shorter one goes, or up to a first byte that differs.
NoDifference(t, u) == \A i \in 1 .. Shorter(t, u) : t[i] = u[i]
DifferAt(t, u, i) ==
  i \in 1 .. Shorter(t, u) /\ t[i] # u[i] /\ \A k \in 1 .. i - 1 : t[k] = u[k]

Compares(t, u, c) ==
  \/ NoDifference(t, u) /\ c = Sign(Len(t), Len(u))
  \/ \E i : DifferAt(t, u, i) /\ c = Sign(t[i], u[i])

LEMMA CmpIs ==
  ASSUME NEW t \in Seq(Int), NEW u \in Seq(Int)
  PROVE  Compares(t, u, sdscmp(t, u))
<1> DEFINE m == Shorter(t, u)
           differ == {i \in 1 .. m : t[i] # u[i]}
           least == CHOOSE i \in differ : \A k \in differ : i <= k
<1>1. m \in Nat
  BY DEF Shorter
<1>2. sdscmp(t, u) = IF differ = {} THEN Sign(Len(t), Len(u)) ELSE Sign(t[least], u[least])
  BY DEF sdscmp, Sign, Shorter
<1>3. CASE differ = {}
  <2>1. NoDifference(t, u)
    BY <1>3 DEF NoDifference
  <2> HIDE DEF differ
  <2> QED BY <1>2, <1>3, <2>1 DEF Compares
<1>4. CASE differ # {}
  <2>1. \E i \in differ : \A k \in differ : i <= k
    <3>1. differ \in SUBSET Nat
      BY <1>1
    <3> HIDE DEF differ
    <3> QED BY <1>4, <3>1, Least
  <2>2. least \in differ /\ \A k \in differ : least <= k
    <3> HIDE DEF differ
    <3> QED BY <2>1
  <2> HIDE DEF least
  <2>3. DifferAt(t, u, least)
    <3>1. least \in 1 .. m /\ t[least] # u[least]
      BY <2>2
    <3>2. \A k \in 1 .. least - 1 : k \in 1 .. m /\ ~(least <= k)
      BY <1>1, <3>1, SMTT(30)
    <3>3. \A k \in 1 .. least - 1 : t[k] = u[k]
      BY <2>2, <3>2
    <3> QED BY <3>1, <3>3 DEF DifferAt
  <2>4. sdscmp(t, u) = Sign(t[least], u[least])
    <3> HIDE DEF differ
    <3> QED BY <1>2, <1>4
  <2> QED BY <2>3, <2>4 DEF Compares
<1> QED BY <1>3, <1>4

\* There is one way in which two texts compare.
LEMMA ComparesOnce ==
  ASSUME NEW t \in Seq(Int), NEW u \in Seq(Int), NEW c, NEW e,
         Compares(t, u, c), Compares(t, u, e)
  PROVE  c = e
<1>1. Shorter(t, u) \in Nat
  BY DEF Shorter
<1>2. \A i : DifferAt(t, u, i) => ~NoDifference(t, u)
  BY DEF DifferAt, NoDifference
<1>3. \A i, k : DifferAt(t, u, i) /\ DifferAt(t, u, k) => i = k
  <2> SUFFICES ASSUME NEW i, NEW k, DifferAt(t, u, i), DifferAt(t, u, k) PROVE i = k
    OBVIOUS
  <2>1. i \in Nat /\ k \in Nat /\ i >= 1 /\ k >= 1
    BY <1>1 DEF DifferAt
  <2>2. ~(i \in 1 .. k - 1) /\ ~(k \in 1 .. i - 1)
    BY DEF DifferAt
  <2> QED BY <2>1, <2>2
<1> QED BY <1>2, <1>3 DEF Compares

LEMMA OrdersAll ==
  ASSUME NEW t \in Seq(Int), NEW u \in Seq(Int)
  PROVE  /\ sdscmp(t, u) = -sdscmp(u, t)
         /\ sdscmp(t, u) = 0 <=> t = u
         /\ sdscmp(t, t \o u) = IF u = <<>> THEN 0 ELSE -1
         /\ t # <<>> /\ u # <<>> /\ t[1] < u[1] => sdscmp(t, u) = -1
         /\ t # <<>> /\ u # <<>> /\ t[1] = u[1] => sdscmp(t, u) = sdscmp(Tail(t), Tail(u))
<1>1. /\ Len(t) \in Nat /\ Len(u) \in Nat /\ Shorter(t, u) \in Nat
      /\ Shorter(t, u) <= Len(t) /\ Shorter(t, u) <= Len(u)
      /\ (Len(t) = Len(u) => Shorter(t, u) = Len(t))
      /\ (Len(t) < Len(u) => Shorter(t, u) = Len(t)) /\ (Len(t) > Len(u) => Shorter(t, u) = Len(u))
      /\ Shorter(t, u) = Shorter(u, t)
  BY DEF Shorter
<1>1a. /\ \A i \in 1 .. Len(t) : t[i] \in Int
       /\ \A i \in 1 .. Len(u) : u[i] \in Int
  OBVIOUS
<1>2. sdscmp(t, u) = -sdscmp(u, t)
  <2>1. \A a, b \in Int : Sign(a, b) = -Sign(b, a)
    BY DEF Sign
  <2>2. CASE NoDifference(u, t) /\ sdscmp(u, t) = Sign(Len(u), Len(t))
    <3>1. NoDifference(t, u)
      BY <1>1, <2>2 DEF NoDifference
    <3>2. Compares(t, u, Sign(Len(t), Len(u)))
      BY <3>1 DEF Compares
    <3>3. sdscmp(t, u) = Sign(Len(t), Len(u))
      BY <3>2, CmpIs, ComparesOnce
    <3> QED BY <1>1, <2>1, <2>2, <3>3
  <2>3. ASSUME NEW i, DifferAt(u, t, i), sdscmp(u, t) = Sign(u[i], t[i])
        PROVE  sdscmp(t, u) = -sdscmp(u, t)
    <3>1. DifferAt(t, u, i)
      BY <1>1, <2>3 DEF DifferAt
    <3>2. Compares(t, u, Sign(t[i], u[i]))
      BY <3>1 DEF Compares
    <3>3. sdscmp(t, u) = Sign(t[i], u[i])
      BY <3>2, CmpIs, ComparesOnce
    <3>4. t[i] \in Int /\ u[i] \in Int
      <4>1. i \in 1 .. Len(t) /\ i \in 1 .. Len(u)
        BY <1>1, <3>1 DEF DifferAt
      <4> QED BY <1>1a, <4>1
    <3> QED BY <2>1, <2>3, <3>3, <3>4
  <2>4. Compares(u, t, sdscmp(u, t))
    BY CmpIs
  <2> QED BY <2>2, <2>3, <2>4 DEF Compares
<1>3. sdscmp(t, u) = 0 <=> t = u
  <2>1. ASSUME t = u PROVE sdscmp(t, u) = 0
    <3>1. NoDifference(t, u) /\ Sign(Len(t), Len(u)) = 0
      BY <1>1, <2>1 DEF NoDifference, Sign
    <3>2. Compares(t, u, 0)
      BY <3>1 DEF Compares
    <3> QED BY <3>2, CmpIs, ComparesOnce
  <2>2. ASSUME sdscmp(t, u) = 0 PROVE t = u
    <3>1. Compares(t, u, 0)
      BY <2>2, CmpIs
    <3>2. ASSUME NEW i, DifferAt(t, u, i), 0 = Sign(t[i], u[i]) PROVE FALSE
      <4>1. i \in 1 .. Len(t) /\ i \in 1 .. Len(u) /\ t[i] # u[i]
        BY <1>1, <3>2 DEF DifferAt
      <4>2. t[i] \in Int /\ u[i] \in Int
        BY <1>1a, <4>1
      <4> QED BY <3>2, <4>1, <4>2 DEF Sign
    <3>3. NoDifference(t, u) /\ Sign(Len(t), Len(u)) = 0
      BY <3>1, <3>2 DEF Compares
    <3>4. Len(t) = Len(u)
      BY <1>1, <3>3 DEF Sign
    <3>5. \A i \in 1 .. Len(t) : t[i] = u[i]
      BY <1>1, <3>3, <3>4 DEF NoDifference
    <3> QED BY <3>4, <3>5, SeqEqual
  <2> QED BY <2>1, <2>2
<1>4. sdscmp(t, t \o u) = IF u = <<>> THEN 0 ELSE -1
  <2> DEFINE tu == t \o u
  <2>1. /\ tu \in Seq(Int) /\ Len(tu) = Len(t) + Len(u)
        /\ \A i \in 1 .. Len(t) : tu[i] = t[i]
    BY ConcatParts
  <2> HIDE DEF tu
  <2>2. Shorter(t, tu) = Len(t)
    BY <1>1, <2>1 DEF Shorter
  <2>3. NoDifference(t, tu)
    BY <2>1, <2>2 DEF NoDifference
  <2>4. Compares(t, tu, Sign(Len(t), Len(tu)))
    BY <2>3 DEF Compares
  <2>5. sdscmp(t, tu) = Sign(Len(t), Len(tu))
    BY <2>1, <2>4, CmpIs, ComparesOnce
  <2>6. u = <<>> <=> Len(u) = 0
    OBVIOUS
  <2> QED BY <1>1, <2>1, <2>5, <2>6 DEF Sign, tu
<1>5. ASSUME t # <<>>, u # <<>>, t[1] < u[1] PROVE sdscmp(t, u) = -1
  <2>1. Len(t) >= 1 /\ Len(u) >= 1 /\ t[1] \in Int /\ u[1] \in Int
    BY <1>5
  <2>2. DifferAt(t, u, 1)
    BY <1>1, <1>5, <2>1 DEF DifferAt, Shorter
  <2>3. Sign(t[1], u[1]) = -1
    BY <1>5, <2>1 DEF Sign
  <2>4. Compares(t, u, -1)
    BY <2>2, <2>3 DEF Compares
  <2> QED BY <2>4, CmpIs, ComparesOnce
<1>6. ASSUME t # <<>>, u # <<>>, t[1] = u[1] PROVE sdscmp(t, u) = sdscmp(Tail(t), Tail(u))
  <2> DEFINE p == Tail(t)
             q == Tail(u)
             c == sdscmp(p, q)
  <2>1. /\ p \in Seq(Int) /\ Len(p) = Len(t) - 1
        /\ \A i \in 1 .. Len(p) : p[i] = t[i + 1]
    BY <1>6, HeadTailProperties
  <2>2. /\ q \in Seq(Int) /\ Len(q) = Len(u) - 1
        /\ \A i \in 1 .. Len(q) : q[i] = u[i + 1]
    BY <1>6, HeadTailProperties
  <2>3. Len(t) >= 1 /\ Len(u) >= 1
    BY <1>6
  <2> HIDE DEF p, q
  <2>4. Compares(p, q, c)
    BY <2>1, <2>2, CmpIs
  <2>5. /\ Shorter(p, q) = Shorter(t, u) - 1 /\ Shorter(p, q) \in Nat
        /\ Shorter(p, q) <= Len(p) /\ Shorter(p, q) <= Len(q)
        /\ Len(p) \in Nat /\ Len(q) \in Nat
    <3>1. /\ Len(t) \in Nat /\ Len(u) \in Nat /\ Len(t) >= 1 /\ Len(u) >= 1
          /\ Len(p) = Len(t) - 1 /\ Len(q) = Len(u) - 1
      BY <1>1, <2>1, <2>2, <2>3
    <3>2. Shorter(p, q) = Shorter(t, u) - 1
      BY ONLY <3>1 DEF Shorter
    <3>3. /\ Shorter(p, q) \in Nat /\ Len(p) \in Nat /\ Len(q) \in Nat
          /\ Shorter(p, q) <= Len(p) /\ Shorter(p, q) <= Len(q)
      BY ONLY <3>1 DEF Shorter
    <3> QED BY <3>2, <3>3
  <2>5a. \A i \in 1 .. Shorter(p, q) : p[i] = t[i + 1] /\ q[i] = u[i + 1]
    <3>1. \A i \in 1 .. Shorter(p, q) : i \in 1 .. Len(p) /\ i \in 1 .. Len(q)
      BY <2>5
    <3> QED BY <2>1, <2>2, <3>1
  <2> HIDE DEF c
  <2>6. ASSUME NoDifference(p, q), c = Sign(Len(p), Len(q)) PROVE Compares(t, u, c)
    <3>1. NoDifference(t, u)
      <4>1. ASSUME NEW i \in 1 .. Shorter(t, u) PROVE t[i] = u[i]
        <5>1. CASE i = 1
          BY <1>6, <5>1
        <5>2. CASE i # 1
          <6>1. i - 1 \in 1 .. Shorter(p, q) /\ (i - 1) + 1 = i
            BY <1>1, <2>5, <5>2
          <6> QED BY <2>5a, <2>6, <6>1 DEF NoDifference
        <5> QED BY <5>1, <5>2
      <4> QED BY <4>1 DEF NoDifference
    <3>2. c = Sign(Len(t), Len(u))
      BY <1>1, <2>1, <2>2, <2>6 DEF Sign
    <3> QED BY <3>1, <3>2 DEF Compares
  <2>7. ASSUME NEW i, DifferAt(p, q, i), c = Sign(p[i], q[i]) PROVE Compares(t, u, c)
    <3>1. /\ i \in 1 .. Shorter(p, q) /\ p[i] # q[i] /\ \A k \in 1 .. i - 1 : p[k] = q[k]
          /\ i \in Nat
      BY <2>5, <2>7 DEF DifferAt
    <3>2. i + 1 \in 1 .. Shorter(t, u) /\ t[i + 1] # u[i + 1] /\ c = Sign(t[i + 1], u[i + 1])
      <4>1. i + 1 \in 1 .. Shorter(t, u)
        BY <1>1, <2>5, <3>1
      <4> QED BY <2>5a, <2>7, <3>1, <4>1
    <3>3. ASSUME NEW k \in 1 .. (i + 1) - 1 PROVE t[k] = u[k]
      <4>1. CASE k = 1
        BY <1>6, <4>1
      <4>2. CASE k # 1
        <5>1. k - 1 \in 1 .. i - 1 /\ k - 1 \in 1 .. Shorter(p, q) /\ (k - 1) + 1 = k
          BY <2>5, <3>1, <4>2
        <5> QED BY <2>5a, <3>1, <5>1
      <4> QED BY <4>1, <4>2
    <3>4. DifferAt(t, u, i + 1)
      BY <3>2, <3>3 DEF DifferAt
    <3> QED BY <3>2, <3>4 DEF Compares
  <2>8. Compares(t, u, c)
    BY <2>4, <2>6, <2>7 DEF Compares
  <2>9. sdscmp(t, u) = c
    BY <2>8, CmpIs, ComparesOnce
  <2> QED BY <2>9 DEF c, p, q
<1> QED BY <1>2, <1>3, <1>4, <1>5, <1>6

\* A function over the places of a text, with bytes for values, is a text as long.
LEMMA ByteByByte ==
  ASSUME NEW t \in Seq(Nat), NEW r \in [1 .. Len(t) -> Nat]
  PROVE  r \in Seq(Nat) /\ Len(r) = Len(t)
<1>1. Len(t) \in Nat
  OBVIOUS
<1> QED BY <1>1

\* Where sdsmapchars finds a byte in a list of bytes: the first place, or 0.
Place(from, b)  == SelectInSeq(from, LAMBDA f : f = b)
Places(from, b) == {i \in 1 .. Len(from) : from[i] = b}

LEMMA PlaceOf ==
  ASSUME NEW from \in Seq(Nat), NEW b
  PROVE  /\ Places(from, b) = {} => Place(from, b) = 0
         /\ Places(from, b) # {} =>
              Place(from, b) \in Places(from, b) /\ \A i \in Places(from, b) : Place(from, b) <= i
<1> DEFINE I  == Places(from, b)
           at == Place(from, b)
<1>1. at = IF I # {} THEN Min(I) ELSE 0
  BY DEF SelectInSeq, Place, Places
<1>2. I \subseteq Nat
  BY LenProperties DEF Places
<1> HIDE DEF at, I
<1>3. ASSUME I # {} PROVE at \in I /\ \A i \in I : at <= i
  <2>1. PICK i \in I : \A k \in I : i <= k
    BY <1>2, <1>3, Least
  <2>2. Min(I) = CHOOSE x \in I : \A y \in I : x <= y
    BY DEF Min
  <2> QED BY <1>1, <1>3, <2>1, <2>2
<1>4. I = {} => at = 0
  BY <1>1
<1> QED BY <1>3, <1>4 DEF at, I

\* One byte of sdsmapchars.
Mapped(b, from, to) == IF Place(from, b) = 0 THEN b ELSE to[Place(from, b)]

KeepsBytes(from, to) == \A b \in Nat : Mapped(b, from, to) \in Nat

AllMapped(t, r, from, to) ==
  /\ r \in Seq(Nat) /\ Len(r) = Len(t)
  /\ \A i \in 1 .. Len(t) : r[i] = Mapped(t[i], from, to)

LEMMA MapIs ==
  ASSUME NEW t \in Seq(Nat), NEW from, NEW to, KeepsBytes(from, to)
  PROVE  AllMapped(t, sdsmapchars(t, from, to), from, to)
<1> DEFINE r == [i \in 1 .. Len(t) |-> Mapped(t[i], from, to)]
<1>1. sdsmapchars(t, from, to) = r
  <2>1. DOMAIN t = 1 .. Len(t)
    OBVIOUS
  <2> QED BY <2>1 DEF sdsmapchars, Mapped, Place
<1>2. \A i \in 1 .. Len(t) : t[i] \in Nat
  BY ElementOfSeq
<1>3. \A i \in 1 .. Len(t) : Mapped(t[i], from, to) \in Nat
  BY <1>2 DEF KeepsBytes
<1>4. r \in [1 .. Len(t) -> Nat] /\ \A i \in 1 .. Len(t) : r[i] = Mapped(t[i], from, to)
  BY <1>3
<1> HIDE DEF r
<1>5. r \in Seq(Nat) /\ Len(r) = Len(t)
  BY <1>4, ByteByByte
<1> QED BY <1>1, <1>4, <1>5 DEF AllMapped

\* The three lists of Maps.
LEMMA Swapped ==
  ASSUME NEW b \in Nat
  PROVE  Mapped(b, <<97, 110>>, <<110, 97>>) = IF b = 97 THEN 110 ELSE IF b = 110 THEN 97 ELSE b
<1> DEFINE from == <<97, 110>>
<1>1. from \in Seq(Nat) /\ Len(from) = 2 /\ from[1] = 97 /\ from[2] = 110
  OBVIOUS
<1> HIDE DEF from
<1>2. Places(from, b) = IF b = 97 THEN {1} ELSE IF b = 110 THEN {2} ELSE {}
  BY <1>1 DEF Places
<1>3. from \in Seq(Nat)
  BY <1>1
<1>4. /\ Places(from, b) = {} => Place(from, b) = 0
      /\ Places(from, b) # {} =>
           Place(from, b) \in Places(from, b) /\ \A i \in Places(from, b) : Place(from, b) <= i
  BY <1>3, PlaceOf
<1>5. Place(from, b) = IF b = 97 THEN 1 ELSE IF b = 110 THEN 2 ELSE 0
  BY <1>2, <1>4
<1> QED BY <1>5 DEF Mapped, from

LEMMA FirstWins ==
  ASSUME NEW b \in Nat
  PROVE  /\ Mapped(b, <<97, 97>>, <<98, 99>>) = IF b = 97 THEN 98 ELSE b
         /\ Mapped(b, <<97>>, <<98>>) = IF b = 97 THEN 98 ELSE b
<1>1. Mapped(b, <<97, 97>>, <<98, 99>>) = IF b = 97 THEN 98 ELSE b
  <2> DEFINE from == <<97, 97>>
  <2>1. from \in Seq(Nat) /\ Len(from) = 2 /\ from[1] = 97 /\ from[2] = 97
    OBVIOUS
  <2> HIDE DEF from
  <2>2. Places(from, b) = IF b = 97 THEN {1, 2} ELSE {}
    BY <2>1 DEF Places
  <2>3. from \in Seq(Nat)
    BY <2>1
  <2>4. /\ Places(from, b) = {} => Place(from, b) = 0
        /\ Places(from, b) # {} =>
             Place(from, b) \in Places(from, b) /\ \A i \in Places(from, b) : Place(from, b) <= i
    BY <2>3, PlaceOf
  <2>5. Place(from, b) = IF b = 97 THEN 1 ELSE 0
    BY <2>2, <2>4
  <2> QED BY <2>5 DEF Mapped, from
<1>2. Mapped(b, <<97>>, <<98>>) = IF b = 97 THEN 98 ELSE b
  <2> DEFINE from == <<97>>
  <2>1. from \in Seq(Nat) /\ Len(from) = 1 /\ from[1] = 97
    OBVIOUS
  <2> HIDE DEF from
  <2>2. Places(from, b) = IF b = 97 THEN {1} ELSE {}
    BY <2>1 DEF Places
  <2>3. from \in Seq(Nat)
    BY <2>1
  <2>4. /\ Places(from, b) = {} => Place(from, b) = 0
        /\ Places(from, b) # {} =>
             Place(from, b) \in Places(from, b) /\ \A i \in Places(from, b) : Place(from, b) <= i
    BY <2>3, PlaceOf
  <2>5. Place(from, b) = IF b = 97 THEN 1 ELSE 0
    BY <2>2, <2>4
  <2> QED BY <2>5 DEF Mapped, from
<1> QED BY <1>1, <1>2

\* A byte folded to lower case, to upper case, and all three of Maps.
Lower(b) == IF b \in 65 .. 90 THEN b + 32 ELSE b
Upper(b) == IF b \in 97 .. 122 THEN b - 32 ELSE b

LEMMA CaseFolds ==
  ASSUME NEW a \in Nat
  PROVE  Lower(Upper(Lower(a))) = Lower(a)
<1> DEFINE b == Lower(a)
           c == Upper(b)
<1>1. CASE a \in 65 .. 90
  <2>1. b = a + 32 /\ b \in 97 .. 122
    BY <1>1 DEF Lower
  <2>2. c = b - 32 /\ c = a
    BY <2>1 DEF Upper
  <2> QED BY <2>2
<1>2. CASE a \notin 65 .. 90
  <2>1. b = a
    BY <1>2 DEF Lower
  <2>2. c = IF a \in 97 .. 122 THEN a - 32 ELSE a
    BY <2>1 DEF Upper
  <2>3. CASE a \in 97 .. 122
    <3>1. c = a - 32 /\ c \in 65 .. 90
      BY <2>2, <2>3
    <3>2. Lower(c) = c + 32
      BY <3>1 DEF Lower
    <3> QED BY <2>1, <3>1, <3>2
  <2>4. CASE a \notin 97 .. 122
    BY <2>1, <2>2, <2>4
  <2> QED BY <2>3, <2>4
<1> QED BY <1>1, <1>2

\* Maps, of one text.
LEMMA MapsAll ==
  ASSUME NEW t \in Seq(Nat)
  PROVE  /\ sdsmapchars(sdsmapchars(t, <<97, 110>>, <<110, 97>>), <<97, 110>>, <<110, 97>>) = t
         /\ sdsmapchars(t, <<97, 97>>, <<98, 99>>) = sdsmapchars(t, <<97>>, <<98>>)
         /\ sdstolower(sdstoupper(sdstolower(t))) = sdstolower(t)
<1>1. Len(t) \in Nat /\ DOMAIN t = 1 .. Len(t) /\ \A i \in 1 .. Len(t) : t[i] \in Nat
  BY ElementOfSeq
<1>2. sdsmapchars(sdsmapchars(t, <<97, 110>>, <<110, 97>>), <<97, 110>>, <<110, 97>>) = t
  <2> DEFINE from == <<97, 110>>
             to   == <<110, 97>>
             y    == sdsmapchars(t, from, to)
             z    == sdsmapchars(y, from, to)
  <2>1. \A b \in Nat : Mapped(b, from, to) = IF b = 97 THEN 110 ELSE IF b = 110 THEN 97 ELSE b
    BY Swapped
  <2> HIDE DEF from, to
  <2>2. KeepsBytes(from, to)
    BY <2>1 DEF KeepsBytes
  <2>3. AllMapped(t, y, from, to)
    BY <2>2, MapIs
  <2>4. y \in Seq(Nat)
    BY <2>3 DEF AllMapped
  <2> HIDE DEF y
  <2>5. AllMapped(y, z, from, to)
    BY <2>2, <2>4, MapIs
  <2> HIDE DEF z
  <2>6. z \in Seq(Nat) /\ Len(z) = Len(t)
    BY <2>3, <2>5 DEF AllMapped
  <2>7. \A i \in 1 .. Len(t) : z[i] = t[i]
    <3> TAKE i \in 1 .. Len(t)
    <3>1. y[i] = Mapped(t[i], from, to) /\ z[i] = Mapped(y[i], from, to)
      BY <2>3, <2>5 DEF AllMapped
    <3>2. t[i] \in Nat
      BY <1>1
    <3>3. y[i] = IF t[i] = 97 THEN 110 ELSE IF t[i] = 110 THEN 97 ELSE t[i]
      BY <2>1, <3>1, <3>2
    <3>4. y[i] \in Nat
      BY <3>2, <3>3
    <3>5. z[i] = IF y[i] = 97 THEN 110 ELSE IF y[i] = 110 THEN 97 ELSE y[i]
      BY <2>1, <3>1, <3>4
    <3> QED BY <3>2, <3>3, <3>5
  <2>8. z = t
    BY <2>6, <2>7, SeqEqual
  <2> QED BY <2>8 DEF z, y, from, to
<1>3. sdsmapchars(t, <<97, 97>>, <<98, 99>>) = sdsmapchars(t, <<97>>, <<98>>)
  <2> DEFINE two   == <<97, 97>>
             first == <<98, 99>>
             one   == <<97>>
             only  == <<98>>
             u     == sdsmapchars(t, two, first)
             v     == sdsmapchars(t, one, only)
  <2>1. \A b \in Nat : /\ Mapped(b, two, first) = IF b = 97 THEN 98 ELSE b
                       /\ Mapped(b, one, only) = IF b = 97 THEN 98 ELSE b
    BY FirstWins
  <2> HIDE DEF two, first, one, only
  <2>2. KeepsBytes(two, first) /\ KeepsBytes(one, only)
    BY <2>1 DEF KeepsBytes
  <2>3. AllMapped(t, u, two, first)
    BY <2>2, MapIs
  <2>4. AllMapped(t, v, one, only)
    BY <2>2, MapIs
  <2> HIDE DEF u, v
  <2>5. \A i \in 1 .. Len(t) : u[i] = v[i]
    BY <1>1, <2>1, <2>3, <2>4, SMTT(30) DEF AllMapped
  <2>6. u \in Seq(Nat) /\ v \in Seq(Nat) /\ Len(u) = Len(t) /\ Len(v) = Len(t)
    BY <2>3, <2>4 DEF AllMapped
  <2>7. u = v
    BY <2>5, <2>6, SeqEqual
  <2> QED BY <2>7 DEF u, v, two, first, one, only
<1>4. sdstolower(sdstoupper(sdstolower(t))) = sdstolower(t)
  <2> DEFINE l == sdstolower(t)
             u == sdstoupper(l)
             m == sdstolower(u)
  <2>1. /\ l \in [1 .. Len(t) -> Nat]
        /\ \A i \in 1 .. Len(t) : l[i] = IF t[i] \in 65 .. 90 THEN t[i] + 32 ELSE t[i]
    BY <1>1 DEF sdstolower
  <2> HIDE DEF l
  <2>2. l \in Seq(Nat) /\ Len(l) = Len(t)
    BY <2>1, ByteByByte
  <2>2a. DOMAIN l = 1 .. Len(t)
    BY <2>1
  <2>2b. \A i \in 1 .. Len(t) : l[i] \in Nat
    BY <2>1
  <2>3. /\ u \in [1 .. Len(t) -> Nat]
        /\ \A i \in 1 .. Len(t) : u[i] = IF l[i] \in 97 .. 122 THEN l[i] - 32 ELSE l[i]
    <3>1. u = [i \in 1 .. Len(t) |-> IF l[i] \in 97 .. 122 THEN l[i] - 32 ELSE l[i]]
      BY <2>2a DEF sdstoupper
    <3>2. \A c \in Nat : (IF c \in 97 .. 122 THEN c - 32 ELSE c) \in Nat
      OBVIOUS
    <3>3. \A i \in 1 .. Len(t) : (IF l[i] \in 97 .. 122 THEN l[i] - 32 ELSE l[i]) \in Nat
      BY <2>2b, <3>2
    <3> HIDE DEF u
    <3> QED BY <3>1, <3>3
  <2> HIDE DEF u
  <2>3a. DOMAIN u = 1 .. Len(t) /\ \A i \in 1 .. Len(t) : u[i] \in Nat
    BY <2>3
  <2>4. /\ m \in [1 .. Len(t) -> Nat]
        /\ \A i \in 1 .. Len(t) : m[i] = IF u[i] \in 65 .. 90 THEN u[i] + 32 ELSE u[i]
    BY <2>3a DEF sdstolower
  <2> HIDE DEF m
  <2>5. m \in Seq(Nat) /\ Len(m) = Len(t)
    BY <2>4, ByteByByte
  <2>6. \A i \in 1 .. Len(t) : m[i] = l[i]
    <3> TAKE i \in 1 .. Len(t)
    <3>1. t[i] \in Nat
      BY <1>1
    <3>2. l[i] = Lower(t[i])
      BY <2>1 DEF Lower
    <3>3. u[i] = Upper(l[i])
      BY <2>3 DEF Upper
    <3>4. m[i] = Lower(u[i])
      BY <2>4 DEF Lower
    <3> QED BY <3>1, <3>2, <3>3, <3>4, CaseFolds
  <2>7. m = l
    BY <2>2, <2>5, <2>6, SeqEqual
  <2> QED BY <2>7 DEF l, u, m
<1> QED BY <1>2, <1>3, <1>4

\* Every number printed reads back, the order of the texts is lexicographic and
\* their bytes are mapped all at once (sds.c:450-520, 782-817, 1083-1104).
THEOREM TextsMean == Spec => []TextMeaning
<1>1. NumbersReadBack
  BY NumbersAreRead
<1>2. Argument \subseteq Seq(Nat) /\ Argument \subseteq Seq(Int)
  <2> SUFFICES ASSUME NEW t \in Argument PROVE t \in Seq(Nat) /\ t \in Seq(Int)
    OBVIOUS
  <2>1. t \in Seq(0 .. 255)
    BY TextAssumption
  <2> DEFINE Bytes == 0 .. 255
  <2>2. Bytes \subseteq Nat /\ Bytes \subseteq Int /\ t \in Seq(Bytes)
    BY <2>1
  <2> HIDE DEF Bytes
  <2>3. t \in Seq(Nat)
    BY ONLY <2>2, SeqOfMore
  <2>4. t \in Seq(Int)
    BY ONLY <2>2, SeqOfMore
  <2> QED BY <2>3, <2>4
<1>3. Orders
  BY <1>2, OrdersAll DEF Orders
<1>4. Maps
  BY <1>2, MapsAll DEF Maps
<1>5. TextMeaning
  BY <1>1, <1>3, <1>4 DEF TextMeaning
<1> QED BY <1>5, PTL

-----------------------------------------------------------------------------
(* Splitting and joining. *)

\* The separator begins nowhere in u.
Without(u, sep) == \A j \in 0 .. Len(u) - Len(sep) : SubSeq(u, j + 1, j + Len(sep)) # sep

\* Nor does it in a part of a text when it begins nowhere there.
LEMMA PartWithout ==
  ASSUME NEW S, NEW t \in Seq(S), NEW sep, Len(sep) \in Nat \ {0},
         NEW a \in 0 .. Len(t), NEW b \in a .. Len(t),
         \A k \in a .. b - Len(sep) : SubSeq(t, k + 1, k + Len(sep)) # sep
  PROVE  SubSeq(t, a + 1, b) \in Seq(S) /\ Without(SubSeq(t, a + 1, b), sep)
<1> DEFINE u == SubSeq(t, a + 1, b)
           w == Len(sep)
<1>1. Len(t) \in Nat /\ w \in Nat /\ w >= 1
  OBVIOUS
<1> HIDE DEF w
<1>2. u \in Seq(S) /\ Len(u) = b - a
  <2>1. a + 1 \in 1 .. Len(t) + 1 /\ b \in (a + 1) - 1 .. Len(t)
    BY <1>1
  <2> QED BY <1>1, <2>1, SubSeqProperties
<1>3. ASSUME NEW j \in 0 .. Len(u) - w PROVE SubSeq(u, j + 1, j + w) # sep
  <2>1. /\ a + 1 \in 1 .. Len(t) /\ b \in 1 .. Len(t)
        /\ j + 1 \in 1 .. b - (a + 1) + 1 /\ j + w \in 1 .. b - (a + 1) + 1
        /\ (a + 1) + (j + 1) - 1 = (a + j) + 1 /\ (a + 1) + (j + w) - 1 = (a + j) + w
        /\ a + j \in a .. b - w
    BY <1>1, <1>2
  <2>2. SubSeq(u, j + 1, j + w) = SubSeq(t, (a + 1) + (j + 1) - 1, (a + 1) + (j + w) - 1)
    <3> DEFINE p == a + 1
               k == j + 1
               n == j + w
    <3>1. p \in 1 .. Len(t) /\ b \in 1 .. Len(t) /\ k \in 1 .. b - p + 1 /\ n \in 1 .. b - p + 1
      BY <2>1
    <3> HIDE DEF p, k, n
    <3>2. SubSeq(SubSeq(t, p, b), k, n) = SubSeq(t, p + k - 1, p + n - 1)
      BY <3>1, SubSeqOfSubSeq
    <3> QED BY <3>2 DEF p, k, n
  <2>3. SubSeq(t, (a + j) + 1, (a + j) + w) # sep
    BY <2>1 DEF w
  <2> HIDE DEF u
  <2> QED BY <2>1, <2>2, <2>3
<1> QED BY <1>2, <1>3 DEF w, Without

\* Where the loop of sdssplitlen can be, and what it has found: tokens without the
\* separator, one behind every token, up to the token it is in, in which no
\* separator begins, and room for one more token.
SplitState(S, t) == [j : 0 .. Len(t), start : 0 .. Len(t), tokens : Seq(Seq(S)), slots : Nat]

Found(t, sep, tokens, at) ==
  /\ at \in [0 .. Len(tokens) -> 0 .. Len(t)] /\ at[0] = 0
  /\ \A i \in 1 .. Len(tokens) :
       /\ at[i - 1] + Len(sep) <= at[i]
       /\ tokens[i] = SubSeq(t, at[i - 1] + 1, at[i] - Len(sep))
       /\ SubSeq(t, at[i] - Len(sep) + 1, at[i]) = sep
       /\ Without(tokens[i], sep)

Splits(t, sep, w) ==
  /\ w.start <= w.j /\ Len(w.tokens) + 1 <= w.slots
  /\ \A k \in w.start .. w.j - 1 : SubSeq(t, k + 1, k + Len(sep)) # sep
  /\ \E at : Found(t, sep, w.tokens, at) /\ at[Len(w.tokens)] = w.start

Done(t, sep, w) == w.j >= Len(t) - (Len(sep) - 1)

\* One more token, closed by a separator at j.
LEMMA FoundMore ==
  ASSUME NEW S, NEW t \in Seq(S), NEW sep \in Seq(S), sep # <<>>,
         NEW tokens \in Seq(Seq(S)), NEW at, Found(t, sep, tokens, at),
         NEW j \in Nat, at[Len(tokens)] <= j, j + Len(sep) <= Len(t),
         SubSeq(t, j + 1, j + Len(sep)) = sep,
         SubSeq(t, at[Len(tokens)] + 1, j) \in Seq(S),
         Without(SubSeq(t, at[Len(tokens)] + 1, j), sep)
  PROVE  \E to : /\ Found(t, sep, Append(tokens, SubSeq(t, at[Len(tokens)] + 1, j)), to)
                 /\ to[Len(tokens) + 1] = j + Len(sep)
<1> DEFINE m    == Len(tokens)
           L    == Len(t)
           n    == Len(sep)
           u    == SubSeq(t, at[m] + 1, j)
           more == Append(tokens, u)
           to   == [i \in 0 .. m + 1 |-> IF i = m + 1 THEN j + n ELSE at[i]]
<1>1. m \in Nat /\ L \in Nat /\ n \in Nat /\ n >= 1
  OBVIOUS
<1>2. /\ at \in [0 .. m -> 0 .. L] /\ at[0] = 0
      /\ \A i \in 1 .. m :
           /\ at[i - 1] + n <= at[i]
           /\ tokens[i] = SubSeq(t, at[i - 1] + 1, at[i] - n)
           /\ SubSeq(t, at[i] - n + 1, at[i]) = sep
           /\ Without(tokens[i], sep)
  BY DEF Found
<1>3. at[m] \in 0 .. L /\ at[m] <= j /\ j + n <= L
  <2>1. m \in 0 .. m
    BY <1>1
  <2>2. at[m] \in 0 .. L
    <3> HIDE DEF m, L
    <3> QED BY <1>2, <2>1
  <2> QED BY <2>2
<1>4. /\ Len(more) = m + 1 /\ more[m + 1] = u
      /\ \A i \in 1 .. m : more[i] = tokens[i]
  <2>1. u \in Seq(S)
    OBVIOUS
  <2> HIDE DEF u
  <2> QED BY <2>1, AppendProperties
<1>5. SubSeq(t, j + 1, j + n) = sep /\ Without(u, sep)
  OBVIOUS
<1> HIDE DEF m, L, n, u, more
<1>6. /\ to \in [0 .. m + 1 -> 0 .. L] /\ to[m + 1] = j + n
      /\ \A i \in 0 .. m : to[i] = at[i]
  <2>1. j + n \in 0 .. L
    BY <1>1, <1>3
  <2>2. \A i \in 0 .. m + 1 : i = m + 1 \/ i \in 0 .. m
    BY <1>1
  <2>3. \A i \in 0 .. m : at[i] \in 0 .. L /\ i \in 0 .. m + 1 /\ i # m + 1
    BY <1>1, <1>2
  <2>4. m + 1 \in 0 .. m + 1
    BY <1>1
  <2> QED BY <2>1, <2>2, <2>3, <2>4
<1> HIDE DEF to
<1>7. ASSUME NEW i \in 1 .. m + 1
      PROVE  /\ to[i - 1] + n <= to[i]
             /\ more[i] = SubSeq(t, to[i - 1] + 1, to[i] - n)
             /\ SubSeq(t, to[i] - n + 1, to[i]) = sep
             /\ Without(more[i], sep)
  <2>1. CASE i = m + 1
    <3>1. i - 1 = m /\ m \in 0 .. m
      BY <1>1, <2>1
    <3>2. to[i - 1] = at[m] /\ to[i] = j + n
      BY <1>6, <2>1, <3>1
    <3>3. to[i] - n = j /\ to[i - 1] + n <= to[i]
      BY <1>1, <1>3, <3>2
    <3>4. more[i] = u /\ u = SubSeq(t, to[i - 1] + 1, to[i] - n)
      BY <1>4, <2>1, <3>2, <3>3 DEF u
    <3> QED BY <1>5, <3>2, <3>3, <3>4
  <2>2. CASE i # m + 1
    <3>1. i \in 1 .. m /\ i \in 0 .. m /\ i - 1 \in 0 .. m
      BY <1>1, <2>2
    <3> QED BY <1>2, <1>4, <1>6, <3>1
  <2> QED BY <2>1, <2>2
<1>8. to[0] = 0
  BY <1>1, <1>2, <1>6
<1>9. Found(t, sep, more, to)
  BY <1>4, <1>6, <1>7, <1>8 DEF Found, L, n
<1> QED BY <1>6, <1>9 DEF more, u, m, n

LEMMA TurnSplits ==
  ASSUME NEW S, NEW t \in Seq(S), NEW sep \in Seq(S), sep # <<>>,
         NEW w \in SplitState(S, t), Splits(t, sep, w)
  PROVE  /\ SplitTurn(t, sep, w) \in SplitState(S, t)
         /\ Splits(t, sep, SplitTurn(t, sep, w))
         /\ SplitTurn(t, sep, w).j > w.j \/ Done(t, sep, SplitTurn(t, sep, w))
<1> DEFINE v    == SplitTurn(t, sep, w)
           room == IF w.slots < Len(w.tokens) + 2 THEN 2 * w.slots ELSE w.slots
           L    == Len(t)
           n    == Len(sep)
           m    == Len(w.tokens)
           u    == SubSeq(t, w.start + 1, w.j)
           more == Append(w.tokens, u)
<1>1. /\ L \in Nat /\ n \in Nat /\ n >= 1 /\ m \in Nat
      /\ w.j \in 0 .. L /\ w.start \in 0 .. L /\ w.slots \in Nat /\ w.tokens \in Seq(Seq(S))
  BY DEF SplitState
<1>2. /\ w.start <= w.j /\ m + 1 <= w.slots
      /\ \A k \in w.start .. w.j - 1 : SubSeq(t, k + 1, k + n) # sep
      /\ \E at : Found(t, sep, w.tokens, at) /\ at[m] = w.start
  BY DEF Splits
<1>3. room \in Nat /\ m + 2 <= room
  <2> HIDE DEF m
  <2> QED BY <1>1, <1>2 DEF m
<1>4. CASE w.j >= L - (n - 1)
  <2>1. v = w
    BY <1>4 DEF SplitTurn
  <2>2. Done(t, sep, w)
    BY <1>4 DEF Done
  <2> HIDE DEF v
  <2> QED BY <2>1, <2>2 DEF v
<1>5. CASE ~(w.j >= L - (n - 1)) /\ SubSeq(t, w.j + 1, w.j + n) = sep
  <2> DEFINE r == [j |-> w.j + n, start |-> w.j + n, tokens |-> more, slots |-> room]
  <2>1. v = r
    BY <1>5 DEF SplitTurn, Behind
  <2>2. w.j + n \in 0 .. L
    BY <1>1, <1>5
  <2>3. u \in Seq(S) /\ Without(u, sep)
    <3>1. w.start \in 0 .. Len(t) /\ w.j \in w.start .. Len(t) /\ Len(sep) \in Nat \ {0}
      BY <1>1, <1>2
    <3>2. \A k \in w.start .. w.j - Len(sep) : SubSeq(t, k + 1, k + Len(sep)) # sep
      <4>1. \A k \in w.start .. w.j - n : k \in w.start .. w.j - 1
        BY <1>1
      <4> QED BY <1>2, <4>1
    <3> QED BY <3>1, <3>2, PartWithout
  <2>4. more \in Seq(Seq(S)) /\ Len(more) = m + 1
    BY <1>1, <2>3
  <2>5. PICK at : Found(t, sep, w.tokens, at) /\ at[m] = w.start
    BY <1>2
  <2>6. \E to : Found(t, sep, more, to) /\ to[m + 1] = w.j + n
    <3> DEFINE tokens == w.tokens
               j      == w.j
    <3>1. /\ tokens \in Seq(Seq(S)) /\ Found(t, sep, tokens, at)
          /\ j \in Nat /\ at[Len(tokens)] <= j /\ j + Len(sep) <= Len(t)
          /\ SubSeq(t, j + 1, j + Len(sep)) = sep
          /\ SubSeq(t, at[Len(tokens)] + 1, j) \in Seq(S)
          /\ Without(SubSeq(t, at[Len(tokens)] + 1, j), sep)
      BY <1>1, <1>2, <1>5, <2>2, <2>3, <2>5
    <3> HIDE DEF tokens, j
    <3>2. \E to : /\ Found(t, sep, Append(tokens, SubSeq(t, at[Len(tokens)] + 1, j)), to)
                  /\ to[Len(tokens) + 1] = j + Len(sep)
      BY <3>1, FoundMore
    <3> QED BY <2>5, <3>2 DEF tokens, j
  <2> HIDE DEF v, room, more, u, m, n, L
  <2>7. r \in SplitState(S, t)
    BY <1>3, <2>2, <2>4 DEF SplitState, L
  <2>8. Splits(t, sep, r)
    <3>1. r.start <= r.j /\ Len(r.tokens) + 1 <= r.slots
      BY <1>1, <1>3, <2>2, <2>4
    <3>2. r.start .. r.j - 1 = {}
      BY <2>2
    <3>3. \E to : Found(t, sep, r.tokens, to) /\ to[Len(r.tokens)] = r.start
      BY <2>4, <2>6
    <3> HIDE DEF r
    <3> QED BY <3>1, <3>2, <3>3 DEF Splits
  <2>9. r.j > w.j
    BY <1>1
  <2> HIDE DEF r
  <2> QED BY <2>1, <2>7, <2>8, <2>9 DEF v
<1>6. CASE ~(w.j >= L - (n - 1)) /\ ~(SubSeq(t, w.j + 1, w.j + n) = sep)
  <2> DEFINE r == [w EXCEPT !.j = @ + 1, !.slots = room]
  <2>1. v = r
    BY <1>6 DEF SplitTurn
  <2>2. w.j + 1 \in 0 .. L
    BY <1>1, <1>6, SMTT(30)
  <2> HIDE DEF v, room, n, L
  <2>3. /\ r \in SplitState(S, t) /\ r.j = w.j + 1 /\ r.start = w.start /\ r.slots = room
        /\ r.tokens = w.tokens
    BY <1>3, <2>2 DEF SplitState, L
  <2> HIDE DEF r
  <2>4. r.start <= r.j /\ Len(r.tokens) + 1 <= r.slots
    BY <1>1, <1>2, <1>3, <2>3
  <2>5. \A k \in r.start .. r.j - 1 : SubSeq(t, k + 1, k + n) # sep
    <3> SUFFICES ASSUME NEW k \in w.start .. w.j PROVE SubSeq(t, k + 1, k + n) # sep
      BY <1>1, <2>3
    <3>1. k = w.j \/ k \in w.start .. w.j - 1
      BY <1>1
    <3> QED BY <1>2, <1>6, <3>1
  <2>6. Splits(t, sep, r)
    BY <1>2, <2>3, <2>4, <2>5 DEF Splits, n, m
  <2>7. r.j > w.j
    BY <1>1, <2>3
  <2> QED BY <2>1, <2>3, <2>6, <2>7 DEF v
<1> QED BY <1>4, <1>5, <1>6

\* The loop of sdssplitlen.
SplitTurns(t, sep) ==
  LET turns[n \in 0 .. Len(t)] ==
        IF n = 0 THEN [j |-> 0, start |-> 0, tokens |-> <<>>, slots |-> FirstSlots]
        ELSE SplitTurn(t, sep, turns[n - 1])
  IN  turns

LEMMA SplitLenIs ==
  ASSUME NEW t, NEW sep, t # <<>>, sep # <<>>
  PROVE  LET last == SplitTurns(t, sep)[Len(t)]
         IN  sdssplitlen(t, sep)
               = {[tokens |-> Append(last.tokens, SubSeq(t, last.start + 1, Len(t))),
                   slots |-> last.slots]}
BY DEF sdssplitlen, SplitTurns

\* It stops within as many turns as the text has bytes.
LEMMA LoopSplits ==
  ASSUME NEW S, NEW t \in Seq(S), NEW sep \in Seq(S), t # <<>>, sep # <<>>
  PROVE  LET last == SplitTurns(t, sep)[Len(t)]
         IN  last \in SplitState(S, t) /\ Splits(t, sep, last) /\ Done(t, sep, last)
<1> DEFINE L     == Len(t)
           first == [j |-> 0, start |-> 0, tokens |-> <<>>, slots |-> FirstSlots]
           turns == SplitTurns(t, sep)
           H(n)  == {w \in SplitState(S, t) : Splits(t, sep, w) /\ (w.j >= n \/ Done(t, sep, w))}
           R     == [n \in 0 .. L |-> H(n)]
           G     == [n \in 1 .. L |-> [w \in SplitState(S, t) |-> SplitTurn(t, sep, w)]]
<1>1. L \in Nat /\ Len(sep) \in Nat /\ Len(sep) >= 1
  OBVIOUS
<1>2. first \in H(0)
  <2>1. FirstSlots \in Nat /\ FirstSlots >= 1 /\ <<>> \in Seq(Seq(S)) /\ Len(<<>>) = 0
    BY TextAssumption
  <2>2. first \in SplitState(S, t)
    BY <1>1, <2>1 DEF SplitState
  <2> DEFINE at == [i \in 0 .. 0 |-> 0]
  <2>3. Found(t, sep, <<>>, at) /\ at[0] = 0
    <3>1. at \in [0 .. 0 -> 0 .. Len(t)] /\ at[0] = 0 /\ 1 .. 0 = {}
      BY <1>1
    <3> HIDE DEF at
    <3> QED BY <2>1, <3>1 DEF Found
  <2> HIDE DEF at
  <2>4. /\ first.start <= first.j /\ Len(first.tokens) + 1 <= first.slots
        /\ first.start .. first.j - 1 = {} /\ first.j = 0
        /\ first.tokens = <<>> /\ first.start = 0
    BY <2>1
  <2> HIDE DEF first
  <2>5. Splits(t, sep, first)
    BY <2>1, <2>3, <2>4 DEF Splits
  <2> QED BY <2>2, <2>4, <2>5
<1>3. ASSUME NEW n \in 1 .. L, NEW w \in H(n - 1)
      PROVE  SplitTurn(t, sep, w) \in H(n) /\ w \in SplitState(S, t)
  <2> DEFINE v == SplitTurn(t, sep, w)
  <2>1. w \in SplitState(S, t) /\ Splits(t, sep, w) /\ (w.j >= n - 1 \/ Done(t, sep, w))
    OBVIOUS
  <2>2. v \in SplitState(S, t) /\ Splits(t, sep, v) /\ (v.j > w.j \/ Done(t, sep, v))
    BY <2>1, TurnSplits
  <2>3. Done(t, sep, w) => v = w
    BY DEF Done, SplitTurn
  <2>4. v.j \in Nat /\ w.j \in Nat
    <3> HIDE DEF v
    <3> QED BY <1>1, <2>1, <2>2 DEF SplitState
  <2> HIDE DEF v
  <2>5. v.j >= n \/ Done(t, sep, v)
    BY <2>1, <2>2, <2>3, <2>4
  <2> QED BY <2>1, <2>2, <2>5 DEF v
<1>4. \A n \in 0 .. L : R[n] = H(n)
  OBVIOUS
<1>5. \A n \in 1 .. L : \A w \in SplitState(S, t) : G[n][w] = SplitTurn(t, sep, w)
  OBVIOUS
<1>6. \A n \in 1 .. L : n - 1 \in 0 .. L /\ n \in 0 .. L
  BY <1>1
<1> HIDE DEF R, G, H, first, L
<1>7. first \in R[0] /\ \A n \in 1 .. L : \A w \in R[n - 1] : G[n][w] \in R[n]
  <2>1. 0 \in 0 .. L
    BY <1>1
  <2> QED BY <1>2, <1>3, <1>4, <1>5, <1>6, <2>1
<1>8. PICK f : Runs(f, L, first, G, R)
  BY <1>1, <1>7, Recursion
<1>9. /\ f = [n \in 0 .. L |-> f[n]] /\ f[0] = first
      /\ \A n \in 1 .. L : f[n] = SplitTurn(t, sep, f[n - 1])
      /\ \A n \in 0 .. L : f[n] \in R[n]
  BY <1>3, <1>4, <1>5, <1>6, <1>8 DEF Runs
<1>10. f = [n \in 0 .. L |-> IF n = 0 THEN first ELSE SplitTurn(t, sep, f[n - 1])]
  <2>1. \A n \in 0 .. L : n = 0 \/ n \in 1 .. L
    BY <1>1
  <2> QED BY <1>9, <2>1
<1>11. turns = [n \in 0 .. L |-> IF n = 0 THEN first ELSE SplitTurn(t, sep, turns[n - 1])]
  BY <1>10 DEF SplitTurns, first, L
<1> HIDE DEF turns
<1>12. turns[0] = f[0] /\ \A n \in 1 .. L : turns[n - 1] = f[n - 1] => turns[n] = f[n]
  <2>1. 0 \in 0 .. L /\ \A n \in 1 .. L : n \in 0 .. L /\ n # 0
    BY <1>1
  <2> QED BY <1>9, <1>11, <2>1
<1>13. turns[L] \in H(L)
  <2>1. Alike(turns, f, L)
    BY <1>1, <1>12, Agree
  <2>2. L \in 0 .. L
    BY <1>1
  <2> QED BY <1>4, <1>9, <2>1, <2>2 DEF Alike
<1>14. \A w \in SplitState(S, t) : w.j \in 0 .. L
  BY DEF SplitState, L
<1>15. \A w \in H(L) : w \in SplitState(S, t) /\ Splits(t, sep, w) /\ Done(t, sep, w)
  BY <1>1, <1>14 DEF H, Done, L
<1> QED BY <1>13, <1>15 DEF turns, L

\* What sdssplitlen returns, for one text and one separator.
LEMMA SplitParts ==
  ASSUME NEW S, NEW t \in Seq(S), NEW sep \in Seq(S), NEW r \in sdssplitlen(t, sep)
  PROVE  Parts(t, sep, r)
<1> DEFINE last   == SplitTurns(t, sep)[Len(t)]
           m      == Len(last.tokens)
           u      == SubSeq(t, last.start + 1, Len(t))
           tokens == Append(last.tokens, u)
<1>1. t # <<>> /\ sep # <<>>
  BY DEF sdssplitlen
<1>2. last \in SplitState(S, t) /\ Splits(t, sep, last) /\ Done(t, sep, last)
  BY <1>1, LoopSplits
<1>3. r = [tokens |-> tokens, slots |-> last.slots]
  BY <1>1, SplitLenIs
<1> HIDE DEF last
<1>4. /\ Len(t) \in Nat /\ Len(sep) \in Nat /\ Len(sep) >= 1 /\ m \in Nat
      /\ last.j \in 0 .. Len(t) /\ last.start \in 0 .. Len(t) /\ last.tokens \in Seq(Seq(S))
      /\ last.start <= last.j /\ m + 1 <= last.slots /\ last.j >= Len(t) - (Len(sep) - 1)
  BY <1>1, <1>2 DEF SplitState, Splits, Done
<1>5. u \in Seq(S) /\ Without(u, sep)
  <2>1. /\ last.start \in 0 .. Len(t) /\ Len(t) \in last.start .. Len(t) /\ Len(sep) \in Nat \ {0}
    BY <1>4
  <2>2. \A k \in last.start .. Len(t) - Len(sep) : SubSeq(t, k + 1, k + Len(sep)) # sep
    <3>1. \A k \in last.start .. Len(t) - Len(sep) : k \in last.start .. last.j - 1
      BY <1>4
    <3> QED BY <1>2, <3>1 DEF Splits
  <2> QED BY <2>1, <2>2, PartWithout
<1>6. PICK at : Found(t, sep, last.tokens, at) /\ at[m] = last.start
  BY <1>2 DEF Splits
<1> HIDE DEF u, m
<1>7. /\ tokens \in Seq(Seq(S)) /\ Len(tokens) = m + 1 /\ tokens[m + 1] = u
      /\ \A i \in 1 .. m : tokens[i] = last.tokens[i]
  BY <1>4, <1>5, AppendProperties DEF m
<1> HIDE DEF tokens
<1>8. /\ at \in [0 .. m -> 0 .. Len(t)] /\ at[0] = 0 /\ at[m] = last.start
      /\ \A i \in 1 .. m : /\ at[i - 1] + Len(sep) <= at[i]
                           /\ tokens[i] = SubSeq(t, at[i - 1] + 1, at[i] - Len(sep))
                           /\ SubSeq(t, at[i] - Len(sep) + 1, at[i]) = sep
                           /\ Without(tokens[i], sep)
  BY <1>6, <1>7 DEF Found, m
<1>9. \A i \in 1 .. m + 1 : Without(tokens[i], sep)
  <2>1. \A i \in 1 .. m + 1 : i = m + 1 \/ i \in 1 .. m
    BY <1>4
  <2> QED BY <1>5, <1>7, <1>8, <2>1
<1> DEFINE seqs == [i \in DOMAIN tokens |-> IF i = Len(tokens) THEN tokens[i] ELSE tokens[i] \o sep]
           to   == [i \in 0 .. m + 1 |-> IF i = m + 1 THEN Len(t) ELSE at[i]]
<1>10. /\ seqs \in Seq(Seq(S)) /\ Len(seqs) = m + 1 /\ seqs[m + 1] = u
       /\ \A i \in 1 .. m : seqs[i] = tokens[i] \o sep
  <2>1. \A i \in 1 .. m + 1 : tokens[i] \in Seq(S)
    <3> HIDE DEF seqs
    <3> QED BY <1>7, ElementOfSeq
  <2>2. \A i \in 1 .. m + 1 : tokens[i] \o sep \in Seq(S)
    <3> HIDE DEF seqs
    <3> QED BY <2>1, ConcatProperties
  <2>3. DOMAIN tokens = 1 .. m + 1
    BY <1>7
  <2>4. seqs = [i \in 1 .. m + 1 |-> IF i = m + 1 THEN tokens[i] ELSE tokens[i] \o sep]
    BY <1>7, <2>3
  <2> HIDE DEF seqs
  <2>5. /\ seqs \in [1 .. m + 1 -> Seq(S)] /\ seqs[m + 1] = tokens[m + 1]
        /\ \A i \in 1 .. m : seqs[i] = tokens[i] \o sep
    <3>1. \A i \in 1 .. m : i \in 1 .. m + 1 /\ i # m + 1
      BY <1>4
    <3>2. m + 1 \in 1 .. m + 1
      BY <1>4
    <3> QED BY <2>1, <2>2, <2>4, <3>1, <3>2
  <2>6. seqs \in Seq(Seq(S)) /\ Len(seqs) = m + 1
    BY <1>4, <2>5
  <2> QED BY <1>7, <2>5, <2>6
<1>11. /\ to \in [0 .. m + 1 -> 0 .. Len(t)] /\ to[m + 1] = Len(t)
       /\ \A i \in 0 .. m : to[i] = at[i]
  <2>1. \A i \in 0 .. m + 1 : i = m + 1 \/ i \in 0 .. m
    BY <1>4
  <2>2. \A i \in 0 .. m : i \in 0 .. m + 1 /\ i # m + 1
    BY <1>4
  <2>3. m + 1 \in 0 .. m + 1 /\ Len(t) \in 0 .. Len(t)
    BY <1>4
  <2> QED BY <1>8, <2>1, <2>2, <2>3
<1> DEFINE joined == sdsjoinsds(tokens, sep)
<1>11a. joined = FlattenSeq(seqs)
  BY DEF sdsjoinsds, Joined
<1> HIDE DEF seqs, to, joined
<1>12. ASSUME NEW i \in 1 .. m + 1
       PROVE  to[i - 1] <= to[i] /\ seqs[i] = SubSeq(t, to[i - 1] + 1, to[i])
  <2>1. CASE i = m + 1
    <3>1. i - 1 = m /\ m \in 0 .. m
      BY <1>4, <2>1
    <3>2. to[i - 1] = last.start /\ to[i] = Len(t)
      BY <1>8, <1>11, <2>1, <3>1
    <3> QED BY <1>4, <1>10, <2>1, <3>2 DEF u
  <2>2. CASE i # m + 1
    <3>1. i \in 1 .. m /\ i \in 0 .. m /\ i - 1 \in 0 .. m
      BY <1>4, <2>2
    <3> DEFINE a == at[i - 1]
               b == at[i] - Len(sep)
               c == at[i]
    <3>2. to[i - 1] = a /\ to[i] = c /\ seqs[i] = tokens[i] \o sep
      BY <1>10, <1>11, <3>1
    <3>3. /\ a \in 0 .. Len(t) /\ c \in 0 .. Len(t) /\ a + Len(sep) <= c
          /\ tokens[i] = SubSeq(t, a + 1, b) /\ sep = SubSeq(t, b + 1, c)
      BY <1>8, <3>1
    <3>4. b \in a .. Len(t) /\ c \in b .. Len(t) /\ a + 1 \in 1 .. Len(t) + 1
          /\ b \in (a + 1) - 1 .. Len(t) /\ a <= c
      <4>1. b = c - Len(sep)
        OBVIOUS
      <4> HIDE DEF a, b, c
      <4> QED BY <1>4, <3>3, <4>1
    <3> HIDE DEF a, b, c
    <3>5. SubSeq(t, a + 1, b) \o SubSeq(t, b + 1, c) = SubSeq(t, a + 1, c)
      BY <3>4, ConcatAdjacentSubSeq
    <3> QED BY <3>2, <3>3, <3>4, <3>5
  <2> QED BY <2>1, <2>2
<1>13. joined = t
  <2>1. to[0] = 0
    BY <1>4, <1>8, <1>11
  <2>2. CutsInto(t, seqs, to)
    BY <1>10, <1>11, <1>12, <2>1 DEF CutsInto
  <2>3. seqs # <<>>
    BY <1>4, <1>10
  <2>4. FlattenSeq(seqs) = SubSeq(t, 1, to[Len(seqs)])
    BY <1>10, <2>2, <2>3, PiecesJoin
  <2>5. SubSeq(t, 1, Len(t)) = t
    BY SubSeqFull
  <2> QED BY <1>10, <1>11, <1>11a, <2>4, <2>5
<1>14. DOMAIN tokens = 1 .. m + 1 /\ r.tokens = tokens /\ r.slots = last.slots
  BY <1>3, <1>7
<1> QED BY <1>4, <1>7, <1>9, <1>13, <1>14 DEF Parts, Without, joined

\* A text of any bytes is split at every separator, no byte of it is lost, and
\* the array has room for each token, for texts and separators of any length
\* and whatever the string holds (sds.c:828-880).
THEOREM TextsSplit == Spec => []SplitsApart
<1>1. Splittable \subseteq Seq(0 .. 255) /\ Separator \subseteq Seq(0 .. 255)
  BY TextAssumption
<1>2. SplitsWhole
  BY <1>1, SplitParts DEF SplitsWhole
<1>3. SdsInv => SplitsApart
  <2> SUFFICES ASSUME SdsInv, NEW sep \in Separator, NEW r \in sdssplitlen(Value(s), sep)
               PROVE  Parts(Value(s), sep, r)
    BY <1>2 DEF SplitsApart
  <2> DEFINE v == Value(s)
             T == 0 .. 255
  <2>1. v \in Seq(Byte) /\ Byte \subseteq T
    BY TextAssumption, ValueIsText DEF SdsInv
  <2> HIDE DEF v, T
  <2>2. v \in Seq(T)
    BY <2>1, SeqOfMore
  <2> USE DEF v, T
  <2> QED BY <1>1, <2>2, SplitParts
<1> QED BY <1>3, SdsInvariance, PTL

-----------------------------------------------------------------------------
(* Quoting and reading. *)

\* The bytes with a letter of their own.
LEMMA Letters ==
  /\ DOMAIN Letter = {7, 8, 9, 10, 13}
  /\ Letter[10] = 110 /\ Letter[13] = 114 /\ Letter[9] = 116 /\ Letter[7] = 97 /\ Letter[8] = 98
BY DEF Letter

LEMMA Unescapes ==
  /\ \A b \in DOMAIN Letter : Unescaped(Letter[b]) = b
  /\ \A c \in 0 .. 255 : c \notin {97, 98, 110, 114, 116} => Unescaped(c) = c
  /\ \A c \in 0 .. 255 : Unescaped(c) \in 0 .. 255
<1>1. \A b, d \in DOMAIN Letter : Letter[b] = Letter[d] => b = d
  BY Letters
<1>2. ASSUME NEW b \in DOMAIN Letter PROVE Unescaped(Letter[b]) = b
  <2> DEFINE c == Letter[b]
  <2>1. \A d \in DOMAIN Letter : Letter[d] = c => d = b
    BY <1>1
  <2> HIDE DEF c
  <2>2. \E d \in DOMAIN Letter : Letter[d] = c
    BY DEF c
  <2>3. Unescaped(c) = b
    BY <2>1, <2>2 DEF Unescaped
  <2> QED BY <2>3 DEF c
<1>3. \A b \in DOMAIN Letter : Letter[b] \in {97, 98, 110, 114, 116} /\ b \in 0 .. 255
  BY Letters
<1>4. ASSUME NEW c \in 0 .. 255, c \notin {97, 98, 110, 114, 116} PROVE Unescaped(c) = c
  BY <1>3, <1>4 DEF Unescaped
<1>5. ASSUME NEW c \in 0 .. 255 PROVE Unescaped(c) \in 0 .. 255
  BY <1>3 DEF Unescaped
<1> QED BY <1>2, <1>4, <1>5, ZenonT(60)

LEMMA HexDigits ==
  ASSUME NEW n \in 0 .. 15
  PROVE  is_hex_digit(HexDigit(n)) /\ hex_digit_to_int(HexDigit(n)) = n /\ HexDigit(n) \in 1 .. 255
<1>1. CASE n < 10
  <2>1. HexDigit(n) = 48 + n /\ 48 + n \in 48 .. 57
    BY <1>1 DEF HexDigit
  <2> QED BY <2>1 DEF is_hex_digit, hex_digit_to_int
<1>2. CASE ~(n < 10)
  <2> DEFINE c == HexDigit(n)
  <2>1. c = 87 + n /\ c \in 97 .. 102 /\ c - 87 = n
    BY <1>2 DEF HexDigit
  <2> HIDE DEF c
  <2>2. hex_digit_to_int(c) = c - 87
    BY <2>1 DEF hex_digit_to_int
  <2> QED BY <2>1, <2>2 DEF is_hex_digit, c
<1> QED BY <1>1, <1>2

LEMMA HexIs ==
  ASSUME NEW b \in 0 .. 255
  PROVE  /\ b \div 16 \in 0 .. 15 /\ b % 16 \in 0 .. 15 /\ (b \div 16) * 16 + (b % 16) = b
OBVIOUS

\* The two digits that Hex writes.
High(b) == HexDigit(b \div 16)
Low(b)  == HexDigit(b % 16)

LEMMA HexDigitsOf ==
  ASSUME NEW b \in 0 .. 255
  PROVE  /\ High(b) \in 1 .. 255 /\ Low(b) \in 1 .. 255
         /\ is_hex_digit(High(b)) /\ is_hex_digit(Low(b))
         /\ hex_digit_to_int(High(b)) * 16 + hex_digit_to_int(Low(b)) = b
<1> DEFINE m == b \div 16
           n == b % 16
<1>1. m \in 0 .. 15 /\ n \in 0 .. 15 /\ m * 16 + n = b
  BY HexIs
<1> HIDE DEF m, n
<1>2. is_hex_digit(HexDigit(m)) /\ hex_digit_to_int(HexDigit(m)) = m /\ HexDigit(m) \in 1 .. 255
  BY <1>1, HexDigits
<1>3. is_hex_digit(HexDigit(n)) /\ hex_digit_to_int(HexDigit(n)) = n /\ HexDigit(n) \in 1 .. 255
  BY <1>1, HexDigits
<1> QED BY <1>1, <1>2, <1>3 DEF m, n, High, Low

LEMMA FourBytes ==
  ASSUME NEW S, NEW a \in S, NEW b \in S, NEW c \in S, NEW d \in S
  PROVE  <<a, b>> \o <<c, d>> = <<a, b, c, d>>
<1> DEFINE u == <<a, b>>
           v == <<c, d>>
           w == <<a, b, c, d>>
<1>1. /\ u \in Seq(S) /\ Len(u) = 2 /\ u[1] = a /\ u[2] = b
      /\ v \in Seq(S) /\ Len(v) = 2 /\ v[1] = c /\ v[2] = d
      /\ w \in Seq(S) /\ Len(w) = 4 /\ w[1] = a /\ w[2] = b /\ w[3] = c /\ w[4] = d
  OBVIOUS
<1> HIDE DEF u, v, w
<1>1a. u \in Seq(S) /\ v \in Seq(S)
  BY <1>1
<1>2. /\ u \o v \in Seq(S) /\ Len(u \o v) = Len(u) + Len(v)
      /\ \A i \in 1 .. Len(u) : (u \o v)[i] = u[i]
      /\ \A i \in 1 .. Len(v) : (u \o v)[Len(u) + i] = v[i]
  BY <1>1a, ConcatParts
<1>3. /\ (u \o v)[1] = a /\ (u \o v)[2] = b /\ (u \o v)[2 + 1] = c /\ (u \o v)[2 + 2] = d
  BY <1>1, <1>2
<1>4. \A i \in 1 .. 4 : i = 1 \/ i = 2 \/ i = 3 \/ i = 4
  OBVIOUS
<1>5. 2 + 1 = 3 /\ 2 + 2 = 4
  OBVIOUS
<1>6. \A i \in 1 .. 4 : (u \o v)[i] = w[i]
  BY <1>1, <1>3, <1>4, <1>5
<1>7. u \o v = w
  BY <1>1, <1>2, <1>5, <1>6, SeqEqual
<1> QED BY <1>7 DEF u, v, w

\* How a byte is written: as it is, behind a backslash, or in hexadecimal.
LEMMA EscapedIs ==
  ASSUME NEW b \in 0 .. 255
  PROVE  \/ b \in {Backslash, Quote} /\ Escaped(b) = <<Backslash, b>>
         \/ b \in DOMAIN Letter /\ Escaped(b) = <<Backslash, Letter[b]>>
         \/ isprint(b) /\ b \notin {Backslash, Quote} /\ Escaped(b) = <<b>>
         \/ Escaped(b) = <<Backslash, 120, High(b), Low(b)>>
<1>1. \A x \in DOMAIN Letter : x \notin {Backslash, Quote}
  BY Letters DEF Backslash, Quote
<1>2. CASE b \in {Backslash, Quote}
  BY <1>1, <1>2 DEF Escaped
<1>3. CASE b \in DOMAIN Letter
  BY <1>1, <1>3 DEF Escaped
<1>4. CASE b \notin DOMAIN Letter \cup {Backslash, Quote}
  <2>1. Escaped(b) = IF isprint(b) THEN <<b>> ELSE <<Backslash, 120>> \o Hex(b)
    BY <1>4 DEF Escaped
  <2> DEFINE c == High(b)
             d == Low(b)
  <2>2. Hex(b) = <<c, d>>
    BY DEF Hex, High, Low
  <2>3. c \in Int /\ d \in Int
    <3>1. c \in 1 .. 255 /\ d \in 1 .. 255
      BY HexDigitsOf, ZenonT(60)
    <3> HIDE DEF c, d
    <3> QED BY <3>1
  <2> HIDE DEF c, d
  <2>4. <<Backslash, 120>> \o <<c, d>> = <<Backslash, 120, c, d>>
    <3> DEFINE T == Int
               k == Backslash
               m == 120
    <3>1. k \in T /\ m \in T /\ c \in T /\ d \in T
      BY <2>3 DEF Backslash
    <3> HIDE DEF T, k, m
    <3>2. <<k, m>> \o <<c, d>> = <<k, m, c, d>>
      BY <3>1, FourBytes
    <3> QED BY <3>2 DEF k, m
  <2> QED BY <1>4, <2>1, <2>2, <2>4 DEF c, d
<1> QED BY <1>2, <1>3, <1>4

\* It is read back at p, when that is written there and something else behind it.
Written(line, p, u) ==
  p + Len(u) <= Len(line) /\ \A j \in 1 .. Len(u) : line[p + j - 1] = u[j]

LEMMA ByteIsRead ==
  ASSUME NEW line \in Seq(0 .. 255), NEW p \in Nat \ {0}, NEW b \in 0 .. 255,
         Written(line, p, Escaped(b))
  PROVE  InQuotes(line, p) = Reads(Len(Escaped(b)), <<b>>, "double")
<1>1. Len(line) \in Nat
  OBVIOUS
<1>2. CASE b \in {Backslash, Quote} /\ Escaped(b) = <<Backslash, b>>
  <2>1. Len(Escaped(b)) = 2 /\ At(line, p) = Backslash /\ At(line, p + 1) = b
    BY <1>1, <1>2 DEF Written, At
  <2>2. ~HexEscape(line, p)
    BY <1>2, <2>1 DEF HexEscape, Backslash, Quote
  <2>3. b # 0 /\ b \notin {97, 98, 110, 114, 116}
    BY <1>2, SMTT(30) DEF Backslash, Quote
  <2>4. Unescaped(b) = b
    BY <2>3, Unescapes, ZenonT(60)
  <2> QED BY <2>1, <2>2, <2>3, <2>4 DEF InQuotes
<1>3. CASE b \in DOMAIN Letter /\ Escaped(b) = <<Backslash, Letter[b]>>
  <2>1. Len(Escaped(b)) = 2 /\ At(line, p) = Backslash /\ At(line, p + 1) = Letter[b]
    BY <1>1, <1>3 DEF Written, At
  <2>2. Letter[b] \in {97, 98, 110, 114, 116}
    BY <1>3, Letters
  <2>3. ~HexEscape(line, p)
    BY <2>1, <2>2, SMTT(30) DEF HexEscape
  <2>4. Unescaped(Letter[b]) = b
    BY <1>3, Unescapes, ZenonT(60)
  <2>5. Letter[b] # 0
    BY <2>2
  <2> QED BY <2>1, <2>3, <2>4, <2>5 DEF InQuotes
<1>4. CASE isprint(b) /\ b \notin {Backslash, Quote} /\ Escaped(b) = <<b>>
  <2>1. Len(Escaped(b)) = 1 /\ At(line, p) = b
    BY <1>1, <1>4 DEF Written, At
  <2>2. b # 0 /\ b # Backslash /\ b # Quote
    BY <1>4 DEF isprint
  <2>3. ~HexEscape(line, p)
    BY <2>1, <2>2 DEF HexEscape
  <2> QED BY <2>1, <2>2, <2>3 DEF InQuotes
<1>5. CASE Escaped(b) = <<Backslash, 120, High(b), Low(b)>>
  <2>1. /\ Len(Escaped(b)) = 4 /\ At(line, p) = Backslash /\ At(line, p + 1) = 120
        /\ At(line, p + 2) = High(b) /\ At(line, p + 3) = Low(b)
    BY <1>1, <1>5, SMTT(30) DEF Written, At
  <2>1a. is_hex_digit(High(b)) /\ is_hex_digit(Low(b))
    BY HexDigitsOf, ZenonT(60)
  <2>2. is_hex_digit(At(line, p + 2)) /\ is_hex_digit(At(line, p + 3))
    BY <2>1, <2>1a
  <2>3. hex_digit_to_int(At(line, p + 2)) * 16 + hex_digit_to_int(At(line, p + 3)) = b
    BY <2>1, HexDigitsOf, ZenonT(60)
  <2>4. HexEscape(line, p)
    BY <2>1, <2>2 DEF HexEscape
  <2> QED BY <2>1, <2>3, <2>4 DEF InQuotes
<1> QED BY <1>2, <1>3, <1>4, <1>5, EscapedIs

\* The quoted form of u stands at q: e[k] bytes between the quotes write the
\* first k of u.
Block(line, q, u, e) ==
  /\ e \in [0 .. Len(u) -> Nat] /\ e[0] = 0
  /\ q + e[Len(u)] + 1 <= Len(line)
  /\ line[q] = Quote /\ line[q + e[Len(u)] + 1] = Quote
  /\ \A k \in 1 .. Len(u) : /\ e[k] = e[k - 1] + Len(Escaped(u[k]))
                            /\ Written(line, q + e[k - 1] + 1, Escaped(u[k]))

Quoted(u) == sdscatrepr(<<>>, u)

LEMMA EscapedType ==
  ASSUME NEW b \in 0 .. 255 PROVE Escaped(b) \in Seq(0 .. 255)
<1>1. Backslash \in 0 .. 255 /\ 120 \in 0 .. 255
  BY DEF Backslash
<1>2. \A d \in DOMAIN Letter : Letter[d] \in 0 .. 255
  BY Letters
<1>3. High(b) \in 1 .. 255 /\ Low(b) \in 1 .. 255
  BY HexDigitsOf, ZenonT(60)
<1>4. High(b) \in 0 .. 255 /\ Low(b) \in 0 .. 255
  BY <1>3
<1> DEFINE T == 0 .. 255
           k == 120
<1>5. k \in T /\ Backslash \in T /\ b \in T /\ High(b) \in T /\ Low(b) \in T
      /\ \A d \in DOMAIN Letter : Letter[d] \in T
  BY <1>1, <1>2, <1>4
<1>6. \/ Escaped(b) = <<Backslash, b>>
      \/ b \in DOMAIN Letter /\ Escaped(b) = <<Backslash, Letter[b]>>
      \/ Escaped(b) = <<b>>
      \/ Escaped(b) = <<Backslash, k, High(b), Low(b)>>
  BY EscapedIs
<1> HIDE DEF T, k
<1>7. Escaped(b) \in Seq(T)
  <2>1. /\ <<Backslash, b>> \in Seq(T) /\ <<b>> \in Seq(T)
        /\ <<Backslash, k, High(b), Low(b)>> \in Seq(T)
    BY <1>5
  <2>2. \A c \in T : <<Backslash, c>> \in Seq(T)
    BY <1>5
  <2> QED BY <1>5, <1>6, <2>1, <2>2
<1> QED BY <1>7 DEF T

LEMMA QuotedIs ==
  ASSUME NEW u \in Seq(0 .. 255)
  PROVE  /\ Quoted(u) \in Seq(0 .. 255)
         /\ \E e : Block(Quoted(u), 1, u, e) /\ Len(Quoted(u)) = e[Len(u)] + 2
<1> DEFINE T    == 0 .. 255
           seqs == [i \in DOMAIN u |-> Escaped(u[i])]
           F    == FlattenSeq(seqs)
           m    == Len(u)
           r    == (<<Quote>> \o F) \o <<Quote>>
<1>1. m \in Nat /\ DOMAIN u = 1 .. m /\ \A i \in 1 .. m : u[i] \in T
  BY ElementOfSeq
<1>2. \A i \in 1 .. m : Escaped(u[i]) \in Seq(T)
  BY <1>1, EscapedType
<1> HIDE DEF m
<1>3. seqs \in Seq(Seq(T)) /\ Len(seqs) = m /\ \A i \in 1 .. m : seqs[i] = Escaped(u[i])
  <2> HIDE DEF T
  <2> QED BY <1>1, <1>2
<1>4. Quote \in T
  BY DEF Quote
<1> HIDE DEF T, seqs
<1>5. F \in Seq(T) /\ \E e : Laid(seqs, F, e)
  BY <1>3, LaidOut
<1> HIDE DEF F
<1>6. Quoted(u) = r
  <2>1. <<>> \o <<Quote>> = <<Quote>>
    BY <1>4
  <2> QED BY <2>1 DEF Quoted, sdscatrepr, F, seqs
<1> DEFINE q == <<Quote>>
           p == q \o F
<1>7. q \in Seq(T) /\ Len(q) = 1 /\ q[1] = Quote
  BY <1>4
<1> HIDE DEF q
<1>8. /\ p \in Seq(T) /\ Len(p) = Len(q) + Len(F)
      /\ \A i \in 1 .. Len(q) : p[i] = q[i]
      /\ \A i \in 1 .. Len(F) : p[Len(q) + i] = F[i]
  <2>1. q \in Seq(T) /\ F \in Seq(T)
    BY <1>5, <1>7
  <2> HIDE DEF p
  <2>2. /\ q \o F \in Seq(T) /\ Len(q \o F) = Len(q) + Len(F)
        /\ \A i \in 1 .. Len(q) : (q \o F)[i] = q[i]
        /\ \A i \in 1 .. Len(F) : (q \o F)[Len(q) + i] = F[i]
    BY <2>1, ConcatParts
  <2> QED BY <2>2 DEF p
<1> HIDE DEF p
<1>9. /\ p \o q \in Seq(T) /\ Len(p \o q) = Len(p) + Len(q)
      /\ \A i \in 1 .. Len(p) : (p \o q)[i] = p[i]
      /\ \A i \in 1 .. Len(q) : (p \o q)[Len(p) + i] = q[i]
  <2>1. q \in Seq(T) /\ p \in Seq(T)
    BY <1>7, <1>8
  <2> QED BY <2>1, ConcatParts
<1>10. r = p \o q
  BY DEF p, q
<1> HIDE DEF r
<1>11. Len(F) \in Nat
  BY <1>5
<1>12. /\ r \in Seq(T) /\ Len(r) = Len(F) + 2 /\ r[1] = Quote /\ r[Len(F) + 2] = Quote
       /\ \A i \in 1 .. Len(F) : r[1 + i] = F[i]
  <2>1. Len(p) = 1 + Len(F) /\ 1 \in 1 .. Len(p) /\ 1 \in 1 .. Len(q)
    BY <1>7, <1>8, <1>11
  <2>2. (p \o q)[1] = p[1] /\ p[1] = q[1]
    BY <1>8, <1>9, <2>1
  <2>3. (p \o q)[Len(p) + 1] = q[1] /\ Len(p) + 1 = Len(F) + 2
    BY <1>9, <1>11, <2>1
  <2>4. ASSUME NEW i \in 1 .. Len(F) PROVE (p \o q)[1 + i] = F[i]
    <3>1. 1 + i \in 1 .. Len(p) /\ p[1 + i] = F[i]
      BY <1>7, <1>8, <1>11, <2>1
    <3> QED BY <1>9, <3>1
  <2> QED BY <1>7, <1>9, <1>10, <1>11, <2>1, <2>2, <2>3, <2>4
<1>13. PICK e : Laid(seqs, F, e)
  BY <1>5
<1>14. /\ e \in [0 .. m -> Nat] /\ e[0] = 0 /\ e[m] = Len(F)
       /\ \A k \in 1 .. m : /\ e[k] = e[k - 1] + Len(Escaped(u[k])) /\ e[k] <= Len(F)
                            /\ \A j \in 1 .. Len(Escaped(u[k])) :
                                 F[e[k - 1] + j] = Escaped(u[k])[j]
  BY <1>3, <1>13 DEF Laid
<1>15. ASSUME NEW k \in 1 .. m PROVE Written(r, 1 + e[k - 1] + 1, Escaped(u[k]))
  <2> DEFINE a == e[k - 1]
             v == Escaped(u[k])
  <2>1. a \in Nat /\ Len(v) \in Nat /\ a + Len(v) <= Len(F)
    <3>1. k - 1 \in 0 .. m
      BY <1>1
    <3>2. a \in Nat /\ Len(v) \in Nat
      <4>1. v \in Seq(T)
        BY <1>2
      <4> HIDE DEF v
      <4>2. Len(v) \in Nat
        BY <4>1
      <4> QED BY <1>14, <3>1, <4>2
    <3> HIDE DEF v
    <3> QED BY <1>14, <3>2 DEF v
  <2>2. \A j \in 1 .. Len(v) : F[a + j] = v[j]
    BY <1>14
  <2> HIDE DEF a, v
  <2>3. (1 + a + 1) + Len(v) <= Len(r)
    BY <1>11, <1>12, <2>1
  <2>4. ASSUME NEW j \in 1 .. Len(v) PROVE r[(1 + a + 1) + j - 1] = v[j]
    <3>1. a + j \in 1 .. Len(F) /\ (1 + a + 1) + j - 1 = 1 + (a + j)
      BY <1>11, <2>1
    <3> QED BY <1>12, <2>2, <3>1
  <2>5. Written(r, 1 + a + 1, v)
    BY <2>3, <2>4 DEF Written
  <2> QED BY <2>5 DEF a, v
<1>16. Block(r, 1, u, e) /\ Len(r) = e[m] + 2
  <2>1. 1 + e[m] + 1 = Len(F) + 2
    BY <1>11, <1>14
  <2>2. 1 + e[m] + 1 <= Len(r) /\ r[1 + e[m] + 1] = Quote
    BY <1>11, <1>12, <2>1
  <2> QED BY <1>12, <1>14, <1>15, <2>2 DEF Block, m
<1> QED BY <1>6, <1>12, <1>16 DEF T, m

\* A quoted text within a line.
LEMMA BlockMoves ==
  ASSUME NEW line, Len(line) \in Nat, NEW a \in Nat, NEW u \in Seq(0 .. 255),
         NEW r, Len(r) \in Nat, NEW e, Block(r, 1, u, e),
         a + Len(r) <= Len(line), \A j \in 1 .. Len(r) : line[a + j] = r[j]
  PROVE  Block(line, a + 1, u, e)
<1> DEFINE m == Len(u)
<1>1. m \in Nat /\ \A k \in 1 .. m : u[k] \in 0 .. 255
  BY ElementOfSeq
<1>2. /\ e \in [0 .. m -> Nat] /\ e[0] = 0 /\ 1 + e[m] + 1 <= Len(r)
      /\ r[1] = Quote /\ r[1 + e[m] + 1] = Quote
      /\ \A k \in 1 .. m : /\ e[k] = e[k - 1] + Len(Escaped(u[k]))
                           /\ Written(r, 1 + e[k - 1] + 1, Escaped(u[k]))
  BY DEF Block
<1>3. e[m] \in Nat
  <2>1. m \in 0 .. m
    BY <1>1
  <2> HIDE DEF m
  <2> QED BY <1>2, <2>1
<1>4. \A k \in 1 .. m : Len(Escaped(u[k])) \in Nat /\ e[k - 1] \in Nat
  <2> TAKE k \in 1 .. m
  <2>1. Escaped(u[k]) \in Seq(0 .. 255)
    BY <1>1, EscapedType
  <2> DEFINE v == Escaped(u[k])
  <2> HIDE DEF v, m
  <2>2. Len(v) \in Nat
    BY <2>1 DEF v
  <2>3. k - 1 \in 0 .. m
    BY <1>1
  <2> QED BY <1>2, <2>2, <2>3 DEF v
<1> HIDE DEF m
<1>5. \A n \in 1 .. Len(r) : line[a + n] = r[n]
  OBVIOUS
<1>6. (a + 1) + e[m] + 1 <= Len(line) /\ line[a + 1] = Quote /\ line[(a + 1) + e[m] + 1] = Quote
  <2>1. 1 \in 1 .. Len(r) /\ 1 + e[m] + 1 \in 1 .. Len(r)
        /\ a + (1 + e[m] + 1) = (a + 1) + e[m] + 1
    <3> DEFINE c == e[m]
    <3>1. c \in Nat /\ 1 + c + 1 <= Len(r)
      BY <1>2, <1>3
    <3> HIDE DEF c
    <3>2. 1 \in 1 .. Len(r) /\ 1 + c + 1 \in 1 .. Len(r) /\ a + (1 + c + 1) = (a + 1) + c + 1
      BY <3>1
    <3> QED BY <3>2 DEF c
  <2>2. line[a + (1 + e[m] + 1)] = r[1 + e[m] + 1] /\ line[a + 1] = r[1]
    BY <1>5, <2>1
  <2> QED BY <1>2, <1>3, <2>1, <2>2, SMTT(30)
<1>7. ASSUME NEW k \in 1 .. m PROVE Written(line, (a + 1) + e[k - 1] + 1, Escaped(u[k]))
  <2> DEFINE v == Escaped(u[k])
             c == e[k - 1]
  <2>1. c \in Nat /\ Len(v) \in Nat /\ Written(r, 1 + c + 1, v)
    BY <1>2, <1>4
  <2> HIDE DEF c, v
  <2>2. (1 + c + 1) + Len(v) <= Len(r) /\ \A j \in 1 .. Len(v) : r[(1 + c + 1) + j - 1] = v[j]
    BY <2>1 DEF Written
  <2>3. ((a + 1) + c + 1) + Len(v) <= Len(line)
    BY <2>1, <2>2
  <2>4. ASSUME NEW j \in 1 .. Len(v) PROVE line[((a + 1) + c + 1) + j - 1] = v[j]
    <3> DEFINE n == (1 + c + 1) + j - 1
    <3>1. n \in 1 .. Len(r) /\ a + n = ((a + 1) + c + 1) + j - 1
      BY <2>1, <2>2
    <3>2. r[n] = v[j]
      BY <2>2
    <3> HIDE DEF n
    <3> QED BY <1>5, <3>1, <3>2
  <2>5. Written(line, (a + 1) + c + 1, v)
    BY <2>3, <2>4 DEF Written
  <2> QED BY <2>5 DEF c, v
<1> QED BY <1>2, <1>6, <1>7 DEF Block, m

\* The quoted texts one behind the other, a blank between them: text i, with the
\* blank behind it, ends at at[i].
Lined(line, args, at, e) ==
  /\ at \in [0 .. Len(args) -> Nat] /\ at[0] = 0 /\ at[Len(args)] = Len(line)
  /\ \A i \in 1 .. Len(args) :
       /\ Block(line, at[i - 1] + 1, args[i], e[i])
       /\ LET close == (at[i - 1] + 1) + e[i][Len(args[i])] + 1
          IN  at[i] = IF i = Len(args) THEN close ELSE close + 1
       /\ at[i] <= Len(line) /\ (i < Len(args) => line[at[i]] = 32)

LEMMA ReprsAre ==
  ASSUME NEW args \in Seq(Seq(0 .. 255))
  PROVE  Reprs(args) \in Seq(0 .. 255) /\ \E at, e : Lined(Reprs(args), args, at, e)
<1> DEFINE T    == 0 .. 255
           m    == Len(args)
           qs   == [i \in DOMAIN args |-> sdscatrepr(<<>>, args[i])]
           seqs == [i \in DOMAIN qs |-> IF i = Len(qs) THEN qs[i] ELSE qs[i] \o <<32>>]
           line == FlattenSeq(seqs)
           e    == [i \in 1 .. m |-> CHOOSE f : Block(Quoted(args[i]), 1, args[i], f)
                                                /\ Len(Quoted(args[i])) = f[Len(args[i])] + 2]
<1>1. m \in Nat /\ DOMAIN args = 1 .. m /\ \A i \in 1 .. m : args[i] \in Seq(T)
  BY ElementOfSeq
<1>2. \A i \in 1 .. m : /\ Quoted(args[i]) \in Seq(T)
                        /\ \E f : /\ Block(Quoted(args[i]), 1, args[i], f)
                                  /\ Len(Quoted(args[i])) = f[Len(args[i])] + 2
  BY <1>1, QuotedIs
<1>3. \A i \in 1 .. m : /\ Block(Quoted(args[i]), 1, args[i], e[i])
                        /\ Len(Quoted(args[i])) = e[i][Len(args[i])] + 2
  BY <1>2
<1>4. Reprs(args) = line
  BY DEF Reprs, sdsjoinsds, Joined
<1> HIDE DEF e, m
<1>5. /\ qs = [i \in 1 .. m |-> Quoted(args[i])] /\ DOMAIN qs = 1 .. m
      /\ \A i \in 1 .. m : qs[i] = Quoted(args[i])
  BY <1>1 DEF Quoted
<1>6. 32 \in T
  OBVIOUS
<1> HIDE DEF qs, T
<1>7. qs \in Seq(Seq(T)) /\ Len(qs) = m
  BY <1>1, <1>2, <1>5
<1>8. \A i \in 1 .. m : /\ Quoted(args[i]) \o <<32>> \in Seq(T)
                        /\ Len(Quoted(args[i]) \o <<32>>) = Len(Quoted(args[i])) + 1
                        /\ \A j \in 1 .. Len(Quoted(args[i])) :
                             (Quoted(args[i]) \o <<32>>)[j] = Quoted(args[i])[j]
                        /\ (Quoted(args[i]) \o <<32>>)[Len(Quoted(args[i])) + 1] = 32
  <2> TAKE i \in 1 .. m
  <2> DEFINE v == Quoted(args[i])
             b == <<32>>
  <2>1. v \in Seq(T) /\ b \in Seq(T) /\ Len(b) = 1 /\ b[1] = 32
    BY <1>2, <1>6
  <2> HIDE DEF v, b
  <2>2. v \in Seq(T) /\ b \in Seq(T)
    BY <2>1
  <2>3. /\ v \o b \in Seq(T) /\ Len(v \o b) = Len(v) + Len(b)
        /\ \A j \in 1 .. Len(v) : (v \o b)[j] = v[j]
        /\ \A j \in 1 .. Len(b) : (v \o b)[Len(v) + j] = b[j]
    BY <2>2, ConcatParts
  <2>4. (v \o b)[Len(v) + 1] = 32
    BY <2>1, <2>3
  <2> QED BY <2>1, <2>3, <2>4 DEF v, b
<1>9. /\ seqs \in Seq(Seq(T)) /\ Len(seqs) = m
      /\ \A i \in 1 .. m : seqs[i] = IF i = m THEN Quoted(args[i]) ELSE Quoted(args[i]) \o <<32>>
  <2>1. seqs = [i \in 1 .. m |-> IF i = m THEN Quoted(args[i]) ELSE Quoted(args[i]) \o <<32>>]
    BY <1>5, <1>7
  <2> HIDE DEF seqs
  <2>2. seqs \in [1 .. m -> Seq(T)]
    BY <1>2, <1>8, <2>1
  <2> QED BY <1>1, <2>1, <2>2
<1> HIDE DEF seqs
<1>10. line \in Seq(T) /\ \E at : Laid(seqs, line, at)
  BY <1>9, LaidOut
<1> HIDE DEF line
<1>11. PICK at : Laid(seqs, line, at)
  BY <1>10
<1>12. /\ at \in [0 .. m -> Nat] /\ at[0] = 0 /\ at[m] = Len(line)
       /\ \A i \in 1 .. m :
            /\ at[i] = at[i - 1] + Len(seqs[i]) /\ at[i] <= Len(line)
            /\ \A j \in 1 .. Len(seqs[i]) : line[at[i - 1] + j] = seqs[i][j]
  BY <1>9, <1>11 DEF Laid
<1>13. ASSUME NEW i \in 1 .. m
       PROVE  /\ Block(line, at[i - 1] + 1, args[i], e[i])
              /\ LET close == (at[i - 1] + 1) + e[i][Len(args[i])] + 1
                 IN  at[i] = IF i = m THEN close ELSE close + 1
              /\ at[i] <= Len(line) /\ (i < m => line[at[i]] = 32)
  <2> DEFINE r == Quoted(args[i])
             a == at[i - 1]
             c == e[i][Len(args[i])]
             v == seqs[i]
  <2>1. r \in Seq(T) /\ Block(r, 1, args[i], e[i]) /\ Len(r) = c + 2
    BY <1>2, <1>3
  <2>2. a \in Nat
    <3>1. i - 1 \in 0 .. m
      BY <1>1
    <3> QED BY <1>12, <3>1
  <2>3. /\ at[i] = a + Len(v) /\ at[i] <= Len(line)
        /\ \A j \in 1 .. Len(v) : line[a + j] = v[j]
    BY <1>12
  <2>4. /\ Len(v) = IF i = m THEN Len(r) ELSE Len(r) + 1
        /\ \A j \in 1 .. Len(r) : v[j] = r[j]
        /\ i # m => v[Len(r) + 1] = 32
    BY <1>8, <1>9
  <2>5. args[i] \in Seq(0 .. 255) /\ Len(line) \in Nat
    BY <1>1, <1>10 DEF T
  <2> HIDE DEF r, a, c, v
  <2>6. Len(r) \in Nat
    BY <2>1
  <2>7. c \in Nat /\ Len(v) \in Nat
    <3>1. e[i] \in [0 .. Len(args[i]) -> Nat] /\ Len(args[i]) \in Nat
      BY <2>1, <2>5 DEF Block
    <3>2. Len(args[i]) \in 0 .. Len(args[i])
      BY <3>1
    <3>3. c \in Nat
      BY <3>1, <3>2 DEF c
    <3> QED BY <2>4, <2>6, <3>3
  <2>8. a + Len(r) <= Len(line) /\ \A j \in 1 .. Len(r) : line[a + j] = r[j]
    <3>1. \A j \in 1 .. Len(r) : j \in 1 .. Len(v)
      BY <2>4, <2>6
    <3> QED BY <2>2, <2>3, <2>4, <2>5, <2>6, <2>7, <3>1
  <2>9. Block(line, a + 1, args[i], e[i])
    BY <2>1, <2>2, <2>5, <2>6, <2>8, BlockMoves
  <2>10. at[i] = IF i = m THEN (a + 1) + c + 1 ELSE ((a + 1) + c + 1) + 1
    BY <2>1, <2>2, <2>3, <2>4, <2>7
  <2>11. ASSUME i < m PROVE line[at[i]] = 32
    <3>1. i # m
      BY <1>1, <2>11
    <3>2. Len(v) = Len(r) + 1 /\ v[Len(v)] = 32
      BY <2>4, <3>1
    <3>3. Len(v) \in 1 .. Len(v)
      BY <2>6, <2>7, <3>2
    <3> QED BY <2>3, <3>2, <3>3
  <2> QED BY <2>3, <2>9, <2>10, <2>11 DEF a, c
<1>14. Lined(line, args, at, e)
  BY <1>12, <1>13 DEF Lined, m
<1> QED BY <1>4, <1>10, <1>14 DEF T

\* Where sdssplitargs can be in its line, and what it has.
Nexts == {"blanks", "none", "double", "single", "error", "end"}
ReadState == [p : Nat \ {0}, next : Nexts, current : Seq(0 .. 255), vector : Seq(Seq(0 .. 255))]

LEMMA AtIs ==
  ASSUME NEW line \in Seq(0 .. 255), NEW p \in Nat \ {0}
  PROVE  At(line, p) \in 0 .. 255
<1>1. CASE p <= Len(line)
  <2>1. p \in 1 .. Len(line)
    BY <1>1
  <2>2. line[p] \in 0 .. 255
    BY <2>1, ElementOfSeq
  <2> QED BY <1>1, <2>2 DEF At
<1>2. CASE ~(p <= Len(line))
  BY <1>2 DEF At
<1> QED BY <1>1, <1>2

LEMMA HexValue ==
  ASSUME NEW c \in 0 .. 255, is_hex_digit(c)
  PROVE  hex_digit_to_int(c) \in 0 .. 15
<1>1. CASE c \in 48 .. 57
  BY <1>1 DEF hex_digit_to_int
<1>2. CASE c \in 97 .. 102
  BY <1>2 DEF hex_digit_to_int
<1>3. CASE c \in 65 .. 70
  BY <1>3 DEF hex_digit_to_int
<1> QED BY <1>1, <1>2, <1>3 DEF is_hex_digit

\* What is read of a token.
Read(r) == r.n \in Nat /\ r.bytes \in Seq(0 .. 255) /\ r.next \in Nexts

LEMMA ReadsType ==
  ASSUME NEW n \in Nat, NEW next \in Nexts
  PROVE  /\ Read(Reads(n, <<>>, next))
         /\ \A b \in 0 .. 255 : Read(Reads(n, <<b>>, next))
BY DEF Read, Reads

LEMMA InTokenType ==
  ASSUME NEW line \in Seq(0 .. 255), NEW p \in Nat \ {0}, NEW q \in {"double", "single", "none"}
  PROVE  Read(InToken(line, p, q))
<1> DEFINE c == At(line, p)
           d == At(line, p + 1)
           x == At(line, p + 2)
           y == At(line, p + 3)
<1>1. /\ p + 1 \in Nat \ {0} /\ p + 2 \in Nat \ {0} /\ p + 3 \in Nat \ {0}
  OBVIOUS
<1>2. c \in 0 .. 255 /\ d \in 0 .. 255 /\ x \in 0 .. 255 /\ y \in 0 .. 255
  BY <1>1, AtIs
<1>4. Read(ClosingQuote(line, p))
  <2>1. "error" \in Nexts /\ "blanks" \in Nexts /\ 1 \in Nat
    BY DEF Nexts
  <2> QED BY <2>1, ReadsType DEF ClosingQuote
<1>5. "double" \in Nexts /\ "single" \in Nexts /\ "none" \in Nexts /\ "blanks" \in Nexts
      /\ "error" \in Nexts /\ 0 \in Nat /\ 1 \in Nat /\ 2 \in Nat /\ 4 \in Nat
  BY DEF Nexts
<1>6. CASE q = "double"
  <2>1. CASE HexEscape(line, p)
    <3> DEFINE v == hex_digit_to_int(x) * 16 + hex_digit_to_int(y)
    <3>1. is_hex_digit(x) /\ is_hex_digit(y)
      BY <2>1 DEF HexEscape
    <3>2. hex_digit_to_int(x) \in 0 .. 15 /\ hex_digit_to_int(y) \in 0 .. 15
      BY <1>2, <3>1, HexValue
    <3>3. v \in 0 .. 255
      <4> DEFINE a == hex_digit_to_int(x)
                 b == hex_digit_to_int(y)
      <4>1. a \in 0 .. 15 /\ b \in 0 .. 15
        BY <3>2
      <4> HIDE DEF a, b
      <4>2. a * 16 + b \in 0 .. 255
        BY <4>1
      <4> QED BY <4>2 DEF a, b
    <3>4. InToken(line, p, q) = Reads(4, <<v>>, "double")
      BY <1>6, <2>1 DEF InToken, InQuotes
    <3> HIDE DEF v
    <3> QED BY <1>5, <3>3, <3>4, ReadsType, ZenonT(60)
  <2>2. CASE ~HexEscape(line, p) /\ c = Backslash /\ d # 0
    <3>1. InToken(line, p, q) = Reads(2, <<Unescaped(d)>>, "double")
      BY <1>6, <2>2 DEF InToken, InQuotes
    <3>2. Unescaped(d) \in 0 .. 255
      BY <1>2, Unescapes, ZenonT(60)
    <3> QED BY <1>5, <3>1, <3>2, ReadsType, ZenonT(60)
  <2>3. CASE ~HexEscape(line, p) /\ ~(c = Backslash /\ d # 0)
    <3>1. InToken(line, p, q) = IF c = Quote THEN ClosingQuote(line, p)
                                ELSE IF c = 0 THEN Reads(0, <<>>, "error")
                                ELSE Reads(1, <<c>>, "double")
      BY <1>6, <2>3 DEF InToken, InQuotes
    <3>2. Read(Reads(0, <<>>, "error")) /\ Read(Reads(1, <<c>>, "double"))
      BY <1>2, <1>5, ReadsType
    <3> QED BY <1>4, <3>1, <3>2
  <2> QED BY <2>1, <2>2, <2>3
<1>7. CASE q = "single"
  <2>1. InToken(line, p, q) = IF c = Backslash /\ d = Apostrophe
                              THEN Reads(2, <<Apostrophe>>, "single")
                              ELSE IF c = Apostrophe THEN ClosingQuote(line, p)
                              ELSE IF c = 0 THEN Reads(0, <<>>, "error")
                              ELSE Reads(1, <<c>>, "single")
    BY <1>7 DEF InToken, InSingleQuotes
  <2>2. Apostrophe \in 0 .. 255
    BY DEF Apostrophe
  <2>3. /\ Read(Reads(2, <<Apostrophe>>, "single")) /\ Read(Reads(0, <<>>, "error"))
        /\ Read(Reads(1, <<c>>, "single"))
    BY <1>2, <1>5, <2>2, ReadsType
  <2> QED BY <1>4, <2>1, <2>3
<1>8. CASE q = "none"
  <2>1. \/ InToken(line, p, q) = Reads(1, <<>>, "blanks")
        \/ InToken(line, p, q) = Reads(0, <<>>, "blanks")
        \/ InToken(line, p, q) = Reads(1, <<>>, "double")
        \/ InToken(line, p, q) = Reads(1, <<>>, "single")
        \/ InToken(line, p, q) = Reads(1, <<c>>, "none")
    <3>1. InToken(line, p, q) = NoQuotes(line, p)
      BY <1>8 DEF InToken
    <3>2. CASE c \in {32, 10, 13, 9}
      BY <3>1, <3>2 DEF NoQuotes, Quote, Apostrophe
    <3>3. CASE c = 0
      BY <3>1, <3>3 DEF NoQuotes, Quote, Apostrophe
    <3>4. CASE c = Quote
      BY <3>1, <3>4 DEF NoQuotes, Quote, Apostrophe
    <3>5. CASE c = Apostrophe
      BY <3>1, <3>5 DEF NoQuotes, Quote, Apostrophe
    <3>6. CASE c \notin {32, 10, 13, 9, 0, Quote, Apostrophe}
      BY <3>1, <3>6 DEF NoQuotes
    <3> QED BY <3>2, <3>3, <3>4, <3>5, <3>6
  <2>2. /\ Read(Reads(1, <<>>, "blanks")) /\ Read(Reads(0, <<>>, "blanks"))
        /\ Read(Reads(1, <<>>, "double")) /\ Read(Reads(1, <<>>, "single"))
        /\ Read(Reads(1, <<c>>, "none"))
    BY <1>2, <1>5, ReadsType, ZenonT(60)
  <2> QED BY <2>1, <2>2
<1> QED BY <1>6, <1>7, <1>8

\* A turn, by where it is taken.
LEMMA TurnIs ==
  ASSUME NEW line, NEW w \in ReadState
  PROVE  /\ w.next = "blanks" /\ isspace(At(line, w.p)) =>
              ArgsTurn(line, w) = [w EXCEPT !.p = @ + 1]
         /\ w.next = "blanks" /\ At(line, w.p) = 0 =>
              ArgsTurn(line, w) = [w EXCEPT !.next = "end"]
         /\ w.next = "blanks" /\ At(line, w.p) # 0 /\ ~isspace(At(line, w.p)) =>
              ArgsTurn(line, w) = [w EXCEPT !.next = "none", !.current = <<>>]
         /\ w.next \in {"end", "error"} => ArgsTurn(line, w) = w
         /\ w.next \in {"none", "double", "single"} =>
              LET r == InToken(line, w.p, w.next)
              IN  ArgsTurn(line, w)
                    = [p |-> w.p + r.n, next |-> r.next, current |-> w.current \o r.bytes,
                       vector |-> IF r.next = "blanks" THEN Append(w.vector, w.current)
                                  ELSE w.vector]
<1>1. isspace(At(line, w.p)) => At(line, w.p) # 0
  BY DEF isspace
<1>2. CASE w.next = "blanks" /\ isspace(At(line, w.p))
  BY <1>1, <1>2 DEF ArgsTurn
<1>3. CASE w.next = "blanks" /\ At(line, w.p) = 0
  BY <1>1, <1>3 DEF ArgsTurn
<1>4. CASE w.next = "blanks" /\ At(line, w.p) # 0 /\ ~isspace(At(line, w.p))
  BY <1>1, <1>4 DEF ArgsTurn
<1>5. CASE w.next \in {"end", "error"}
  BY <1>1, <1>5 DEF ArgsTurn
<1>6. CASE w.next \in {"none", "double", "single"}
  BY <1>1, <1>6 DEF ArgsTurn
<1> QED BY <1>2, <1>3, <1>4, <1>5, <1>6

LEMMA TurnType ==
  ASSUME NEW line \in Seq(0 .. 255), NEW w \in ReadState
  PROVE  ArgsTurn(line, w) \in ReadState
<1> DEFINE T == 0 .. 255
           c == At(line, w.p)
<1>1. /\ w.p \in Nat \ {0} /\ w.next \in Nexts /\ w.current \in Seq(T) /\ w.vector \in Seq(Seq(T))
  BY DEF ReadState
<1>2. CASE w.next = "blanks" /\ isspace(c)
  <2>1. ArgsTurn(line, w) = [w EXCEPT !.p = @ + 1]
    BY <1>2, TurnIs
  <2>2. w.p + 1 \in Nat \ {0}
    BY <1>1
  <2> QED BY <2>1, <2>2, ZenonT(60) DEF ReadState
<1>3. CASE w.next = "blanks" /\ c = 0
  <2>1. ArgsTurn(line, w) = [w EXCEPT !.next = "end"]
    BY <1>3, TurnIs
  <2>2. "end" \in Nexts
    BY DEF Nexts
  <2> QED BY <1>1, <2>1, <2>2 DEF ReadState
<1>4. CASE w.next = "blanks" /\ c # 0 /\ ~isspace(c)
  <2>1. ArgsTurn(line, w) = [w EXCEPT !.next = "none", !.current = <<>>]
    BY <1>4, TurnIs
  <2>2. "none" \in Nexts /\ <<>> \in Seq(0 .. 255)
    BY DEF Nexts
  <2> QED BY <1>1, <2>1, <2>2, ZenonT(60) DEF ReadState
<1>5. CASE w.next \in {"end", "error"}
  BY <1>5, TurnIs
<1>6. CASE w.next \in {"none", "double", "single"}
  <2> DEFINE r == InToken(line, w.p, w.next)
             u == w.current
             b == r.bytes
             v == w.vector
  <2>1. r.n \in Nat /\ b \in Seq(T) /\ r.next \in Nexts
    BY <1>1, <1>6, InTokenType DEF Read
  <2>2. ArgsTurn(line, w) = [p |-> w.p + r.n, next |-> r.next, current |-> u \o b,
                             vector |-> IF r.next = "blanks" THEN Append(v, u) ELSE v]
    BY <1>6, TurnIs
  <2>3. u \in Seq(T) /\ v \in Seq(Seq(T))
    BY <1>1
  <2> HIDE DEF r, u, b, v, T
  <2>4. u \o b \in Seq(T) /\ Append(v, u) \in Seq(Seq(T))
    BY <2>1, <2>3, ConcatProperties, AppendProperties
  <2>5. w.p + r.n \in Nat \ {0}
    BY <1>1, <2>1
  <2> QED BY <2>1, <2>2, <2>3, <2>4, <2>5 DEF ReadState, T
<1> QED BY <1>1, <1>2, <1>3, <1>4, <1>5, <1>6 DEF Nexts

\* Where the loop is in a line of quoted texts: at the blank before text i or
\* behind it, at its opening quote, within it, or at the end.
BeforeText(args, at, w, i) ==
  /\ w.next = "blanks" /\ w.vector = SubSeq(args, 1, i - 1)
  /\ w.p = at[i - 1] + 1 \/ (i > 1 /\ i <= Len(args) /\ w.p = at[i - 1])

AtText(args, at, w, i) ==
  /\ w.next = "none" /\ w.vector = SubSeq(args, 1, i - 1)
  /\ w.p = at[i - 1] + 1 /\ w.current = <<>>

InText(args, at, e, w, i, k) ==
  /\ w.next = "double" /\ w.vector = SubSeq(args, 1, i - 1)
  /\ w.p = (at[i - 1] + 1) + e[i][k - 1] + 1 /\ w.current = SubSeq(args[i], 1, k - 1)

Reading(args, at, e, w) ==
  \/ \E i \in 1 .. Len(args) + 1 : BeforeText(args, at, w, i)
  \/ \E i \in 1 .. Len(args) : AtText(args, at, w, i)
  \/ \E i \in 1 .. Len(args) : \E k \in 1 .. Len(args[i]) + 1 : InText(args, at, e, w, i, k)
  \/ w.next = "end" /\ w.vector = args

\* A turn goes on in the line, or it is the last.
Turned(w) == 2 * w.p + (IF w.next = "none" THEN 1 ELSE 0)

Further(w, v) == v.next = "end" \/ Turned(v) > Turned(w)

LEMMA LinedIs ==
  ASSUME NEW line \in Seq(0 .. 255), NEW args \in Seq(Seq(0 .. 255)), NEW at, NEW e,
         Lined(line, args, at, e)
  PROVE  /\ Len(args) \in Nat /\ Len(line) \in Nat
         /\ \A i \in 0 .. Len(args) : at[i] \in Nat /\ at[i] <= Len(line)
         /\ at[0] = 0 /\ at[Len(args)] = Len(line)
<1>1. Len(args) \in Nat /\ Len(line) \in Nat
  OBVIOUS
<1>2. /\ at \in [0 .. Len(args) -> Nat] /\ at[0] = 0 /\ at[Len(args)] = Len(line)
      /\ \A i \in 1 .. Len(args) : at[i] <= Len(line)
  BY DEF Lined
<1>3. ASSUME NEW i \in 0 .. Len(args) PROVE at[i] \in Nat /\ at[i] <= Len(line)
  <2>1. i = 0 \/ i \in 1 .. Len(args)
    BY <1>1
  <2>2. at[i] \in Nat
    BY <1>2
  <2> QED BY <1>1, <1>2, <2>1, <2>2
<1> QED BY <1>1, <1>2, <1>3

\* What stands where of text i.
LEMMA TextIs ==
  ASSUME NEW line \in Seq(0 .. 255), NEW args \in Seq(Seq(0 .. 255)), NEW at, NEW e,
         Lined(line, args, at, e), NEW i \in 1 .. Len(args)
  PROVE  /\ at[i - 1] \in Nat /\ at[i] \in Nat /\ args[i] \in Seq(0 .. 255)
         /\ Len(args[i]) \in Nat /\ e[i] \in [0 .. Len(args[i]) -> Nat] /\ e[i][0] = 0
         /\ e[i][Len(args[i])] \in Nat
         /\ Block(line, at[i - 1] + 1, args[i], e[i])
         /\ at[i] = IF i = Len(args) THEN (at[i - 1] + 1) + e[i][Len(args[i])] + 1
                    ELSE ((at[i - 1] + 1) + e[i][Len(args[i])] + 1) + 1
         /\ i < Len(args) => line[at[i]] = 32
<1>1. i - 1 \in 0 .. Len(args) /\ i \in 0 .. Len(args)
  OBVIOUS
<1>2. at[i - 1] \in Nat /\ at[i] \in Nat
  BY <1>1, LinedIs
<1>3. args[i] \in Seq(0 .. 255)
  BY ElementOfSeq
<1>4. /\ Block(line, at[i - 1] + 1, args[i], e[i])
      /\ at[i] = IF i = Len(args) THEN (at[i - 1] + 1) + e[i][Len(args[i])] + 1
                 ELSE ((at[i - 1] + 1) + e[i][Len(args[i])] + 1) + 1
      /\ i < Len(args) => line[at[i]] = 32
  BY DEF Lined
<1>5. e[i] \in [0 .. Len(args[i]) -> Nat] /\ e[i][0] = 0
  BY <1>4 DEF Block
<1>6. Len(args[i]) \in Nat
  BY <1>3
<1>7. e[i][Len(args[i])] \in Nat
  <2>1. Len(args[i]) \in 0 .. Len(args[i])
    BY <1>6
  <2> QED BY <1>5, <2>1
<1> QED BY <1>2, <1>3, <1>4, <1>5, <1>6, <1>7

LEMMA BlanksTurn ==
  ASSUME NEW line \in Seq(0 .. 255), NEW args \in Seq(Seq(0 .. 255)), NEW at, NEW e,
         Lined(line, args, at, e), NEW w \in ReadState,
         NEW i \in 1 .. Len(args) + 1, BeforeText(args, at, w, i)
  PROVE  Reading(args, at, e, ArgsTurn(line, w)) /\ Further(w, ArgsTurn(line, w))
<1> DEFINE v == ArgsTurn(line, w)
           m == Len(args)
<1>1. /\ m \in Nat /\ Len(line) \in Nat /\ at[0] = 0 /\ at[m] = Len(line)
      /\ \A n \in 0 .. m : at[n] \in Nat /\ at[n] <= Len(line)
  BY LinedIs
<1>2. w.p \in Nat \ {0}
  BY DEF ReadState
<1> HIDE DEF m
<1>3. i - 1 \in 0 .. m /\ at[i - 1] \in Nat /\ i \in Nat
  BY <1>1 DEF m
<1>4. /\ w.next = "blanks" /\ w.vector = SubSeq(args, 1, i - 1)
      /\ w.p = at[i - 1] + 1 \/ (i > 1 /\ i <= m /\ w.p = at[i - 1])
  BY DEF BeforeText, m
<1>5. CASE i > 1 /\ i <= m /\ w.p = at[i - 1]
  <2>1. i - 1 \in 1 .. Len(args) /\ i - 1 < Len(args)
    BY <1>1, <1>3, <1>5 DEF m
  <2>2. line[at[i - 1]] = 32
    BY <2>1 DEF Lined
  <2>3. At(line, w.p) = 32 /\ isspace(32)
    BY <1>1, <1>3, <1>5, <2>2 DEF At, isspace
  <2>3a. w.next = "blanks" /\ isspace(At(line, w.p))
    BY <1>4, <2>3
  <2>4. v = [w EXCEPT !.p = @ + 1]
    BY <2>3a, TurnIs
  <2> HIDE DEF v
  <2>5. v.p = at[i - 1] + 1 /\ v.next = "blanks" /\ v.vector = w.vector
    BY <1>4, <1>5, <2>4 DEF ReadState
  <2>6. BeforeText(args, at, v, i)
    BY <1>4, <2>5 DEF BeforeText
  <2>7. Turned(v) > Turned(w)
    BY <1>2, <1>3, <1>4, <1>5, <2>5 DEF Turned
  <2> QED BY <2>6, <2>7 DEF v, Reading, Further
<1>6. CASE w.p = at[i - 1] + 1 /\ i <= m
  <2>1. i \in 1 .. Len(args)
    BY <1>3, <1>6 DEF m
  <2>2. Block(line, at[i - 1] + 1, args[i], e[i]) /\ e[i][Len(args[i])] \in Nat
    BY <2>1, TextIs
  <2>3. line[w.p] = Quote /\ w.p <= Len(line)
    BY <1>1, <1>3, <1>6, <2>2, SMTT(30) DEF Block
  <2>4. At(line, w.p) # 0 /\ ~isspace(At(line, w.p))
    BY <2>3 DEF At, isspace, Quote
  <2>5. v = [w EXCEPT !.next = "none", !.current = <<>>]
    BY <1>4, <2>4, TurnIs
  <2> HIDE DEF v
  <2>6. v.p = w.p /\ v.next = "none" /\ v.current = <<>> /\ v.vector = w.vector
    BY <2>5 DEF ReadState
  <2>7. AtText(args, at, v, i)
    BY <1>4, <1>6, <2>6 DEF AtText
  <2>8. Turned(v) > Turned(w)
    BY <1>2, <1>4, <2>6 DEF Turned
  <2> QED BY <2>1, <2>7, <2>8 DEF v, Reading, Further
<1>7. CASE w.p = at[i - 1] + 1 /\ ~(i <= m)
  <2>1. i = m + 1 /\ i - 1 = m
    BY <1>1, <1>3, <1>7 DEF m
  <2>2. At(line, w.p) = 0
    BY <1>1, <1>7, <2>1 DEF At
  <2>3. v = [w EXCEPT !.next = "end"]
    BY <1>4, <2>2, TurnIs, ZenonT(60)
  <2> HIDE DEF v
  <2>4. v.next = "end" /\ v.vector = w.vector
    BY <2>3 DEF ReadState
  <2>5. SubSeq(args, 1, m) = args
    BY SubSeqFull DEF m
  <2> QED BY <1>4, <2>1, <2>4, <2>5 DEF v, Reading, Further
<1> QED BY <1>4, <1>5, <1>6, <1>7

LEMMA QuoteTurn ==
  ASSUME NEW line \in Seq(0 .. 255), NEW args \in Seq(Seq(0 .. 255)), NEW at, NEW e,
         Lined(line, args, at, e), NEW w \in ReadState,
         NEW i \in 1 .. Len(args), AtText(args, at, w, i)
  PROVE  Reading(args, at, e, ArgsTurn(line, w)) /\ Further(w, ArgsTurn(line, w))
<1> DEFINE v == ArgsTurn(line, w)
           r == InToken(line, w.p, w.next)
<1>1. /\ at[i - 1] \in Nat /\ Len(args[i]) \in Nat /\ e[i][0] = 0
      /\ Block(line, at[i - 1] + 1, args[i], e[i]) /\ e[i][Len(args[i])] \in Nat
  BY TextIs
<1>2. /\ w.next = "none" /\ w.vector = SubSeq(args, 1, i - 1)
      /\ w.p = at[i - 1] + 1 /\ w.current = <<>>
  BY DEF AtText
<1>3. Len(line) \in Nat
  OBVIOUS
<1>4. At(line, w.p) = Quote
  <2> DEFINE a == at[i - 1]
             d == e[i][Len(args[i])]
  <2>1. /\ a \in Nat /\ d \in Nat /\ w.p = a + 1
        /\ (a + 1) + d + 1 <= Len(line) /\ line[a + 1] = Quote
    BY <1>1, <1>2 DEF Block
  <2> HIDE DEF a, d
  <2>2. w.p <= Len(line)
    BY <1>3, <2>1
  <2> QED BY <2>1, <2>2 DEF At
<1>5. r = Reads(1, <<>>, "double")
  BY <1>2, <1>4 DEF InToken, NoQuotes, Quote, Apostrophe
<1>6. r.n = 1 /\ r.bytes = <<>> /\ r.next = "double"
  BY <1>5 DEF Reads
<1>7. v = [p |-> w.p + r.n, next |-> r.next, current |-> w.current \o r.bytes,
           vector |-> IF r.next = "blanks" THEN Append(w.vector, w.current) ELSE w.vector]
  BY <1>2, TurnIs
<1>8. <<>> \o <<>> = <<>>
  OBVIOUS
<1> HIDE DEF v, r
<1>9. v.p = w.p + 1 /\ v.next = "double" /\ v.current = <<>> /\ v.vector = w.vector
  BY <1>2, <1>6, <1>7, <1>8
<1>10. SubSeq(args[i], 1, 1 - 1) = <<>>
  <2>1. 1 - 1 \in Int /\ 1 \in Int /\ 1 - 1 < 1
    OBVIOUS
  <2> QED BY <2>1, SubSeqEmpty
<1>11. InText(args, at, e, v, i, 1)
  <2>1. v.p = (at[i - 1] + 1) + e[i][1 - 1] + 1
    BY <1>1, <1>2, <1>9
  <2> QED BY <1>2, <1>9, <1>10, <2>1 DEF InText
<1>12. 1 \in 1 .. Len(args[i]) + 1
  BY <1>1
<1>13. Turned(v) > Turned(w)
  BY <1>1, <1>2, <1>9, SMTT(30) DEF Turned
<1> QED BY <1>11, <1>12, <1>13 DEF v, Reading, Further

LEMMA EscapedLen ==
  ASSUME NEW b \in 0 .. 255 PROVE Len(Escaped(b)) \in Nat /\ Len(Escaped(b)) >= 1
<1> DEFINE k == 120
<1>1. \/ Escaped(b) = <<Backslash, b>>
      \/ Escaped(b) = <<Backslash, Letter[b]>>
      \/ Escaped(b) = <<b>>
      \/ Escaped(b) = <<Backslash, k, High(b), Low(b)>>
  BY EscapedIs
<1> HIDE DEF k
<1>2. /\ Len(<<Backslash, b>>) = 2 /\ Len(<<Backslash, Letter[b]>>) = 2 /\ Len(<<b>>) = 1
      /\ Len(<<Backslash, k, High(b), Low(b)>>) = 4
  OBVIOUS
<1> QED BY <1>1, <1>2

LEMMA ByteTurn ==
  ASSUME NEW line \in Seq(0 .. 255), NEW args \in Seq(Seq(0 .. 255)), NEW at, NEW e,
         Lined(line, args, at, e), NEW w \in ReadState,
         NEW i \in 1 .. Len(args), NEW k \in 1 .. Len(args[i]), InText(args, at, e, w, i, k)
  PROVE  Reading(args, at, e, ArgsTurn(line, w)) /\ Further(w, ArgsTurn(line, w))
<1> DEFINE v == ArgsTurn(line, w)
           r == InToken(line, w.p, w.next)
           u == args[i]
           b == u[k]
           f == e[i]
<1>1. /\ at[i - 1] \in Nat /\ u \in Seq(0 .. 255) /\ Len(u) \in Nat /\ f \in [0 .. Len(u) -> Nat]
      /\ Block(line, at[i - 1] + 1, u, f)
  BY TextIs
<1>2. b \in 0 .. 255 /\ k \in 1 .. Len(u)
  BY <1>1, ElementOfSeq
<1>3. /\ w.next = "double" /\ w.vector = SubSeq(args, 1, i - 1)
      /\ w.p = (at[i - 1] + 1) + f[k - 1] + 1 /\ w.current = SubSeq(u, 1, k - 1)
  BY DEF InText
<1> HIDE DEF u, b, f, v, r
<1>4. f[k - 1] \in Nat /\ f[k] \in Nat
  <2>1. k - 1 \in 0 .. Len(u) /\ k \in 0 .. Len(u)
    BY <1>1, <1>2
  <2> QED BY <1>1, <2>1
<1>5. f[k] = f[k - 1] + Len(Escaped(b)) /\ Written(line, (at[i - 1] + 1) + f[k - 1] + 1, Escaped(b))
  BY <1>1, <1>2 DEF Block, b
<1>6. w.p \in Nat \ {0}
  BY DEF ReadState
<1>7. InQuotes(line, w.p) = Reads(Len(Escaped(b)), <<b>>, "double")
  BY <1>2, <1>3, <1>5, <1>6, ByteIsRead
<1>8. r.n = Len(Escaped(b)) /\ r.bytes = <<b>> /\ r.next = "double"
  BY <1>3, <1>7 DEF r, InToken, Reads
<1>9. v = [p |-> w.p + r.n, next |-> r.next, current |-> w.current \o r.bytes,
           vector |-> IF r.next = "blanks" THEN Append(w.vector, w.current) ELSE w.vector]
  BY <1>3, TurnIs DEF v, r
<1>10. v.p = w.p + Len(Escaped(b)) /\ v.next = "double" /\ v.current = w.current \o <<b>>
       /\ v.vector = w.vector
  BY <1>8, <1>9
<1>11. Len(Escaped(b)) \in Nat /\ Len(Escaped(b)) >= 1
  BY <1>2, EscapedLen
<1>12. SubSeq(u, 1, k - 1) \o <<b>> = SubSeq(u, 1, k)
  <2>1. 1 \in 1 .. Len(u) /\ k \in 1 .. Len(u)
    BY <1>1, <1>2
  <2> QED BY <1>1, <2>1, SubSeqRecursiveSecond DEF b
<1>13. InText(args, at, e, v, i, k + 1)
  <2>1. (k + 1) - 1 = k /\ v.p = (at[i - 1] + 1) + f[k] + 1
    <3> DEFINE a == at[i - 1]
               c == f[k - 1]
               x == Len(Escaped(b))
    <3>1. /\ a \in Nat /\ c \in Nat /\ x \in Nat /\ f[k] = c + x
          /\ w.p = (a + 1) + c + 1 /\ v.p = w.p + x
      BY <1>1, <1>3, <1>4, <1>5, <1>10, <1>11
    <3> HIDE DEF a, c, x
    <3>2. v.p = (a + 1) + f[k] + 1
      BY <3>1
    <3>3. (k + 1) - 1 = k
      BY <1>1, <1>2
    <3> QED BY <3>2, <3>3 DEF a
  <2>2. v.current = SubSeq(u, 1, k)
    BY <1>3, <1>10, <1>12
  <2> QED BY <1>3, <1>10, <2>1, <2>2 DEF InText, u, f
<1>14. k + 1 \in 1 .. Len(args[i]) + 1
  BY <1>1, <1>2 DEF u
<1>15. Turned(v) > Turned(w)
  BY <1>3, <1>6, <1>10, <1>11 DEF Turned
<1> QED BY <1>13, <1>14, <1>15 DEF v, Reading, Further

LEMMA CloseTurn ==
  ASSUME NEW line \in Seq(0 .. 255), NEW args \in Seq(Seq(0 .. 255)), NEW at, NEW e,
         Lined(line, args, at, e), NEW w \in ReadState,
         NEW i \in 1 .. Len(args), InText(args, at, e, w, i, Len(args[i]) + 1)
  PROVE  Reading(args, at, e, ArgsTurn(line, w)) /\ Further(w, ArgsTurn(line, w))
<1> DEFINE v == ArgsTurn(line, w)
           r == InToken(line, w.p, w.next)
           u == args[i]
           m == Len(args)
           n == Len(u)
           d == e[i][n]
           a == at[i - 1]
<1>1. /\ a \in Nat /\ at[i] \in Nat /\ u \in Seq(0 .. 255) /\ n \in Nat /\ d \in Nat
      /\ Block(line, a + 1, u, e[i])
      /\ at[i] = IF i = m THEN (a + 1) + d + 1 ELSE ((a + 1) + d + 1) + 1
      /\ i < m => line[at[i]] = 32
  BY TextIs
<1>2. /\ m \in Nat /\ Len(line) \in Nat /\ at[m] = Len(line) /\ at[i] <= Len(line)
  <2>1. i \in 0 .. Len(args)
    OBVIOUS
  <2> QED BY <2>1, LinedIs
<1>3. /\ w.next = "double" /\ w.vector = SubSeq(args, 1, i - 1)
      /\ w.p = (a + 1) + e[i][(n + 1) - 1] + 1 /\ w.current = SubSeq(u, 1, (n + 1) - 1)
  BY DEF InText
<1>4. i \in 1 .. m
  OBVIOUS
<1>5. line[(a + 1) + d + 1] = Quote
  BY <1>1 DEF Block
<1> HIDE DEF v, r, u, m, n, d, a
<1>6. (n + 1) - 1 = n
  BY <1>1
<1>7. w.p = (a + 1) + d + 1 /\ w.current = u
  <2>1. SubSeq(u, 1, n) = u
    BY <1>1, SubSeqFull DEF n
  <2> QED BY <1>3, <1>6, <2>1 DEF d
<1>8. At(line, w.p) = Quote
  <2>1. w.p <= Len(line)
    BY <1>1, <1>2, <1>7
  <2> QED BY <1>5, <1>7, <2>1 DEF At
<1>9. At(line, w.p + 1) = 0 \/ isspace(At(line, w.p + 1))
  <2>1. CASE i = m
    <3>1. ~(w.p + 1 <= Len(line))
      BY <1>1, <1>2, <1>7, <2>1
    <3> QED BY <3>1 DEF At
  <2>2. CASE i # m
    <3>1. i < m /\ w.p + 1 = at[i]
      BY <1>1, <1>2, <1>4, <1>7, <2>2
    <3>2. At(line, w.p + 1) = 32
      BY <1>1, <1>2, <3>1 DEF At
    <3> QED BY <3>2 DEF isspace
  <2> QED BY <2>1, <2>2
<1>10. r = Reads(1, <<>>, "blanks")
  <2>1. ClosingQuote(line, w.p) = Reads(1, <<>>, "blanks")
    BY <1>9 DEF ClosingQuote
  <2>2. ~HexEscape(line, w.p) /\ At(line, w.p) # Backslash
    BY <1>8 DEF HexEscape, Quote, Backslash
  <2> QED BY <1>3, <1>8, <2>1, <2>2 DEF r, InToken, InQuotes
<1>11. r.n = 1 /\ r.next = "blanks"
  BY <1>10, SMTT(30) DEF Reads
<1>12. v = [p |-> w.p + r.n, next |-> r.next, current |-> w.current \o r.bytes,
            vector |-> IF r.next = "blanks" THEN Append(w.vector, w.current) ELSE w.vector]
  BY <1>3, TurnIs DEF v, r
<1>13. v.p = w.p + 1 /\ v.next = "blanks" /\ v.vector = Append(w.vector, u)
  BY <1>7, <1>11, <1>12
<1>14. v.vector = SubSeq(args, 1, i)
  <2>1. args \in Seq(Seq(0 .. 255)) /\ 1 \in 1 .. Len(args) /\ i \in 1 .. Len(args)
    BY <1>2, <1>4 DEF m
  <2>2. SubSeq(args, 1, i) = SubSeq(args, 1, i - 1) \o <<args[i]>>
    BY <2>1, SubSeqRecursiveSecond
  <2> DEFINE x == SubSeq(args, 1, i - 1)
  <2>3. x \in Seq(Seq(0 .. 255))
    <3>1. \A j \in 1 .. i - 1 : args[j] \in Seq(0 .. 255)
      <4>1. \A j \in 1 .. i - 1 : j \in 1 .. Len(args)
        BY <1>2, <1>4 DEF m
      <4> QED BY <4>1, ElementOfSeq
    <3>2. 1 \in Int /\ i - 1 \in Int
      BY <1>4
    <3> QED BY <3>1, <3>2, SubSeqProperties
  <2> HIDE DEF x
  <2>4. Append(x, u) = x \o <<u>>
    BY <1>1, <2>3, AppendIsConcat
  <2> QED BY <1>3, <1>13, <2>2, <2>4 DEF x, u
<1>15. BeforeText(args, at, v, i + 1)
  <2>1. (i + 1) - 1 = i /\ i + 1 > 1
    BY <1>4
  <2>2. v.p = at[i] + 1 \/ (i + 1 <= m /\ v.p = at[i])
    BY <1>1, <1>2, <1>4, <1>7, <1>13
  <2> QED BY <1>13, <1>14, <2>1, <2>2 DEF BeforeText, m
<1>16. i + 1 \in 1 .. Len(args) + 1
  BY <1>2, <1>4 DEF m
<1>17. Turned(v) > Turned(w)
  BY <1>1, <1>3, <1>7, <1>13 DEF Turned
<1> QED BY <1>15, <1>16, <1>17 DEF v, Reading, Further

LEMMA ReadingTurn ==
  ASSUME NEW line \in Seq(0 .. 255), NEW args \in Seq(Seq(0 .. 255)), NEW at, NEW e,
         Lined(line, args, at, e), NEW w \in ReadState, Reading(args, at, e, w)
  PROVE  Reading(args, at, e, ArgsTurn(line, w)) /\ Further(w, ArgsTurn(line, w))
<1>1. ASSUME NEW i \in 1 .. Len(args) + 1, BeforeText(args, at, w, i)
      PROVE  Reading(args, at, e, ArgsTurn(line, w)) /\ Further(w, ArgsTurn(line, w))
  BY <1>1, BlanksTurn
<1>2. ASSUME NEW i \in 1 .. Len(args), AtText(args, at, w, i)
      PROVE  Reading(args, at, e, ArgsTurn(line, w)) /\ Further(w, ArgsTurn(line, w))
  BY <1>2, QuoteTurn
<1>3. ASSUME NEW i \in 1 .. Len(args), NEW k \in 1 .. Len(args[i]) + 1, InText(args, at, e, w, i, k)
      PROVE  Reading(args, at, e, ArgsTurn(line, w)) /\ Further(w, ArgsTurn(line, w))
  <2>1. Len(args[i]) \in Nat
    BY TextIs
  <2>2. CASE k = Len(args[i]) + 1
    BY <1>3, <2>2, CloseTurn
  <2>3. CASE k # Len(args[i]) + 1
    <3>1. k \in 1 .. Len(args[i])
      BY <2>1, <2>3
    <3> QED BY <1>3, <3>1, ByteTurn
  <2> QED BY <2>2, <2>3
<1>4. CASE w.next = "end" /\ w.vector = args
  <2>1. ArgsTurn(line, w) = w
    BY <1>4, TurnIs
  <2> QED BY <1>4, <2>1 DEF Reading, Further
<1> QED BY <1>1, <1>2, <1>3, <1>4 DEF Reading

\* The loop of sdssplitargs.
ArgsBegin == [p |-> 1, next |-> "blanks", current |-> <<>>, vector |-> <<>>]

ArgsTurns(line) ==
  LET turns[n \in 0 .. 2 * Len(line) + 2] ==
        IF n = 0 THEN [p |-> 1, next |-> "blanks", current |-> <<>>, vector |-> <<>>]
        ELSE ArgsTurn(line, turns[n - 1])
  IN  turns

ArgsLast(line) == ArgsTurns(line)[2 * Len(line) + 2]

LEMMA SplitArgsIs ==
  ASSUME NEW line
  PROVE  sdssplitargs(line) = IF ArgsLast(line).next = "end" THEN {ArgsLast(line).vector} ELSE {}
BY DEF sdssplitargs, ArgsLast, ArgsTurns

\* What every turn keeps holds after the last.
LEMMA ArgsLoop ==
  ASSUME NEW line, Len(line) \in Nat, NEW R, ArgsBegin \in R[0],
         \A n \in 1 .. 2 * Len(line) + 2 : \A w \in R[n - 1] : ArgsTurn(line, w) \in R[n]
  PROVE  ArgsLast(line) \in R[2 * Len(line) + 2]
<1> DEFINE N     == 2 * Len(line) + 2
           G     == [n \in 1 .. N |-> [w \in R[n - 1] |-> ArgsTurn(line, w)]]
           turns == ArgsTurns(line)
<1>1. N \in Nat
  OBVIOUS
<1>2. \A n \in 1 .. N : n - 1 \in 0 .. N /\ n \in 0 .. N
  BY <1>1
<1>3. \A n \in 1 .. N : \A w \in R[n - 1] : ArgsTurn(line, w) \in R[n]
  OBVIOUS
<1> HIDE DEF N
<1>4. \A n \in 1 .. N : \A w \in R[n - 1] : G[n][w] = ArgsTurn(line, w) /\ G[n][w] \in R[n]
  BY <1>3
<1> HIDE DEF G
<1>5. PICK f : Runs(f, N, ArgsBegin, G, R)
  BY <1>1, <1>4, Recursion
<1>6. /\ f = [n \in 0 .. N |-> f[n]] /\ f[0] = ArgsBegin
      /\ \A n \in 1 .. N : f[n] = ArgsTurn(line, f[n - 1])
      /\ \A n \in 0 .. N : f[n] \in R[n]
  BY <1>2, <1>4, <1>5 DEF Runs
<1>7. f = [n \in 0 .. N |-> IF n = 0 THEN ArgsBegin ELSE ArgsTurn(line, f[n - 1])]
  <2>1. \A n \in 0 .. N : n = 0 \/ n \in 1 .. N
    BY <1>1
  <2> QED BY <1>6, <2>1
<1>8. turns = [n \in 0 .. N |-> IF n = 0 THEN ArgsBegin ELSE ArgsTurn(line, turns[n - 1])]
  BY <1>7 DEF ArgsTurns, ArgsBegin, N
<1> HIDE DEF turns
<1>9. turns[0] = f[0] /\ \A n \in 1 .. N : turns[n - 1] = f[n - 1] => turns[n] = f[n]
  <2>1. 0 \in 0 .. N /\ \A n \in 1 .. N : n \in 0 .. N /\ n # 0
    BY <1>1
  <2> QED BY <1>6, <1>8, <2>1
<1>10. turns[N] \in R[N]
  <2>1. Alike(turns, f, N)
    BY <1>1, <1>9, Agree
  <2>2. N \in 0 .. N
    BY <1>1
  <2> QED BY <1>6, <2>1, <2>2 DEF Alike
<1> QED BY <1>10 DEF turns, N, ArgsLast

LEMMA BeginType == ArgsBegin \in ReadState
<1>1. "blanks" \in Nexts
  BY DEF Nexts
<1> QED BY <1>1 DEF ArgsBegin, ReadState

\* A line of quoted texts is read as these texts.
LEMMA QuotedAreRead ==
  ASSUME NEW args \in Seq(Seq(0 .. 255))
  PROVE  sdssplitargs(Reprs(args)) = {args}
<1> DEFINE line == Reprs(args)
           N    == 2 * Len(line) + 2
<1>1. line \in Seq(0 .. 255) /\ \E at, e : Lined(line, args, at, e)
  BY ReprsAre
<1> HIDE DEF line
<1>2. PICK at, e : Lined(line, args, at, e)
  BY <1>1
<1>3. /\ Len(args) \in Nat /\ Len(line) \in Nat /\ at[0] = 0 /\ at[Len(args)] = Len(line)
      /\ \A i \in 0 .. Len(args) : at[i] \in Nat /\ at[i] <= Len(line)
  BY <1>1, <1>2, LinedIs
<1> DEFINE H(n) == {w \in ReadState : Reading(args, at, e, w) /\ (w.next = "end" \/ Turned(w) >= n + 2)}
           R    == [n \in 0 .. N |-> H(n)]
<1>4. ArgsBegin \in H(0)
  <2> DEFINE w == ArgsBegin
  <2>1. w.p = 1 /\ w.next = "blanks" /\ w.vector = <<>>
    BY DEF ArgsBegin
  <2>2. SubSeq(args, 1, 1 - 1) = <<>>
    <3>1. 1 - 1 \in Int /\ 1 \in Int /\ 1 - 1 < 1
      OBVIOUS
    <3> QED BY <3>1, SubSeqEmpty
  <2> HIDE DEF w
  <2>3. at[1 - 1] + 1 = 1
    BY <1>3
  <2>4. BeforeText(args, at, w, 1)
    BY <2>1, <2>2, <2>3 DEF BeforeText
  <2>5. 1 \in 1 .. Len(args) + 1
    BY <1>3
  <2>6. Turned(w) >= 0 + 2
    BY <2>1 DEF Turned
  <2>7. Reading(args, at, e, w)
    BY <2>4, <2>5 DEF Reading
  <2> QED BY <2>6, <2>7, BeginType DEF w
<1>5. ASSUME NEW n \in 1 .. N, NEW w \in H(n - 1) PROVE ArgsTurn(line, w) \in H(n)
  <2> DEFINE v == ArgsTurn(line, w)
  <2>1. w \in ReadState /\ Reading(args, at, e, w) /\ (w.next = "end" \/ Turned(w) >= (n - 1) + 2)
    OBVIOUS
  <2>2. Reading(args, at, e, v) /\ Further(w, v)
    BY <1>1, <1>2, <2>1, ReadingTurn
  <2>3. v \in ReadState
    BY <1>1, <2>1, TurnType
  <2>4. w.next = "end" => v.next = "end"
    BY <2>1, TurnIs
  <2> HIDE DEF v
  <2>5. Turned(v) \in Nat /\ Turned(w) \in Nat
    BY <2>1, <2>3, SMTT(30) DEF Turned, ReadState
  <2>6. v.next = "end" \/ Turned(v) >= n + 2
    BY <2>1, <2>2, <2>4, <2>5 DEF Further
  <2> QED BY <2>2, <2>3, <2>6 DEF v
<1>6. N \in Nat
  BY <1>3
<1> HIDE DEF H
<1>7. /\ \A n \in 0 .. N : R[n] = H(n)
      /\ \A n \in 1 .. N : n - 1 \in 0 .. N /\ n \in 0 .. N
      /\ 0 \in 0 .. N /\ N \in 0 .. N
  BY <1>6
<1> HIDE DEF R
<1>8. ArgsLast(line) \in H(N)
  <2>1. ArgsBegin \in R[0]
    BY <1>4, <1>7
  <2>2. \A n \in 1 .. 2 * Len(line) + 2 : \A w \in R[n - 1] : ArgsTurn(line, w) \in R[n]
    BY <1>5, <1>7
  <2>3. ArgsLast(line) \in R[2 * Len(line) + 2]
    BY <1>3, <2>1, <2>2, ArgsLoop
  <2> QED BY <1>7, <2>3
<1> DEFINE w == ArgsLast(line)
<1> HIDE DEF w
<1>9. w \in ReadState /\ Reading(args, at, e, w) /\ (w.next = "end" \/ Turned(w) >= N + 2)
  BY <1>8 DEF H, w
<1>10. w.next = "end" \/ Turned(w) <= 2 * Len(line) + 3
  <2>1. ASSUME NEW i \in 1 .. Len(args) + 1, BeforeText(args, at, w, i)
        PROVE  Turned(w) <= 2 * Len(line) + 3
    <3>1. at[i - 1] \in Nat /\ at[i - 1] <= Len(line)
      <4>1. i - 1 \in 0 .. Len(args)
        BY <1>3
      <4> QED BY <1>3, <4>1
    <3>2. w.next = "blanks" /\ (w.p = at[i - 1] + 1 \/ w.p = at[i - 1])
      BY <2>1 DEF BeforeText
    <3> QED BY <1>3, <3>1, <3>2 DEF Turned
  <2>2. ASSUME NEW i \in 1 .. Len(args), AtText(args, at, w, i)
        PROVE  Turned(w) <= 2 * Len(line) + 3
    <3>1. at[i - 1] \in Nat /\ at[i - 1] <= Len(line)
      <4>1. i - 1 \in 0 .. Len(args)
        BY <1>3
      <4> QED BY <1>3, <4>1
    <3>2. w.next = "none" /\ w.p = at[i - 1] + 1
      BY <2>2 DEF AtText
    <3> QED BY <1>3, <3>1, <3>2 DEF Turned
  <2>3. ASSUME NEW i \in 1 .. Len(args), NEW k \in 1 .. Len(args[i]) + 1,
               InText(args, at, e, w, i, k)
        PROVE  Turned(w) <= 2 * Len(line) + 3
    <3> DEFINE u == args[i]
               f == e[i]
               a == at[i - 1]
    <3>1. a \in Nat /\ u \in Seq(0 .. 255) /\ Len(u) \in Nat /\ Block(line, a + 1, u, f)
          /\ f \in [0 .. Len(u) -> Nat] /\ f[Len(u)] \in Nat
      BY <1>1, <1>2, TextIs, SMTT(30)
    <3>2. w.next = "double" /\ w.p = (a + 1) + f[k - 1] + 1
      BY <2>3 DEF InText
    <3>3. k \in 1 .. Len(u) + 1
      OBVIOUS
    <3> HIDE DEF u, f, a
    <3>4. f[k - 1] \in Nat /\ (a + 1) + f[k - 1] + 1 <= Len(line)
      <4>1. CASE k = Len(u) + 1
        <5>1. k - 1 = Len(u)
          BY <3>1, <4>1
        <5> QED BY <3>1, <5>1 DEF Block
      <4>2. CASE k # Len(u) + 1
        <5>1. k \in 1 .. Len(u) /\ k - 1 \in 0 .. Len(u)
          <6> DEFINE n == Len(u)
          <6>1. n \in Nat /\ k \in 1 .. n + 1 /\ k # n + 1
            BY <3>1, <3>3, <4>2
          <6> HIDE DEF n
          <6>2. k \in 1 .. n /\ k - 1 \in 0 .. n
            BY <6>1
          <6> QED BY <6>2 DEF n
        <5>2. Written(line, (a + 1) + f[k - 1] + 1, Escaped(u[k]))
          BY <3>1, <5>1 DEF Block
        <5>3. u[k] \in 0 .. 255
          BY <3>1, <5>1, ElementOfSeq
        <5>4. Len(Escaped(u[k])) \in Nat
          BY <5>3, EscapedLen
        <5>5. ((a + 1) + f[k - 1] + 1) + Len(Escaped(u[k])) <= Len(line)
          BY <5>2 DEF Written
        <5>6. f[k - 1] \in Nat
          BY <3>1, <5>1
        <5> DEFINE c == f[k - 1]
                   x == Len(Escaped(u[k]))
        <5> HIDE DEF c, x
        <5>7. c \in Nat /\ x \in Nat /\ ((a + 1) + c + 1) + x <= Len(line)
          BY <5>4, <5>5, <5>6 DEF c, x
        <5>8. (a + 1) + c + 1 <= Len(line)
          BY <1>3, <3>1, <5>7
        <5> QED BY <5>6, <5>8 DEF c
      <4> QED BY <4>1, <4>2
    <3> QED BY <1>3, <3>1, <3>2, <3>4, SMTT(30) DEF Turned
  <2> QED BY <1>9, <2>1, <2>2, <2>3 DEF Reading
<1>11. w.next = "end"
  <2>1. Turned(w) \in Nat
    BY <1>9 DEF Turned, ReadState
  <2>2. N + 2 = 2 * Len(line) + 4
    BY <1>3
  <2> QED BY <1>3, <1>9, <1>10, <2>1, <2>2
<1>12. w.vector = args
  BY <1>9, <1>11 DEF Reading, BeforeText, AtText, InText
<1> QED BY <1>11, <1>12, SplitArgsIs DEF w, line

\* What any line is accepted as is a row of texts.
LEMMA TokensAreTexts ==
  ASSUME NEW line \in Seq(0 .. 255), NEW args \in sdssplitargs(line)
  PROVE  args \in Seq(Seq(0 .. 255))
<1> DEFINE N == 2 * Len(line) + 2
           R == [n \in 0 .. N |-> ReadState]
<1>1. Len(line) \in Nat
  OBVIOUS
<1>2. N \in Nat
  BY <1>1
<1> HIDE DEF N
<1>3. \A n \in 0 .. N : R[n] = ReadState
  OBVIOUS
<1>4. 0 \in 0 .. N /\ N \in 0 .. N /\ \A n \in 1 .. N : n - 1 \in 0 .. N /\ n \in 0 .. N
  BY <1>2
<1> HIDE DEF R
<1>5. ArgsBegin \in R[0] /\ \A n \in 1 .. N : \A w \in R[n - 1] : ArgsTurn(line, w) \in R[n]
  BY <1>3, <1>4, BeginType, TurnType
<1>6. ArgsLast(line) \in R[2 * Len(line) + 2]
  BY <1>1, <1>5, ArgsLoop DEF N
<1>7. ArgsLast(line) \in ReadState
  BY <1>3, <1>4, <1>6 DEF N
<1>8. args = ArgsLast(line).vector
  BY SplitArgsIs
<1> QED BY <1>7, <1>8 DEF ReadState

\* What sdscatrepr writes of any texts, sdssplitargs reads back, and what it
\* accepts of any line reads back from its quoted form (sds.c:945-1081).
THEOREM ReprsReadBack == Spec => []ReprRoundTrip
<1>1. Argument \subseteq Seq(0 .. 255) /\ Line \subseteq Seq(0 .. 255)
  <2>1. Argument \subseteq Seq(0 .. 255) /\ Line \subseteq Seq(1 .. 255)
    BY TextAssumption
  <2>2. 1 .. 255 \subseteq 0 .. 255
    OBVIOUS
  <2>3. ASSUME NEW t \in Line PROVE t \in Seq(0 .. 255)
    <3>1. t \in Seq(1 .. 255)
      BY <2>1
    <3> QED BY ONLY <2>2, <3>1, SeqOfMore
  <2> QED BY <2>1, <2>3
<1>2. ReprIsRead
  <2> SUFFICES ASSUME NEW a \in Argument, NEW b \in Argument, NEW args \in {<<>>, <<a>>, <<a, b>>}
               PROVE  sdssplitargs(Reprs(args)) = {args}
    BY DEF ReprIsRead
  <2> DEFINE T == Seq(0 .. 255)
  <2>1. a \in T /\ b \in T
    BY <1>1
  <2> HIDE DEF T
  <2>2. <<>> \in Seq(T) /\ <<a>> \in Seq(T) /\ <<a, b>> \in Seq(T)
    BY <2>1
  <2>3. args \in Seq(T)
    BY <2>2
  <2> QED BY <2>3, QuotedAreRead DEF T
<1>3. LineIsRead
  <2> SUFFICES ASSUME NEW line \in Line, NEW args \in sdssplitargs(line)
               PROVE  sdssplitargs(Reprs(args)) = {args}
    BY DEF LineIsRead
  <2>1. line \in Seq(0 .. 255)
    BY <1>1
  <2>2. args \in Seq(Seq(0 .. 255))
    BY <2>1, TokensAreTexts
  <2> QED BY <2>2, QuotedAreRead
<1>4. SdsInv => ReprRoundTrip
  <2> SUFFICES ASSUME SdsInv PROVE sdssplitargs(sdscatrepr(<<>>, Value(s))) = {<<Value(s)>>}
    BY <1>2, <1>3 DEF ReprRoundTrip
  <2> DEFINE v    == Value(s)
             args == <<v>>
             T    == 0 .. 255
  <2>1. v \in Seq(Byte) /\ Byte \subseteq T
    BY TextAssumption, ValueIsText DEF SdsInv
  <2> HIDE DEF v, T
  <2>2. v \in Seq(T)
    BY ONLY <2>1, SeqOfMore
  <2>3. args \in Seq(Seq(T)) /\ Len(args) = 1 /\ args[1] = v /\ DOMAIN args = 1 .. 1
    BY <2>2
  <2> HIDE DEF args
  <2>4. sdssplitargs(Reprs(args)) = {args}
    BY <2>3, QuotedAreRead DEF T
  <2>5. Reprs(args) = sdscatrepr(<<>>, v)
    <3> DEFINE q    == sdscatrepr(<<>>, v)
               qs   == [i \in DOMAIN args |-> sdscatrepr(<<>>, args[i])]
               seqs == [i \in DOMAIN qs |-> IF i = Len(qs) THEN qs[i] ELSE qs[i] \o <<32>>]
    <3>1. q \in Seq(T)
      BY <2>2, QuotedIs DEF T, Quoted
    <3>2. Reprs(args) = FlattenSeq(seqs)
      BY DEF Reprs, sdsjoinsds, Joined
    <3>3. qs = [i \in 1 .. 1 |-> q]
      BY <2>3
    <3> HIDE DEF q, qs
    <3>4. qs = <<q>> /\ Len(qs) = 1 /\ DOMAIN qs = 1 .. 1 /\ qs[1] = q
      BY <3>3
    <3>5. seqs = <<q>>
      BY <3>4
    <3> HIDE DEF seqs
    <3>6. FlattenSeq(<<q>>) = q
      <4> DEFINE r == <<q>>
      <4>1. r \in Seq(Seq(T)) /\ r # <<>> /\ Len(r) = 1 /\ r[1] = q
        BY <3>1
      <4> HIDE DEF r
      <4>2. \E f : Flat(T, r, f, Len(r)) /\ FlattenSeq(r) = f[Len(r)]
        BY <4>1, FlattenIs
      <4>3. FlattenSeq(r) = r[1]
        BY <4>1, <4>2 DEF Flat
      <4> QED BY <4>1, <4>3 DEF r
    <3> QED BY <3>2, <3>5, <3>6 DEF q
  <2> QED BY <2>4, <2>5 DEF args, v
<1> QED BY <1>4, SdsInvariance, PTL
=============================================================================
