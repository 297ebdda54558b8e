-------------------------------- MODULE Sds --------------------------------
(***************************************************************************)
(* sds, the strings of the server's buffers: a header of one of five types *)
(* with a length and a capacity, and a block on the heap that always holds *)
(* a zero byte behind the string.  The operations are functions from       *)
(* string to string.  Type 5 has no field for the capacity.                *)
(*                                                                         *)
(* Header fields keep their width.  Lengths are far below 2^64, and        *)
(* allocations succeed.                                                    *)
(***************************************************************************)
EXTENDS Integers, Sequences

CONSTANTS Byte,         \* bytes of texts
          Text,         \* texts that are appended, copied or written
          Nul,          \* the zero byte
          Garbage,      \* a byte of fresh memory
          Below,        \* Below[k]: the first length a header of type k cannot hold
          MaxPrealloc,  \* SDS_MAX_PREALLOC
          MaxLen        \* bound: the longest string

Type == {5, 8, 16, 32, 64}

ASSUME SdsAssumption ==
  /\ Below \in [{5, 8, 16, 32} -> Nat \ {0}]
  /\ Below[5] < Below[8] /\ Below[8] < Below[16] /\ Below[16] < Below[32]
  /\ MaxPrealloc \in Nat \ {0}
  /\ Nul \in Byte /\ Garbage \notin Byte
  /\ Text \subseteq Seq(Byte)
  /\ MaxLen \in Nat

VARIABLE s    \* the string

\* block: bytes of the heap block behind the header; buf: what they hold.
\* A write behind the block makes buf longer than block.
SdsType == [type : Type, len : Nat, alloc : Nat, block : Nat, buf : Seq(Byte \cup {Garbage})]

-----------------------------------------------------------------------------
(* The header. *)

\* Mutant: a header that cannot hold its own limit is taken for it.
ReqTypeAtLimit(n) ==
  CASE n <= Below[5]  -> 5  [] n > Below[5]  /\ n <= Below[8]  -> 8
    [] n > Below[8]  /\ n <= Below[16] -> 16
    [] n > Below[16] /\ n <= Below[32] -> 32 [] OTHER -> 64

ReqType(n) ==
  CASE n < Below[5]  -> 5  [] n >= Below[5]  /\ n < Below[8]  -> 8
    [] n >= Below[8]  /\ n < Below[16] -> 16
    [] n >= Below[16] /\ n < Below[32] -> 32 [] OTHER -> 64

\* What a field of this header keeps of a number.
Field(type, n) == IF type = 64 THEN n ELSE n % Below[type]

SetLen(x, n)   == [x EXCEPT !.len = Field(x.type, n)]
SetAlloc(x, n) == IF x.type = 5 THEN x ELSE [x EXCEPT !.alloc = Field(x.type, n)]

Alloc(x) == IF x.type = 5 THEN x.len ELSE x.alloc
Avail(x) == IF x.type = 5 THEN 0 ELSE x.alloc - x.len

\* memcpy of t to x + at.
Store(x, at, t) ==
  LET end == IF at + Len(t) > Len(x.buf) THEN at + Len(t) ELSE Len(x.buf)
  IN  [x EXCEPT !.buf = [i \in 1 .. end |-> IF i \in at + 1 .. at + Len(t) THEN t[i - at]
                                            ELSE IF i <= Len(x.buf) THEN x.buf[i] ELSE Garbage]]

\* A string of n bytes, in a new block that keeps the first bytes of the old one.
Move(x, type, n, keep) ==
  [x EXCEPT !.type = type, !.alloc = 0, !.block = n + 1,
            !.buf = [i \in 1 .. n + 1 |-> IF i <= keep /\ i <= Len(x.buf) THEN x.buf[i]
                                          ELSE Garbage]]

-----------------------------------------------------------------------------
(* Growing and shrinking. *)

sdsnewlen(t) ==
  LET n    == Len(t)
      type == IF n = 0 THEN 8 ELSE ReqType(n)
  IN  [type |-> type, len |-> Field(type, n), alloc |-> IF type = 5 THEN 0 ELSE Field(type, n),
       block |-> n + 1, buf |-> Append(t, Nul)]

\* Mutant: no room for further appends.
NoPrealloc(n) == n

Prealloc(n) == IF n < MaxPrealloc THEN 2 * n ELSE n + MaxPrealloc

sdsMakeRoomFor(x, add) ==
  LET newlen == Prealloc(x.len + add)
      type   == IF ReqType(newlen) = 5 THEN 8 ELSE ReqType(newlen)
      keep   == IF type = x.type THEN Len(x.buf) ELSE x.len + 1
  IN  IF Avail(x) >= add THEN x
      ELSE SetAlloc(SetLen(Move(x, type, newlen, keep), x.len), newlen)

\* The header shrinks only to the two smallest types.
sdsRemoveFreeSpace(x) ==
  LET type == IF ReqType(x.len) > 8 THEN x.type ELSE ReqType(x.len)
  IN  IF Avail(x) = 0 THEN x
      ELSE SetAlloc(SetLen(Move(x, type, x.len, x.len + 1), x.len), x.len)

-----------------------------------------------------------------------------
(* Operations on the text. *)

Ended(x, n) == SetLen(Store(x, n, <<Nul>>), n)

sdsclear(x) == Ended(x, 0)

sdscatlen(x, t) ==
  LET n == x.len + Len(t)
  IN  Ended(Store(sdsMakeRoomFor(x, Len(t)), x.len, t), n)

sdscpylen(x, t) ==
  LET r == IF Alloc(x) < Len(t) THEN sdsMakeRoomFor(x, Len(t) - x.len) ELSE x
  IN  Ended(Store(r, 0, t), Len(t))

sdsgrowzero(x, n) ==
  IF n <= x.len THEN x
  ELSE Ended(Store(sdsMakeRoomFor(x, n - x.len), x.len, [i \in 1 .. n - x.len |-> Nul]), n)

\* The caller has written t behind the string, within its free space.
sdsIncrLen(x, t) == Ended(Store(x, x.len, t), x.len + Len(t))

\* sdsIncrLen with a negative increment: n bytes are cut off at the end.
sdsDecrLen(x, n) == Ended(x, x.len - n)

\* strlen finds the terminator of the string, or a zero byte in it.
sdsupdatelen(x) ==
  SetLen(x, CHOOSE n \in 0 .. Len(x.buf) - 1 :
              x.buf[n + 1] = Nul /\ \A k \in 0 .. n - 1 : x.buf[k + 1] # Nul)

\* The n bytes from offset start, moved to the front.
Cut(x, start, n) == Ended(Store(x, 0, SubSeq(x.buf, start + 1, start + n)), n)

\* Mutant: the interval may end one byte behind the string.
EndBehind(end, len) == IF end > len THEN len ELSE end

EndWithin(end, len) == IF end >= len THEN len - 1 ELSE end

FromLeft(i, len) == IF i >= 0 THEN i ELSE IF len + i < 0 THEN 0 ELSE len + i

sdsrange(x, first, last) ==
  LET start == FromLeft(first, x.len)
      end   == EndWithin(FromLeft(last, x.len), x.len)
  IN  IF x.len = 0 THEN x
      ELSE IF start > FromLeft(last, x.len) \/ start >= x.len THEN Cut(x, 0, 0)
      ELSE Cut(x, start, end - start + 1)

\* strchr finds every byte of cset, and the zero byte.
sdstrim(x, cset) ==
  LET kept == {i \in 1 .. x.len : x.buf[i] \notin cset \cup {Nul}}
      sp   == CHOOSE i \in kept : \A k \in kept : i <= k
      ep   == CHOOSE i \in kept : \A k \in kept : k <= i
  IN  IF kept = {} THEN Cut(x, 0, 0) ELSE Cut(x, sp - 1, ep - sp + 1)

-----------------------------------------------------------------------------
Room == MaxLen - s.len

Init == \E t \in Text : s = sdsnewlen(t)

Next ==
  \/ s' = sdsclear(s)
  \/ s' = sdsRemoveFreeSpace(s)
  \/ s' = sdsupdatelen(s)
  \/ \E n \in 0 .. Room : s' = sdsMakeRoomFor(s, n)
  \/ \E n \in 0 .. MaxLen : s' = sdsgrowzero(s, n)
  \/ \E t \in Text : Len(t) <= Room /\ s' = sdscatlen(s, t)
  \/ \E t \in Text : Len(t) <= MaxLen /\ s' = sdscpylen(s, t)
  \/ \E t \in Text : Len(t) \in 1 .. Avail(s) /\ s' = sdsIncrLen(s, t)
  \/ \E n \in 1 .. s.len : s' = sdsDecrLen(s, n)
  \/ \E first, last \in -(MaxLen + 1) .. MaxLen : s' = sdsrange(s, first, last)
  \/ \E cset \in SUBSET Byte : s' = sdstrim(s, cset)

Spec == Init /\ [][Next]_s

-----------------------------------------------------------------------------
(* Properties. *)

Value(x) == SubSeq(x.buf, 1, x.len)

\* The header keeps what it was given and says no more than the block has.
Fits(x) ==
  /\ x \in SdsType
  /\ x.type # 64 => x.len < Below[x.type] /\ x.alloc < Below[x.type]
  /\ x.len <= Alloc(x) /\ Alloc(x) < x.block
  /\ Len(x.buf) = x.block

\* Bytes that were written, then a zero byte.
Ends(x) ==
  /\ \A i \in 1 .. x.len : x.buf[i] \in Byte
  /\ x.buf[x.len + 1] = Nul

\* Whatever becomes of the header's type, no number is cut to its width, and
\* the string ends in a zero byte inside its block (sds.h:57, sds.c:222, 276).
SdsInv == Fits(s) /\ Ends(s)

\* What each operation means for the text, for every string that a row of
\* operations can leave (sds.c:204-291, 366-380, 398-436, 725-780).
\* sdstrim, sdsrange and sdsupdatelen leave a part of the text.
Part(text, i, k, v) == i <= k /\ v = SubSeq(text, i + 1, k)

\* Offsets count from the end if negative; an end before the text is its first byte.
InRange(o, n, first, last) ==
  LET from(i) == IF i < 0 THEN n + i ELSE i
  IN  o >= from(first) /\ (o <= from(last) \/ o = 0)

GrowMeans(text) ==
  /\ \A n \in 0 .. Room : Value(sdsMakeRoomFor(s, n)) = text /\ Avail(sdsMakeRoomFor(s, n)) >= n
  /\ \A n \in 0 .. MaxLen : Value(sdsgrowzero(s, n)) = text \o [i \in 1 .. n - s.len |-> Nul]
  /\ Value(sdsRemoveFreeSpace(s)) = text

WriteMeans(text) ==
  /\ Value(sdsclear(s)) = <<>>
  /\ \A n \in 1 .. s.len : Value(sdsDecrLen(s, n)) = SubSeq(text, 1, s.len - n)
  /\ \A t \in Text : /\ Value(sdscatlen(s, t)) = text \o t
                        /\ Value(sdscpylen(s, t)) = t
                        /\ Len(t) \in 1 .. Avail(s) => Value(sdsIncrLen(s, t)) = text \o t

RangeMeans(text) ==
  \A first, last \in -(MaxLen + 1) .. MaxLen :
    LET v    == Value(sdsrange(s, first, last))
        kept == {o \in 0 .. s.len - 1 : InRange(o, s.len, first, last)}
    IN  \E i, k \in 0 .. s.len : kept = i .. k - 1 /\ Part(text, i, k, v)

\* All that is cut off is in the set, and no more could be.
TrimMeans(text) ==
  \A cset \in SUBSET Byte :
    LET v    == Value(sdstrim(s, cset))
        kept == {h \in 1 .. s.len : text[h] \notin cset \cup {Nul}}
    IN  \E i, k \in 0 .. s.len :
          /\ kept \subseteq i + 1 .. k
          /\ i < k => {i + 1, k} \subseteq kept
          /\ Part(text, i, k, v)

\* The text up to its first zero byte.
UpdateLenMeans(text) ==
  \E k \in 0 .. s.len :
    /\ Part(text, 0, k, Value(sdsupdatelen(s)))
    /\ \A h \in 1 .. k : text[h] # Nul
    /\ k < s.len => text[k + 1] = Nul

Meaning == /\ GrowMeans(Value(s)) /\ WriteMeans(Value(s))
           /\ RangeMeans(Value(s)) /\ TrimMeans(Value(s)) /\ UpdateLenMeans(Value(s))

\* An append moves the string only when it must, and then leaves room for as
\* much again, or for MaxPrealloc bytes: the callers that keep a pointer over
\* an append (Log.cpp:137, Connection.cpp:188) live on that room.
GrowsSeldom ==
  \A t \in Text :
    LET r == sdscatlen(s, t) IN
    /\ Len(t) <= Avail(s) => r.block = s.block /\ r.type = s.type
    /\ Len(t) > Avail(s) => Avail(r) >= IF r.len < MaxPrealloc THEN r.len ELSE MaxPrealloc
=============================================================================
