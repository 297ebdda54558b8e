----------------------------- MODULE SdsFormat -----------------------------
(***************************************************************************)
(* The functions of sds that print into a string.  sdscatfmt writes behind *)
(* the string itself and makes room as it goes; sdscatvprintf prints into  *)
(* a buffer of its own first.  Bytes are their codes.                      *)
(***************************************************************************)
EXTENDS Sds, SequencesExt, FiniteSets

CONSTANTS Format,      \* the formats, as sequences of directives
          StaticBuf,   \* sizeof(staticbuf) of sdscatvprintf
          LLMax,       \* LLONG_MAX; ULLONG_MAX is 2 * LLMax + 1
          LLStrSize    \* SDS_LLSTR_SIZE

\* A directive takes `width' bytes of the format; a conversion is one that
\* prints an argument, `text' is what it prints.  Any other prints one byte, but
\* for a '%' at the end of the format, which prints nothing.
Directive == [width : 1 .. 2, conversion : BOOLEAN, text : Seq(Byte)]

\* 10 to the nth.
TenTo(n) == LET ten[k \in 0 .. n] == IF k = 0 THEN 1 ELSE 10 * ten[k - 1] IN ten[n]

\* A buffer of LLStrSize bytes has room for any number, its sign and a zero byte.
ASSUME FormatAssumption ==
  /\ Format \subseteq Seq(Directive)
  /\ \A fmt \in Format : \A i \in DOMAIN fmt :
       fmt[i].conversion \/ Len(fmt[i].text) = 1 \/ (i = Len(fmt) /\ fmt[i].text = <<>>)
  /\ StaticBuf \in Nat \ {0} /\ LLMax \in Nat
  /\ LLStrSize \in Nat /\ LLStrSize > 2
  /\ LLMax + 1 < TenTo(LLStrSize - 2) /\ 2 * LLMax + 1 < TenTo(LLStrSize - 1)

-----------------------------------------------------------------------------
(* Texts that end in a zero byte. *)

FirstNul(t) == SelectInSeq(t, LAMBDA b : b = Nul)

UpToNul(t) == IF FirstNul(t) = 0 THEN t ELSE SubSeq(t, 1, FirstNul(t) - 1)

sdscat(x, t) == sdscatlen(x, UpToNul(t))
sdscpy(x, t) == sdscpylen(x, UpToNul(t))

sdsdup(x)       == sdsnewlen(Value(x))
sdscatsds(x, y) == sdscatlen(x, Value(y))

-----------------------------------------------------------------------------
(* Numbers. *)

\* Mutant: zero has no digit (while instead of do ... while).
DigitsOfNonZero(v) ==
  LET digits[u \in 0 .. v] == IF u = 0 THEN <<>> ELSE <<48 + (u % 10)>> \o digits[u \div 10]
  IN  digits[v]

\* The digits from the last to the first.
Digits(v) ==
  LET digits[u \in 0 .. v] ==
        <<48 + (u % 10)>> \o (IF u \div 10 = 0 THEN <<>> ELSE digits[u \div 10])
  IN  digits[v]

\* -LLONG_MIN does not overflow: it is computed as unsigned.
sdsll2str(value) ==
  Reverse(IF value < 0 THEN Append(Digits(-value), 45) ELSE Digits(value))

sdsull2str(v) == Reverse(Digits(v))

sdsfromlonglong(value) == sdsnewlen(sdsll2str(value))

-----------------------------------------------------------------------------
(* printf. *)

\* What vsnprintf leaves of a text in a buffer of n bytes.
VSNPrintF(n, text) == SubSeq(text, 1, IF Len(text) < n THEN Len(text) ELSE n - 1)

\* Mutant: a buffer that the text fills exactly is taken.
FitsInAlmost(text, n) == Len(text) <= n

FitsIn(text, n) == Len(text) < n

\* The first buffer is the static one, or has twice the bytes of the format;
\* when the text does not fit, the second is made for it.
sdscatvprintf(x, fmtlen, text) ==
  LET buflen == IF 2 * fmtlen > StaticBuf THEN 2 * fmtlen ELSE StaticBuf
  IN  sdscatlen(x, VSNPrintF(IF FitsIn(text, buflen) THEN buflen ELSE Len(text) + 1, text))

Width(fmt) == Len(fmt) + Cardinality({i \in DOMAIN fmt : fmt[i].width = 2})

\* One turn of sdscatfmt's loop, for directive d, at position i of the string.
Turn(x, i, d) ==
  LET l    == Len(d.text)
      one  == IF Avail(x) = 0 THEN sdsMakeRoomFor(x, 1) ELSE x
      room == IF d.conversion /\ Avail(one) < l THEN sdsMakeRoomFor(one, l) ELSE one
  IN  SetLen(Store(room, i, d.text), room.len + l)

sdscatfmt(x, fmt) ==
  LET at[n \in 0 .. Len(fmt)] == IF n = 0 THEN x.len ELSE at[n - 1] + Len(fmt[n].text)
      turns[n \in 0 .. Len(fmt)] == IF n = 0 THEN sdsMakeRoomFor(x, x.len + 2 * Width(fmt))
                                    ELSE Turn(turns[n - 1], at[n - 1], fmt[n])
  IN  Store(turns[Len(fmt)], at[Len(fmt)], <<Nul>>)

-----------------------------------------------------------------------------
(* Properties. *)

Printed(fmt) == FlattenSeq([i \in DOMAIN fmt |-> fmt[i].text])

\* Printing behind any string, through whatever moves and changes of header it
\* takes, appends the whole text, keeps every number of the header and ends in
\* a zero byte inside the block (sds.c:538-560, 622-707).
FormatsFit ==
  \A fmt \in Format :
    \A r \in {sdscatfmt(s, fmt), sdscatvprintf(s, Width(fmt), Printed(fmt))} :
      Fits(r) /\ Ends(r) /\ Value(r) = Value(s) \o Printed(fmt)
=============================================================================
