------------------------------ MODULE SdsText ------------------------------
(***************************************************************************)
(* The functions of sds that compute texts from texts: comparing, mapping, *)
(* splitting and joining, and the quoted form that sdscatrepr writes and   *)
(* sdssplitargs reads.  They build their results with sdscatlen and        *)
(* sdsnewlen, whose meaning Sds states; here a string is its bytes.        *)
(***************************************************************************)
EXTENDS SdsFormat

CONSTANTS Line,       \* zero-terminated lines for sdssplitargs
          Argument,   \* texts, zero bytes included
          Splittable, \* texts for sdssplitlen
          Separator,  \* separators of sdssplitlen
          FirstSlots  \* its first allocation, in tokens

ASSUME TextAssumption == /\ Byte \subseteq 0 .. 255
                         /\ Line \subseteq Seq(1 .. 255)
                         /\ Argument \cup Splittable \cup Separator \subseteq Seq(0 .. 255)
                         /\ FirstSlots \in Nat \ {0}

-----------------------------------------------------------------------------
(* Byte by byte. *)

sdstolower(t) == [i \in DOMAIN t |-> IF t[i] \in 65 .. 90 THEN t[i] + 32 ELSE t[i]]
sdstoupper(t) == [i \in DOMAIN t |-> IF t[i] \in 97 .. 122 THEN t[i] - 32 ELSE t[i]]

sdsmapchars(t, from, to) ==
  LET at(b) == SelectInSeq(from, LAMBDA f : f = b)
  IN  [i \in DOMAIN t |-> IF at(t[i]) = 0 THEN t[i] ELSE to[at(t[i])]]

\* memcmp over the shorter one, then the lengths; only the sign counts.
sdscmp(t, u) ==
  LET minlen == IF Len(t) < Len(u) THEN Len(t) ELSE Len(u)
      differ == {i \in 1 .. minlen : t[i] # u[i]}
      cmp(a, b) == IF a > b THEN 1 ELSE IF a < b THEN -1 ELSE 0
  IN  IF differ = {} THEN cmp(Len(t), Len(u))
      ELSE LET i == CHOOSE i \in differ : \A k \in differ : i <= k IN cmp(t[i], u[i])

-----------------------------------------------------------------------------
(* Splitting and joining.  The result is the empty set for NULL.           *)

\* Mutant: the separator counted as one byte.
BehindFirstByte(j, sep) == j + 1

Behind(j, sep) == j + Len(sep)

\* A turn of the loop at offset w.j, in the token that begins at w.start; w.slots
\* are allocated for the tokens.
SplitTurn(t, sep, w) ==
  LET room == IF w.slots < Len(w.tokens) + 2 THEN 2 * w.slots ELSE w.slots
      next == Behind(w.j, sep)
  IN  IF w.j >= Len(t) - (Len(sep) - 1) THEN w
      ELSE IF SubSeq(t, w.j + 1, w.j + Len(sep)) = sep
      THEN [j |-> next, start |-> next, tokens |-> Append(w.tokens, SubSeq(t, w.start + 1, w.j)),
            slots |-> room]
      ELSE [w EXCEPT !.j = @ + 1, !.slots = room]

\* No more turns than bytes.
sdssplitlen(t, sep) ==
  LET turns[n \in 0 .. Len(t)] ==
        IF n = 0 THEN [j |-> 0, start |-> 0, tokens |-> <<>>, slots |-> FirstSlots]
        ELSE SplitTurn(t, sep, turns[n - 1])
      last == turns[Len(t)]
  IN  IF sep = <<>> \/ t = <<>> THEN {}
      ELSE {[tokens |-> Append(last.tokens, SubSeq(t, last.start + 1, Len(t))),
             slots |-> last.slots]}

Joined(args, sep) ==
  FlattenSeq([i \in DOMAIN args |-> IF i = Len(args) THEN args[i] ELSE args[i] \o sep])

sdsjoinsds(args, sep) == Joined(args, sep)
sdsjoin(args, sep)    == Joined([i \in DOMAIN args |-> UpToNul(args[i])], UpToNul(sep))

-----------------------------------------------------------------------------
(* sdscatrepr. *)

Quote == 34
Apostrophe == 39
Backslash == 92

isspace(b) == b \in 9 .. 13 \cup {32}
isprint(b) == b \in 32 .. 126

\* \n, \r, \t, \a and \b: the byte and the letter.
Letter == [b \in {7, 8, 9, 10, 13} |->
             CASE b = 10 -> 110 [] b = 13 -> 114 [] b = 9 -> 116 [] b = 7 -> 97 [] b = 8 -> 98]

HexDigit(n) == IF n < 10 THEN 48 + n ELSE 87 + n

\* Mutant: %02x of a char that is signed.
HexOfSigned(b) == (IF b > 127 THEN [i \in 1 .. 6 |-> 102] ELSE <<>>)
                    \o <<HexDigit(b \div 16), HexDigit(b % 16)>>

Hex(b) == <<HexDigit(b \div 16), HexDigit(b % 16)>>

Escaped(b) ==
  CASE b \in {Backslash, Quote} -> <<Backslash, b>>
    [] b \in DOMAIN Letter      -> <<Backslash, Letter[b]>>
    [] b \notin DOMAIN Letter \cup {Backslash, Quote} ->
         IF isprint(b) THEN <<b>> ELSE <<Backslash, 120>> \o Hex(b)

sdscatrepr(t, p) ==
  t \o <<Quote>> \o FlattenSeq([i \in DOMAIN p |-> Escaped(p[i])]) \o <<Quote>>

-----------------------------------------------------------------------------
(* sdssplitargs. *)

is_hex_digit(c) == c \in 48 .. 57 \cup 97 .. 102 \cup 65 .. 70

hex_digit_to_int(c) ==
  CASE c \in 48 .. 57 -> c - 48 [] c \in 97 .. 102 -> c - 87 [] c \in 65 .. 70 -> c - 55

At(line, p) == IF p <= Len(line) THEN line[p] ELSE 0

\* The byte that a backslash and the byte c stand for.
Unescaped(c) == IF \E b \in DOMAIN Letter : Letter[b] = c
                THEN CHOOSE b \in DOMAIN Letter : Letter[b] = c ELSE c

\* What is read at p: how many bytes, what they add to the token, and what comes
\* next: the token, with no, double or single quotes open, the blanks behind it,
\* or an error.
Reads(n, bytes, next) == [n |-> n, bytes |-> bytes, next |-> next]

HexEscape(line, p) ==
  /\ At(line, p) = Backslash /\ At(line, p + 1) = 120
  /\ is_hex_digit(At(line, p + 2)) /\ is_hex_digit(At(line, p + 3))

\* A closing quote must be followed by a space or the end.
ClosingQuote(line, p) ==
  Reads(1, <<>>, IF At(line, p + 1) # 0 /\ ~isspace(At(line, p + 1)) THEN "error" ELSE "blanks")

InQuotes(line, p) ==
  LET c == At(line, p) IN
  IF HexEscape(line, p)
  THEN Reads(4, <<hex_digit_to_int(At(line, p + 2)) * 16 + hex_digit_to_int(At(line, p + 3))>>,
             "double")
  ELSE IF c = Backslash /\ At(line, p + 1) # 0
  THEN Reads(2, <<Unescaped(At(line, p + 1))>>, "double")
  ELSE IF c = Quote THEN ClosingQuote(line, p)
  ELSE IF c = 0 THEN Reads(0, <<>>, "error") ELSE Reads(1, <<c>>, "double")

InSingleQuotes(line, p) ==
  LET c == At(line, p) IN
  IF c = Backslash /\ At(line, p + 1) = Apostrophe THEN Reads(2, <<Apostrophe>>, "single")
  ELSE IF c = Apostrophe THEN ClosingQuote(line, p)
  ELSE IF c = 0 THEN Reads(0, <<>>, "error") ELSE Reads(1, <<c>>, "single")

NoQuotes(line, p) ==
  LET c == At(line, p) IN
  CASE c \in {32, 10, 13, 9} -> Reads(1, <<>>, "blanks")
    [] c = 0                 -> Reads(0, <<>>, "blanks")
    [] c = Quote             -> Reads(1, <<>>, "double")
    [] c = Apostrophe        -> Reads(1, <<>>, "single")
    [] c \notin {32, 10, 13, 9, 0, Quote, Apostrophe} -> Reads(1, <<c>>, "none")

InToken(line, p, quotes) ==
  CASE quotes = "double" -> InQuotes(line, p)
    [] quotes = "single" -> InSingleQuotes(line, p)
    [] quotes = "none"   -> NoQuotes(line, p)

\* A turn of one of the two loops, at byte w.p: over blanks to a token or to the
\* end of the line, or in a token.
ArgsTurn(line, w) ==
  LET c == At(line, w.p)
      r == InToken(line, w.p, w.next)
  IN  CASE w.next = "blanks" /\ isspace(c)            -> [w EXCEPT !.p = @ + 1]
        [] w.next = "blanks" /\ c = 0                 -> [w EXCEPT !.next = "end"]
        [] w.next = "blanks" /\ c # 0 /\ ~isspace(c)  -> [w EXCEPT !.next = "none", !.current = <<>>]
        [] w.next \in {"end", "error"}                -> w
        [] w.next \in {"none", "double", "single"}    ->
             [p |-> w.p + r.n, next |-> r.next, current |-> w.current \o r.bytes,
              vector |-> IF r.next = "blanks" THEN Append(w.vector, w.current) ELSE w.vector]

\* A byte is read twice at most: as the end of the blanks, and in a token.
sdssplitargs(line) ==
  LET turns[n \in 0 .. 2 * Len(line) + 2] ==
        IF n = 0 THEN [p |-> 1, next |-> "blanks", current |-> <<>>, vector |-> <<>>]
        ELSE ArgsTurn(line, turns[n - 1])
      last == turns[2 * Len(line) + 2]
  IN  IF last.next = "end" THEN {last.vector} ELSE {}

-----------------------------------------------------------------------------
(* Properties. *)

Reprs(args) == sdsjoinsds([i \in DOMAIN args |-> sdscatrepr(<<>>, args[i])], <<32>>)

ReprIsRead ==
  \A a, b \in Argument : \A args \in {<<>>, <<a>>, <<a, b>>} :
    sdssplitargs(Reprs(args)) = {args}

LineIsRead ==
  \A line \in Line : \A args \in sdssplitargs(line) : sdssplitargs(Reprs(args)) = {args}

\* What sdscatrepr writes, sdssplitargs reads back, whatever bytes the texts
\* have (sds.c:964-965); and whatever a line is accepted as reads back from its
\* quoted form, in the other direction.
ReprRoundTrip ==
  /\ ReprIsRead /\ LineIsRead
  /\ sdssplitargs(sdscatrepr(<<>>, Value(s))) = {<<Value(s)>>}

Parts(t, sep, r) ==
  /\ sdsjoinsds(r.tokens, sep) = t
  /\ Len(r.tokens) <= r.slots
  /\ \A i \in DOMAIN r.tokens : \A j \in 0 .. Len(r.tokens[i]) - Len(sep) :
       SubSeq(r.tokens[i], j + 1, j + Len(sep)) # sep

SplitsWhole ==
  \A t \in Splittable, sep \in Separator : \A r \in sdssplitlen(t, sep) : Parts(t, sep, r)

\* A text is split at every separator and no byte of it is lost: the tokens
\* joined are the text, none holds the separator, and the array has room for
\* each (sds.c:828-880).
SplitsApart ==
  /\ SplitsWhole
  /\ \A sep \in Separator : \A r \in sdssplitlen(Value(s), sep) : Parts(Value(s), sep, r)

Number(t) ==
  LET first[n \in 0 .. Len(t)] == IF n = 0 THEN 0 ELSE 10 * first[n - 1] + (t[n] - 48)
  IN  first[Len(t)]

\* A printed number reads back, has no needless zero and fits in its buffer, at
\* both ends of the range too (sds.c:450-520).
NumbersReadBack ==
  \A v \in -(LLMax + 1) .. 2 * LLMax + 1 :
    LET t      == IF v > LLMax THEN sdsull2str(v) ELSE sdsll2str(v)
        digits == IF v < 0 THEN Tail(t) ELSE t
    IN  /\ v < 0 => t[1] = 45
        /\ digits # <<>> /\ Number(digits) = IF v < 0 THEN -v ELSE v
        /\ digits[1] = 48 => Len(digits) = 1
        /\ Len(t) + 1 <= LLStrSize

\* sdscmp is the lexicographic order: it says equal of equal texts only, a
\* prefix comes first, and the first byte that differs decides (sds.c:796-817).
Orders ==
  \A t, u \in Argument :
    /\ sdscmp(t, u) = -sdscmp(u, t)
    /\ sdscmp(t, u) = 0 <=> t = u
    /\ sdscmp(t, t \o u) = IF u = <<>> THEN 0 ELSE -1
    /\ t # <<>> /\ u # <<>> /\ t[1] < u[1] => sdscmp(t, u) = -1
    /\ t # <<>> /\ u # <<>> /\ t[1] = u[1] => sdscmp(t, u) = sdscmp(Tail(t), Tail(u))

\* The bytes are mapped all at once: exchanging two of them twice, or folding
\* the case a second time, changes nothing (sds.c:782-794, 1083-1104).
Maps ==
  \A t \in Argument :
    /\ sdsmapchars(sdsmapchars(t, <<97, 110>>, <<110, 97>>), <<97, 110>>, <<110, 97>>) = t
    /\ sdsmapchars(t, <<97, 97>>, <<98, 99>>) = sdsmapchars(t, <<97>>, <<98>>)
    /\ sdstolower(sdstoupper(sdstolower(t))) = sdstolower(t)

TextMeaning == NumbersReadBack /\ Orders /\ Maps
=============================================================================
