------------------------------- MODULE MCSds -------------------------------
EXTENDS SdsText
MCText == {<<>>, <<97>>, <<97, 49>>, <<49, 0>>}
MCBelow == (5 :> 2) @@ (8 :> 4) @@ (16 :> 6) @@ (32 :> 7)

\* Formats whose conversions use up the room that was made, then go on.
Verbatim(b)   == [width |-> 1, conversion |-> FALSE, text |-> <<b>>]
Converts(t)   == [width |-> 2, conversion |-> TRUE, text |-> t]
PercentAtEnd  == [width |-> 1, conversion |-> FALSE, text |-> <<>>]
Repeat(b, n)  == [i \in 1 .. n |-> b]
MCFormat ==
  {<<>>, <<Verbatim(97)>>, <<Verbatim(97), PercentAtEnd>>, <<Converts(<<>>)>>, <<Converts(sdsll2str(11)), Verbatim(97)>>}
    \cup {<<Converts(Repeat(97, n)), Verbatim(49), Converts(sdsll2str(1))>> : n \in {1, 8, 12, 14}}

\* A zero byte, a bell, a line feed, blanks, quotes, a backslash, the letters
\* of escapes, digits and a byte that is no character.
MCBytes == {0, 7, 10, 11, 32, 34, 39, 48, 65, 92, 97, 110, 120, 255}
MCArgument == BoundedSeq(MCBytes, 2)
MCLine == BoundedSeq({32, 34, 39, 49, 92, 97, 120}, 5)
MCSplittable == BoundedSeq({44, 97}, 9)
MCSeparator == {<<>>, <<44>>, <<97>>, <<44, 44>>, <<44, 97>>}
=============================================================================
