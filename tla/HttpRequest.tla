---------------------------- MODULE HttpRequest ----------------------------
(***************************************************************************)
(* HttpRequest: what one line of a request does to the parser, and how a   *)
(* form is decoded.  A text is a sequence of tokens: words (three bytes or *)
(* more), the one-byte delimiters the parser looks at, CR and LF.  A       *)
(* method and a path carry the space behind them, the value of a header    *)
(* the one before it, and no other token has one.  "PUT" stands for every  *)
(* other method, "1.1" for "HTTP/1.1", "..." for any number of bytes of    *)
(* which none is a delimiter or a space.  The escape "%41" is one token,   *)
(* so no text is cut inside it.                                            *)
(***************************************************************************)
EXTENDS Integers, SequencesExt

CONSTANTS Word     \* names, values and fields a client may use

Method  == {"GET", "POST", "PUT"}
Version == {"1.0", "1.1"}
Path    == {"/", "/index", "/login", "/register", "/welcome", "/video", "/image",
            "/login.html", "/reigster.html", "/index.html", "/welcome.html",
            "/register.html", "/video.html", "/image.html", "/error.html", "/other"}
Delimiter == {"CR", "LF", ":", "=", "&", "+"}
\* " " is what '+' becomes, "%?" the three bytes that an escape becomes.
Token == Method \cup Version \cup Path \cup Delimiter \cup Word
           \cup {"Connection", "Content-Type", "keep-alive", "urlencoded", "%41", " ", "%?", "..."}
Text  == Seq(Token)

State == {"REQUEST_LINE", "HEADERS", "BODY", "FINISH"}

\* A header or a field that is absent reads as the empty text.
Lookup(map, key) == IF key \in DOMAIN map THEN map[key] ELSE <<>>
Insert(map, key, value) ==
  [k \in DOMAIN map \cup {key} |-> IF k = key THEN value ELSE map[k]]
NoEntry == [k \in {} |-> <<>>]

\* What Init() leaves.
EmptyRequest == [state |-> "REQUEST_LINE", method |-> <<>>, path |-> <<>>,
                 version |-> <<>>, headers |-> NoEntry, post |-> NoEntry]

-----------------------------------------------------------------------------
(* Lines: pos is read_bytes, the number of tokens behind the parser.       *)

LineEnd(buf, pos) ==
  LET crlf == {i \in pos + 1 .. Len(buf) - 1 : buf[i] = "CR" /\ buf[i + 1] = "LF"}
  IN  IF crlf = {} THEN Len(buf) + 1 ELSE CHOOSE i \in crlf : \A k \in crlf : i <= k

Line(buf, pos) == SubSeq(buf, pos + 1, LineEnd(buf, pos) - 1)

\* Mutant: the search for the next line starts inside the line break.
AtLineFeed(buf, pos) == LineEnd(buf, pos)

\* Two bytes are skipped, whether the line ended in CR LF or with the buffer.
NextPos(buf, pos) == LineEnd(buf, pos) + 1

AtMostTwoBytesLeft(buf, pos) ==
  /\ Len(buf) - pos <= 2
  /\ \A i \in pos + 1 .. Len(buf) : buf[i] \in Delimiter

-----------------------------------------------------------------------------
(* The request line and the headers.                                       *)

\* Where the method ends: what comes before it and holds no space is part of it.
MethodAt(line) == SelectInSeq(line, LAMBDA t : t \in Method)

\* Two spaces in all: behind the method and behind the path.  Everything up to
\* the end of the line is the version, a CR without LF too.
IsRequestLine(line) ==
  LET n == MethodAt(line)
  IN  /\ n # 0 /\ n + 2 <= Len(line)
      /\ line[n + 1] \in Path /\ line[n + 2] \in Version
      /\ \A i \in DOMAIN line : line[i] \in Method \cup Path => i \in {n, n + 1}

Html(path) ==
  CASE path = "/"         -> "/index.html"
    [] path = "/index"    -> "/index.html"
    [] path = "/login"    -> "/login.html"
    [] path = "/register" -> "/register.html"
    [] path = "/welcome"  -> "/welcome.html"
    [] path = "/video"    -> "/video.html"
    [] path = "/image"    -> "/image.html"
    [] OTHER              -> path

ParseRequestLine(req, line) ==
  LET n == MethodAt(line)
  IN  [req EXCEPT !.state = "HEADERS", !.method = SubSeq(line, 1, n),
                  !.path = <<Html(line[n + 1])>>, !.version = SubSeq(line, n + 2, Len(line))]

Colon(line) == SelectInSeq(line, LAMBDA t : t = ":")

\* Everything up to the first colon is the name; no CR or LF in the value.
IsHeader(line) ==
  /\ Colon(line) # 0
  /\ \A i \in Colon(line) .. Len(line) : line[i] \notin {"CR", "LF"}

\* last: at most two bytes were left, there is no body.
ParseHeaders(req, line, last) ==
  LET parsed == IF IsHeader(line)
                THEN [req EXCEPT !.headers =
                        Insert(@, SubSeq(line, 1, Colon(line) - 1),
                                  SubSeq(line, Colon(line) + 1, Len(line)))]
                ELSE [req EXCEPT !.state = "BODY"]
  IN  IF last THEN [parsed EXCEPT !.state = "FINISH"] ELSE parsed

IsKeepAlive(req) ==
  /\ Lookup(req.headers, <<"Connection">>) = <<"keep-alive">>
  /\ req.version = <<"1.1">>

-----------------------------------------------------------------------------
(* The form in a body.  An escape is replaced in place by "%", two bytes   *)
(* (the decimal digits of a number computed from the characters), not by   *)
(* the byte it stands for.                                                 *)

Decoded(body) ==
  [i \in DOMAIN body |-> IF body[i] = "+" THEN " "
                         ELSE IF body[i] = "%41" THEN "%?" ELSE body[i]]

\* j and key of _ParseFromUrlencoded when it is at position i.
After(body, i) == 1 + SelectLastInSubSeq(body, 1, i - 1, LAMBDA t : t \in {"=", "&"})
KeyAt(body, i) ==
  LET eq == SelectLastInSubSeq(body, 1, i - 1, LAMBDA t : t = "=")
  IN  IF eq = 0 THEN <<>> ELSE SubSeq(Decoded(body), After(body, eq), eq - 1)
ValueAt(body, i) == SubSeq(Decoded(body), After(body, i), i - 1)

\* Every '&' ends a field; so does the end of the body, unless nothing
\* follows the last delimiter or the key is there already.
Fields(body) ==
  LET ends == {i \in 1 .. Len(body) : body[i] = "&"}
      EndOf(k) == CHOOSE i \in ends : /\ KeyAt(body, i) = k
                                      /\ \A h \in ends : KeyAt(body, h) = k => h <= i
      post == [k \in {KeyAt(body, i) : i \in ends} |-> ValueAt(body, EndOf(k))]
      end  == Len(body) + 1
  IN  IF KeyAt(body, end) \in DOMAIN post \/ After(body, end) = end
      THEN post
      ELSE Insert(post, KeyAt(body, end), ValueAt(body, end))

IsForm(req) == /\ req.method = <<"POST">>
               /\ Lookup(req.headers, <<"Content-Type">>) = <<"urlencoded">>

\* The pages of HTML_TAGS; the path a client posts a registration to is not
\* spelt like the one of its page.
IsVerified(req) == req.path \in {<<"/login.html">>, <<"/reigster.html">>}

\* verified is what UserVerify answers for these fields.
ParseBody(req, line, verified) ==
  LET post == IF IsForm(req) /\ line # <<>> THEN Fields(line) ELSE req.post
  IN  [req EXCEPT !.state = "FINISH", !.post = post,
                  !.path = IF ~(IsForm(req) /\ IsVerified(req)) THEN @
                           ELSE IF verified THEN <<"/welcome.html">> ELSE <<"/error.html">>]

\* UserVerify is FALSE without asking the database for an empty name or
\* password; otherwise the answer is the database's.
VerifyAnswers(req, line) ==
  LET post == IF line # <<>> THEN Fields(line) ELSE req.post
  IN  IF Lookup(post, <<"username">>) = <<>> \/ Lookup(post, <<"password">>) = <<>>
      THEN {FALSE} ELSE BOOLEAN
=============================================================================
