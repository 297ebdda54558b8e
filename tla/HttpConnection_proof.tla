------------------------ MODULE HttpConnection_proof ------------------------
(***************************************************************************)
(* HInv for every client, resource directory and send buffer: where the    *)
(* buffers are empty, what is mapped, and what may be answered with;       *)
(* WireInv: what is on the wire; and WholeInv: how a request that was read *)
(* as a whole is understood, line by line and field by field.              *)
(***************************************************************************)
EXTENDS HttpConnection, SequenceFacts

(* The parts of TypeOK that the server changes, by name. *)

RequestOK(r) ==
  /\ r.state \in State
  /\ r.path = <<>> \/ \E p \in Path : r.path = <<p>>
  /\ r = [state |-> r.state, method |-> r.method, path |-> r.path,
          version |-> r.version, headers |-> r.headers, post |-> r.post]

AllReadable(seq) == \A i \in DOMAIN seq : Readable(seq[i].of)

-----------------------------------------------------------------------------
(* Sequences. *)

\* Both parts of a sequence cut behind position n.
LEMMA CutParts ==
  ASSUME NEW S, NEW seq \in Seq(S), NEW n \in 0 .. Len(seq)
  PROVE  /\ SubSeq(seq, 1, n) \in Seq(S)
         /\ SubSeq(seq, n + 1, Len(seq)) \in Seq(S)
         /\ \A i \in DOMAIN SubSeq(seq, n + 1, Len(seq)) :
              \E k \in DOMAIN seq : SubSeq(seq, n + 1, Len(seq))[i] = seq[k]
<1>1. \A i \in 1 .. Len(seq) : seq[i] \in S
  OBVIOUS
<1>2. SubSeq(seq, 1, n) \in Seq(S)
  BY <1>1, SubSeqProperties
<1>3. DEFINE r == SubSeq(seq, n + 1, Len(seq))
<1>4. /\ r \in Seq(S)
      /\ Len(r) = IF n + 1 <= Len(seq) THEN Len(seq) - n ELSE 0
      /\ \A i \in 1 .. Len(seq) - n : r[i] = seq[n + i]
  <2>1. /\ SubSeq(seq, n + 1, Len(seq)) \in Seq(S)
        /\ Len(SubSeq(seq, n + 1, Len(seq)))
             = IF n + 1 <= Len(seq) THEN Len(seq) - (n + 1) + 1 ELSE 0
        /\ \A i \in 1 .. Len(seq) - (n + 1) + 1 :
             SubSeq(seq, n + 1, Len(seq))[i] = seq[(n + 1) + i - 1]
    <3>1. n + 1 \in Int /\ Len(seq) \in Int /\ \A i \in n + 1 .. Len(seq) : seq[i] \in S
      BY <1>1
    <3> HIDE <1>1
    <3> QED BY <3>1, SubSeqProperties
  <2>2. Len(seq) - (n + 1) + 1 = Len(seq) - n /\ \A i \in Nat : (n + 1) + i - 1 = n + i
    OBVIOUS
  <2> QED BY <2>1, <2>2
<1>5. \A i \in DOMAIN r : n + i \in DOMAIN seq /\ r[i] = seq[n + i]
  <2> HIDE DEF r
  <2>1. DOMAIN r = 1 .. Len(r) /\ DOMAIN seq = 1 .. Len(seq)
    BY <1>4
  <2>2. Len(seq) \in Nat /\ n \in Nat
    OBVIOUS
  <2>3. \A i \in 1 .. Len(r) : i \in 1 .. Len(seq) - n /\ n + i \in 1 .. Len(seq)
    <3>1. Len(r) = IF n + 1 <= Len(seq) THEN Len(seq) - n ELSE 0
      BY <1>4
    <3> QED BY <2>2, <3>1
  <2> QED BY <2>1, <2>3, <1>4, Zenon
<1> QED BY <1>2, <1>4, <1>5

\* The end of a line is behind the parser and at most behind the buffer.
LEMMA LineEndRange ==
  ASSUME NEW buf \in Text, NEW n \in Nat, n <= Len(buf)
  PROVE  LineEnd(buf, n) \in n + 1 .. Len(buf) + 1
<1> DEFINE crlf == {i \in n + 1 .. Len(buf) - 1 : buf[i] = "CR" /\ buf[i + 1] = "LF"}
<1>1. Len(buf) \in Nat
  BY DEF Text
<1>2. CASE crlf = {}
  BY <1>1, <1>2 DEF LineEnd
<1>3. CASE crlf # {}
  <2>1. crlf \in SUBSET Nat
    BY <1>1
  <2>2. \E i \in crlf : \A k \in crlf : i <= k
    <3> HIDE DEF crlf
    <3> QED BY <1>3, <2>1, Least
  <2>3. LineEnd(buf, n) = CHOOSE i \in crlf : \A k \in crlf : i <= k
    BY <1>3 DEF LineEnd
  <2>4. LineEnd(buf, n) \in crlf
    <3> HIDE DEF crlf
    <3> QED BY <2>2, <2>3
  <2> QED BY <1>1, <2>4
<1> QED BY <1>2, <1>3

-----------------------------------------------------------------------------
(* The operators of HttpRequest and HttpResponse. *)

LEMMA HtmlIsPath == \A p \in Path : Html(p) \in Path
BY DEF Html, Path

LEMMA RequestLineOK ==
  ASSUME NEW r, RequestOK(r), NEW line, IsRequestLine(line)
  PROVE  RequestOK(ParseRequestLine(r, line))
<1> DEFINE n       == MethodAt(line)
           method  == SubSeq(line, 1, n)
           path    == <<Html(line[n + 1])>>
           version == SubSeq(line, n + 2, Len(line))
<1>1. Html(line[n + 1]) \in Path
  BY HtmlIsPath DEF IsRequestLine
<1>2. ParseRequestLine(r, line) = [r EXCEPT !.state = "HEADERS", !.method = method,
                                            !.path = path, !.version = version]
  BY DEF ParseRequestLine
<1>3. \E p \in Path : path = <<p>>
  BY <1>1
<1> HIDE DEF n, method, path, version
<1> QED BY <1>2, <1>3 DEF RequestOK, State

LEMMA HeadersOK ==
  ASSUME NEW r, RequestOK(r), NEW line, NEW last \in BOOLEAN
  PROVE  RequestOK(ParseHeaders(r, line, last))
<1> DEFINE parsed == IF IsHeader(line)
                     THEN [r EXCEPT !.headers = Insert(@, SubSeq(line, 1, Colon(line) - 1),
                                                  SubSeq(line, Colon(line) + 1, Len(line)))]
                     ELSE [r EXCEPT !.state = "BODY"]
<1>1. RequestOK(parsed)
  BY DEF RequestOK, State
<1>2. RequestOK([parsed EXCEPT !.state = "FINISH"])
  <2> HIDE DEF parsed
  <2> QED BY <1>1 DEF RequestOK, State
<1> QED BY <1>1, <1>2 DEF ParseHeaders

LEMMA BodyOK ==
  ASSUME NEW r, RequestOK(r), NEW line, NEW verified
  PROVE  RequestOK(ParseBody(r, line, verified))
<1> DEFINE post == IF IsForm(r) /\ line # <<>> THEN Fields(line) ELSE r.post
           path == IF ~(IsForm(r) /\ IsVerified(r)) THEN r.path
                   ELSE IF verified THEN <<"/welcome.html">> ELSE <<"/error.html">>
<1>1. path = <<>> \/ \E p \in Path : path = <<p>>
  BY DEF RequestOK, Path
<1>2. ParseBody(r, line, verified) = [r EXCEPT !.state = "FINISH", !.post = post, !.path = path]
  BY DEF ParseBody
<1> HIDE DEF post, path
<1> QED BY <1>1, <1>2 DEF RequestOK, State

\* A response is five pieces that all speak of its answer.
LEMMA ResponseParts ==
  ASSUME NEW a \in Answer
  PROVE  /\ Response(a) \in Seq(Piece)
         /\ Len(Response(a)) = 5
         /\ \A i \in DOMAIN Response(a) : Response(a)[i].of = a
<1> DEFINE piece(i) == [part |-> Part[i], of |-> a]
<1>1. \A i \in 1 .. 5 : piece(i) \in Piece
  BY DEF Piece
<1>2. Response(a) = [i \in 1 .. 5 |-> piece(i)]
  BY DEF Response
<1> HIDE DEF piece
<1>3. Response(a) \in Seq(Piece) /\ Len(Response(a)) = 5 /\ DOMAIN Response(a) = 1 .. 5
  BY <1>1, <1>2
<1>4. \A i \in 1 .. 5 : piece(i).of = a
  BY DEF piece
<1> QED BY <1>2, <1>3, <1>4

\* Whatever the request: the page that MakeResponse goes for is readable, or
\* the page of the error.
LEMMA AnswerOK ==
  ASSUME files \in [Page -> Kind], RequestOK(req),
         \A p \in Page : files[p] = "dir" <=> p = "."
  PROVE  /\ CodeMade \in {200, 400, 403, 404}
         /\ FileMade \in Page
         /\ files[FileMade] \in {"text", "binary", "ones", "private", "empty", "missing"}
         /\ CodeMade = 200 => files[FileMade] \in {"text", "binary", "ones", "empty"}
         /\ files[FileMade] = "private" => FileMade = ErrorPage(CodeMade, ".")
<1>1. PathAsked \in Page
  <2>1. CASE req.path = <<>>
    BY <2>1 DEF PathAsked, Page
  <2>2. ASSUME NEW p \in Path, req.path = <<p>> PROVE PathAsked \in Page
    <3>1. req.path # <<>> /\ req.path[1] = p
      BY <2>2
    <3> QED BY <3>1 DEF PathAsked, Page
  <2> QED BY <2>1, <2>2 DEF RequestOK
<1>2. ASSUME NEW code \in {200, 400}
      PROVE  /\ Code(PathAsked, code) \in {200, 400, 403, 404}
             /\ ErrorPage(Code(PathAsked, code), PathAsked) \in Page \ {"."}
             /\ Code(PathAsked, code) = 200 =>
                  files[ErrorPage(Code(PathAsked, code), PathAsked)]
                    \notin {"private", "missing", "dir"}
             /\ Code(PathAsked, code) # 200 =>
                  ErrorPage(Code(PathAsked, code), PathAsked) = ErrorPage(Code(PathAsked, code), ".")
  <2>1. {"/400.html", "/403.html", "/404.html"} \subseteq Page \ {"."}
    BY DEF Page
  <2>2. Code(PathAsked, code) \in {code, 403, 404}
    BY DEF Code
  <2>3. ASSUME Code(PathAsked, code) = 200
        PROVE  PathAsked # "." /\ files[PathAsked] \notin {"private", "missing", "dir"}
    BY <1>1, <2>3 DEF Code
  <2> HIDE DEF PathAsked
  <2> QED BY <1>1, <2>1, <2>2, <2>3 DEF ErrorPage
<1>3. CodeMade = Code(PathAsked, IF Parsed THEN 200 ELSE 400)
  BY DEF CodeMade
<1>4. FileMade = ErrorPage(CodeMade, PathAsked)
  BY DEF FileMade
<1> HIDE DEF PathAsked, Parsed
<1>5. /\ CodeMade \in {200, 400, 403, 404}
      /\ FileMade \in Page \ {"."}
      /\ CodeMade = 200 => files[FileMade] \notin {"private", "missing", "dir"}
      /\ CodeMade # 200 => FileMade = ErrorPage(CodeMade, ".")
  <2>1. PICK code \in {200, 400} : CodeMade = Code(PathAsked, code)
    BY <1>3
  <2> QED BY <1>2, <1>4, <2>1
<1>6. files[FileMade] \in Kind \ {"dir"}
  <2>1. FileMade \in Page /\ FileMade # "."
    BY <1>5
  <2> QED BY <2>1
<1> QED BY <1>5, <1>6 DEF Kind

-----------------------------------------------------------------------------
(* A request as the client sends it: where its lines and its fields stand. *)

-----------------------------------------------------------------------------
(* The text of a form. *)

FormToken == Word \cup {"+", "%41", "=", "&"}

\* Where the fields of a form stand in its text: field i ends at at[i], with a
\* '&' unless it is the last.
Places(form, body, at) ==
  /\ at \in [0 .. Len(form) -> Nat] /\ at[0] = 0 /\ at[Len(form)] = Len(body)
  /\ \A i \in 1 .. Len(form) :
       /\ i # Len(form) => at[i] = at[i - 1] + Len(form[i][1]) + Len(form[i][2]) + 2
       /\ i = Len(form) => at[i] = at[i - 1] + Len(form[i][1]) + Len(form[i][2]) + 1
       /\ \A j \in 1 .. Len(form[i][1]) : body[at[i - 1] + j] = form[i][1][j]
       /\ body[at[i - 1] + Len(form[i][1]) + 1] = "="
       /\ \A j \in 1 .. Len(form[i][2]) : body[at[i - 1] + Len(form[i][1]) + 1 + j] = form[i][2][j]
       /\ i # Len(form) => body[at[i]] = "&"
       /\ at[i] <= Len(body)

\* A name, '=' and a value, and then perhaps '&'.
Joins(k, v, f) ==
  /\ f \in Seq(FormToken) /\ Len(f) = Len(k) + 1 + Len(v)
  /\ \A j \in 1 .. Len(k) : f[j] = k[j]
  /\ f[Len(k) + 1] = "="
  /\ \A j \in 1 .. Len(v) : f[Len(k) + 1 + j] = v[j]
  /\ f \o <<"&">> \in Seq(FormToken) /\ Len(f \o <<"&">>) = Len(f) + 1
  /\ \A j \in 1 .. Len(f) : (f \o <<"&">>)[j] = f[j]
  /\ (f \o <<"&">>)[Len(f) + 1] = "&"

LEMMA FieldIs ==
  ASSUME NEW p \in FieldText \X FieldText
  PROVE  Joins(p[1], p[2], Field(p))
<1> DEFINE k == p[1]
           v == p[2]
           f == Field(p)
<1>0. SUFFICES
         /\ f \in Seq(FormToken) /\ Len(f) = Len(k) + 1 + Len(v)
         /\ \A j \in 1 .. Len(k) : f[j] = k[j]
         /\ f[Len(k) + 1] = "="
         /\ \A j \in 1 .. Len(v) : f[Len(k) + 1 + j] = v[j]
         /\ f \o <<"&">> \in Seq(FormToken) /\ Len(f \o <<"&">>) = Len(f) + 1
         /\ \A j \in 1 .. Len(f) : (f \o <<"&">>)[j] = f[j]
         /\ (f \o <<"&">>)[Len(f) + 1] = "&"
  BY DEF Joins
<1> DEFINE eq == <<"=">>
           amp == <<"&">>
<1>1. /\ k \in Seq(FormToken) /\ v \in Seq(FormToken)
      /\ eq \in Seq(FormToken) /\ Len(eq) = 1 /\ eq[1] = "="
      /\ amp \in Seq(FormToken) /\ Len(amp) = 1 /\ amp[1] = "&"
  <2>1. k \in FieldText /\ v \in FieldText
    OBVIOUS
  <2> QED BY <2>1 DEF FieldText, FormToken
<1>2. f = (k \o eq) \o v
  BY DEF Field
<1> HIDE DEF k, v, f, eq, amp
<1>3. /\ k \o eq \in Seq(FormToken)
      /\ Len(k \o eq) = Len(k) + 1
      /\ \A i \in 1 .. Len(k) : (k \o eq)[i] = k[i]
      /\ (k \o eq)[Len(k) + 1] = "="
  <2>1. /\ k \o eq \in Seq(FormToken)
        /\ Len(k \o eq) = Len(k) + Len(eq)
        /\ \A i \in 1 .. Len(k) : (k \o eq)[i] = k[i]
        /\ \A i \in 1 .. Len(eq) : (k \o eq)[Len(k) + i] = eq[i]
    BY <1>1, ConcatParts
  <2> QED BY <2>1, <1>1
<1> DEFINE ke == k \o eq
           fa == f \o amp
<1>4. /\ ke \in Seq(FormToken) /\ Len(ke) = Len(k) + 1 /\ f = ke \o v
      /\ \A i \in 1 .. Len(k) : ke[i] = k[i]
      /\ ke[Len(k) + 1] = "="
  BY <1>2, <1>3
<1> HIDE DEF ke
<1>5. /\ f \in Seq(FormToken)
      /\ Len(f) = Len(ke) + Len(v)
      /\ \A i \in 1 .. Len(ke) : f[i] = ke[i]
      /\ \A i \in 1 .. Len(v) : f[Len(ke) + i] = v[i]
  <2>1. /\ ke \o v \in Seq(FormToken)
        /\ Len(ke \o v) = Len(ke) + Len(v)
        /\ \A i \in 1 .. Len(ke) : (ke \o v)[i] = ke[i]
        /\ \A i \in 1 .. Len(v) : (ke \o v)[Len(ke) + i] = v[i]
    <3>1. ke \in Seq(FormToken) /\ v \in Seq(FormToken)
      BY ONLY <1>1, <1>4
    <3> QED BY <3>1, ConcatParts
  <2> QED BY ONLY <2>1, <1>4
<1>6. /\ fa \in Seq(FormToken)
      /\ Len(fa) = Len(f) + Len(amp)
      /\ \A i \in 1 .. Len(f) : fa[i] = f[i]
      /\ \A i \in 1 .. Len(amp) : fa[Len(f) + i] = amp[i]
  <2>1. f \in Seq(FormToken) /\ amp \in Seq(FormToken)
    BY ONLY <1>1, <1>5
  <2> QED BY <2>1, ConcatParts
<1>7. Len(k) \in Nat /\ Len(v) \in Nat /\ Len(f) \in Nat
  BY ONLY <1>1, <1>5
<1>8. \A j \in 1 .. Len(k) : f[j] = k[j]
  BY ONLY <1>4, <1>5, <1>7
<1>9. f[Len(k) + 1] = "=" /\ Len(f) = Len(k) + 1 + Len(v)
  BY ONLY <1>4, <1>5, <1>7
<1>10. \A j \in 1 .. Len(v) : f[Len(k) + 1 + j] = v[j]
  BY ONLY <1>4, <1>5, <1>7
<1>11. fa[Len(f) + 1] = "&" /\ Len(fa) = Len(f) + 1
  BY ONLY <1>1, <1>6
<1>12. fa = f \o <<"&">>
  BY DEF amp
<1> HIDE DEF fa
<1> QED BY ONLY <1>5, <1>6, <1>8, <1>9, <1>10, <1>11, <1>12

LEMMA FormPlaces ==
  ASSUME NEW form \in Seq(FieldText \X FieldText), form # <<>>
  PROVE  /\ FormText(form) \in Seq(FormToken)
         /\ \E at : Places(form, FormText(form), at)
<1> DEFINE m == Len(form)
           part(i) == FormParts(form)[i]
           body == FormText(form)
<1>1. /\ m \in Nat /\ m >= 1 /\ m = Len(form) /\ DOMAIN form = 1 .. m
      /\ \A i \in 1 .. m : /\ form[i][1] \in FieldText /\ form[i][2] \in FieldText
                           /\ form[i] = <<form[i][1], form[i][2]>>
  OBVIOUS
<1>2. FormParts(form) = [i \in 1 .. m |-> IF i = m THEN Field(form[i]) ELSE Field(form[i]) \o <<"&">>]
  BY <1>1 DEF FormParts
<1> HIDE DEF m
<1>3. ASSUME NEW i \in 1 .. m
      PROVE  LET k == form[i][1]
                 v == form[i][2]
             IN  /\ part(i) \in Seq(FormToken)
                 /\ i # m => Len(part(i)) = Len(k) + Len(v) + 2
                 /\ i = m => Len(part(i)) = Len(k) + Len(v) + 1
                 /\ \A j \in 1 .. Len(k) : part(i)[j] = k[j]
                 /\ part(i)[Len(k) + 1] = "="
                 /\ \A j \in 1 .. Len(v) : part(i)[Len(k) + 1 + j] = v[j]
                 /\ i # m => part(i)[Len(part(i))] = "&"
                 /\ Len(k) \in Nat /\ Len(v) \in Nat
  <2> DEFINE k == form[i][1]
             v == form[i][2]
             f == Field(form[i])
  <2> DEFINE q == form[i]
  <2>1. /\ q \in FieldText \X FieldText /\ k \in FieldText /\ v \in FieldText
        /\ k = q[1] /\ v = q[2] /\ f = Field(q)
    BY <1>1
  <2>2. part(i) = IF i = m THEN f ELSE f \o <<"&">>
    BY <1>2
  <2> HIDE DEF k, v, f, q
  <2>3. /\ f \in Seq(FormToken) /\ Len(f) = Len(k) + 1 + Len(v)
        /\ \A j \in 1 .. Len(k) : f[j] = k[j]
        /\ f[Len(k) + 1] = "="
        /\ \A j \in 1 .. Len(v) : f[Len(k) + 1 + j] = v[j]
        /\ f \o <<"&">> \in Seq(FormToken) /\ Len(f \o <<"&">>) = Len(f) + 1
        /\ \A j \in 1 .. Len(f) : (f \o <<"&">>)[j] = f[j]
        /\ (f \o <<"&">>)[Len(f) + 1] = "&"
    <3>1. Joins(q[1], q[2], Field(q))
      BY <2>1, FieldIs
    <3>2. Joins(k, v, f)
      BY <2>1, <3>1
    <3> QED BY <3>2 DEF Joins
  <2>4. Len(k) \in Nat /\ Len(v) \in Nat
    BY <2>1 DEF FieldText
  <2> DEFINE g == f \o <<"&">>
  <2>5. part(i) = IF i = m THEN f ELSE g
    BY <2>2
  <2>6. /\ g \in Seq(FormToken) /\ Len(g) = Len(k) + Len(v) + 2
        /\ \A j \in 1 .. Len(k) : g[j] = k[j]
        /\ g[Len(k) + 1] = "="
        /\ \A j \in 1 .. Len(v) : g[Len(k) + 1 + j] = v[j]
        /\ g[Len(g)] = "&"
    <3>1. /\ g \in Seq(FormToken) /\ Len(g) = Len(f) + 1
          /\ \A j \in 1 .. Len(f) : g[j] = f[j]
          /\ g[Len(f) + 1] = "&"
      BY <2>3
    <3> HIDE DEF g
    <3> QED BY <2>3, <2>4, <3>1
  <2>7. Len(f) = Len(k) + Len(v) + 1
    BY <2>3, <2>4
  <2> HIDE DEF g, part
  <2>8. CASE i = m
    <3>1. part(i) = f
      BY <2>5, <2>8
    <3> QED BY <3>1, <2>3, <2>4, <2>7, <2>8 DEF k, v
  <2>9. CASE i # m
    <3>1. part(i) = g
      BY <2>5, <2>9
    <3> QED BY <3>1, <2>6, <2>4, <2>9 DEF k, v
  <2> QED BY <2>8, <2>9
<1>4. /\ FormParts(form) \in Seq(Seq(FormToken)) /\ Len(FormParts(form)) = m
      /\ FormParts(form) # <<>>
  <2>1. \A i \in 1 .. m : FormParts(form)[i] \in Seq(FormToken)
    BY <1>3
  <2>2. FormParts(form) = [i \in 1 .. m |-> FormParts(form)[i]]
    BY <1>2
  <2> QED BY <1>1, <2>1, <2>2
<1>5. PICK at \in [0 .. m -> Nat] :
        /\ at[0] = 0
        /\ body \in Seq(FormToken) /\ Len(body) = at[m]
        /\ \A i \in 1 .. m :
             /\ at[i] = at[i - 1] + Len(part(i)) /\ at[i] <= Len(body)
             /\ \A j \in 1 .. Len(part(i)) : body[at[i - 1] + j] = part(i)[j]
  <2> DEFINE parts == FormParts(form)
  <2>0. parts \in Seq(Seq(FormToken)) /\ parts # <<>>
    BY <1>4
  <2>1. body = FlattenSeq(parts)
    BY DEF FormText
  <2> HIDE DEF parts, body
  <2>2. body \in Seq(FormToken) /\ \E at : Laid(parts, body, at)
    BY <2>0, <2>1, Flattened
  <2>3. Len(parts) = m
    BY <1>4 DEF parts
  <2> QED BY <2>2, <2>3 DEF parts, Laid
<1> HIDE DEF part, body
<1>6. ASSUME NEW i \in 1 .. m
      PROVE  LET k == form[i][1]
                 v == form[i][2]
             IN  /\ i # m => at[i] = at[i - 1] + Len(k) + Len(v) + 2
                 /\ i = m => at[i] = at[i - 1] + Len(k) + Len(v) + 1
                 /\ \A j \in 1 .. Len(k) : body[at[i - 1] + j] = k[j]
                 /\ body[at[i - 1] + Len(k) + 1] = "="
                 /\ \A j \in 1 .. Len(v) : body[at[i - 1] + Len(k) + 1 + j] = v[j]
                 /\ i # m => body[at[i]] = "&"
  <2> DEFINE k == form[i][1]
             v == form[i][2]
             p == part(i)
             b == at[i - 1]
  <2>1. /\ i # m => Len(p) = Len(k) + Len(v) + 2
        /\ i = m => Len(p) = Len(k) + Len(v) + 1
        /\ \A j \in 1 .. Len(k) : p[j] = k[j]
        /\ p[Len(k) + 1] = "="
        /\ \A j \in 1 .. Len(v) : p[Len(k) + 1 + j] = v[j]
        /\ i # m => p[Len(p)] = "&"
        /\ Len(k) \in Nat /\ Len(v) \in Nat
    BY <1>3
  <2>2. b \in Nat
    <3>1. i - 1 \in 0 .. m
      BY <1>1
    <3> QED BY <3>1, <1>5
  <2>3. at[i] = b + Len(p) /\ \A j \in 1 .. Len(p) : body[b + j] = p[j]
    BY <1>5
  <2> HIDE DEF k, v, p, b
  <2>4. /\ i # m => at[i] = b + Len(k) + Len(v) + 2
        /\ i = m => at[i] = b + Len(k) + Len(v) + 1
    <3>1. /\ i # m => Len(p) = Len(k) + Len(v) + 2
          /\ i = m => Len(p) = Len(k) + Len(v) + 1
          /\ Len(k) \in Nat /\ Len(v) \in Nat
      BY <2>1
    <3>2. at[i] = b + Len(p)
      BY <2>3
    <3>3. CASE i = m
      BY ONLY <3>1, <3>2, <3>3, <2>2
    <3>4. CASE i # m
      <4>1. Len(p) = Len(k) + Len(v) + 2
        BY <3>1, <3>4
      <4>2. at[i] = b + Len(k) + Len(v) + 2
        BY ONLY <3>1, <3>2, <4>1, <2>2
      <4> QED BY <3>4, <4>2
    <3> QED BY <3>3, <3>4
  <2>5. Len(p) \in Nat /\ Len(p) >= Len(k) + Len(v) + 1
    BY <2>1
  <2>6. \A j \in 1 .. Len(k) : body[b + j] = k[j]
    BY ONLY <2>1, <2>3, <2>5
  <2>7. body[b + Len(k) + 1] = "="
    <3>1. b + Len(k) + 1 = b + (Len(k) + 1) /\ Len(k) + 1 \in 1 .. Len(p)
      BY ONLY <2>1, <2>2, <2>5
    <3> QED BY ONLY <3>1, <2>1, <2>3
  <2>8. ASSUME NEW j \in 1 .. Len(v) PROVE body[b + Len(k) + 1 + j] = v[j]
    <3>1. b + Len(k) + 1 + j = b + (Len(k) + 1 + j) /\ Len(k) + 1 + j \in 1 .. Len(p)
      BY ONLY <2>1, <2>2, <2>5, j \in 1 .. Len(v)
    <3>2. p[Len(k) + 1 + j] = v[j]
      BY ONLY <2>1, j \in 1 .. Len(v)
    <3> QED BY ONLY <3>1, <3>2, <2>3
  <2>9. i # m => body[at[i]] = "&"
    <3>1. i # m => Len(p) \in 1 .. Len(p)
      BY ONLY <2>1, <2>5
    <3> QED BY ONLY <3>1, <2>1, <2>3
  <2> QED BY ONLY <2>4, <2>6, <2>7, <2>8, <2>9 DEF k, v, b
<1>7. Places(form, body, at)
  BY <1>1, <1>5, <1>6 DEF Places
<1> QED BY <1>5, <1>7 DEF body

\* The last of the first n places of a text where one of the tokens in D stands.
LEMMA LastPlace ==
  ASSUME NEW n \in Nat, NEW T \in SUBSET (1 .. n), NEW q \in 0 .. n,
         q = 0 \/ q \in T, \A k \in q + 1 .. n : k \notin T
  PROVE  (IF T # {} THEN Max(T) ELSE 0) = q
<1>1. CASE T = {}
  BY <1>1
<1>2. CASE T # {}
  <2>1. \A k \in T : k <= q
    <3> TAKE k \in T
    <3>1. k \in 1 .. n /\ k \notin q + 1 .. n
      OBVIOUS
    <3> QED BY <3>1
  <2>2. q \in T
    <3>1. PICK k \in T : TRUE
      BY <1>2
    <3>2. k \in 1 .. n /\ k <= q
      BY <2>1
    <3> QED BY <3>2
  <2>3. \A x \in T : (\A y \in T : x >= y) => x = q
    <3> TAKE x \in T
    <3>1. x \in Nat /\ x <= q
      BY <2>1
    <3> QED BY <2>2, <3>1
  <2>4. \A y \in T : q >= y
    BY <2>1
  <2>5. Max(T) = q
    BY <2>2, <2>3, <2>4 DEF Max
  <2> QED BY <1>2, <2>5
<1> QED BY <1>1, <1>2

LEMMA AfterIs ==
  ASSUME NEW body, NEW i \in Nat \ {0}, NEW q \in 0 .. i - 1,
         q = 0 \/ body[q] \in {"=", "&"}, \A k \in q + 1 .. i - 1 : body[k] \notin {"=", "&"}
  PROVE  After(body, i) = q + 1
<1> DEFINE T == {k \in 1 .. i - 1 : body[k] \in {"=", "&"}}
<1>1. After(body, i) = 1 + (IF T # {} THEN Max(T) ELSE 0)
  BY DEF After, SelectLastInSubSeq
<1>2. i - 1 \in Nat /\ T \in SUBSET (1 .. i - 1) /\ (q = 0 \/ q \in T)
  OBVIOUS
<1>3. \A k \in q + 1 .. i - 1 : k \notin T
  OBVIOUS
<1> HIDE DEF T
<1>4. (IF T # {} THEN Max(T) ELSE 0) = q
  BY <1>2, <1>3, LastPlace
<1> QED BY <1>1, <1>4

LEMMA KeyIs ==
  ASSUME NEW body, NEW i \in Nat \ {0}, NEW q \in 1 .. i - 1,
         body[q] = "=", \A k \in q + 1 .. i - 1 : body[k] # "="
  PROVE  KeyAt(body, i) = SubSeq(Decoded(body), After(body, q), q - 1)
<1> DEFINE T == {k \in 1 .. i - 1 : body[k] = "="}
           eq == SelectLastInSubSeq(body, 1, i - 1, LAMBDA t : t = "=")
<1>1. eq = IF T # {} THEN Max(T) ELSE 0
  BY DEF SelectLastInSubSeq
<1>2. i - 1 \in Nat /\ T \in SUBSET (1 .. i - 1) /\ q \in T /\ q \in 0 .. i - 1
  OBVIOUS
<1>3. \A k \in q + 1 .. i - 1 : k \notin T
  OBVIOUS
<1> HIDE DEF T
<1>4. (IF T # {} THEN Max(T) ELSE 0) = q
  BY <1>2, <1>3, LastPlace
<1>5. eq = q /\ q # 0
  BY <1>1, <1>4
<1> QED BY <1>5 DEF KeyAt

\* A part of a text, read, is the text that stands there, read.
LEMMA PartDecoded ==
  ASSUME NEW S, NEW body \in Seq(S), NEW k \in Seq(S), NEW b \in Nat,
         b + Len(k) <= Len(body), \A j \in 1 .. Len(k) : body[b + j] = k[j]
  PROVE  SubSeq(Decoded(body), b + 1, b + Len(k)) = Decoded(k)
<1> DEFINE D(t) == IF t = "+" THEN " " ELSE IF t = "%41" THEN "%?" ELSE t
           V == {D(t) : t \in S}
           d == Decoded(body)
           s == SubSeq(d, b + 1, b + Len(k))
<1>1. /\ Len(body) \in Nat /\ Len(k) \in Nat
      /\ DOMAIN body = 1 .. Len(body) /\ DOMAIN k = 1 .. Len(k)
  OBVIOUS
<1>2. d = [i \in 1 .. Len(body) |-> D(body[i])] /\ Decoded(k) = [i \in 1 .. Len(k) |-> D(k[i])]
  BY <1>1 DEF Decoded
<1>3. \A i \in 1 .. Len(body) : D(body[i]) \in V
  <2> TAKE i \in 1 .. Len(body)
  <2> DEFINE token == body[i]
  <2>1. token \in S
    OBVIOUS
  <2> HIDE DEF token, D
  <2> QED BY <2>1
<1> HIDE DEF d, D, V
<1>4. d \in Seq(V) /\ Len(d) = Len(body)
  BY <1>1, <1>2, <1>3
<1>5. /\ s \in Seq(V) /\ Len(s) = Len(k)
      /\ \A j \in 1 .. Len(k) : s[j] = d[b + j]
  <2>1. b + 1 \in Int /\ b + Len(k) \in Int /\ \A i \in b + 1 .. b + Len(k) : d[i] \in V
    BY <1>1, <1>4
  <2>2. /\ s \in Seq(V)
        /\ Len(s) = IF b + 1 <= b + Len(k) THEN (b + Len(k)) - (b + 1) + 1 ELSE 0
        /\ \A j \in 1 .. (b + Len(k)) - (b + 1) + 1 : s[j] = d[(b + 1) + j - 1]
    BY <2>1, SubSeqProperties
  <2>3. (b + Len(k)) - (b + 1) + 1 = Len(k) /\ \A j \in Nat : (b + 1) + j - 1 = b + j
    BY <1>1
  <2> HIDE DEF s
  <2> QED BY <1>1, <2>2, <2>3
<1> HIDE DEF s
<1>6. \A j \in 1 .. Len(k) : s[j] = D(k[j])
  <2> TAKE j \in 1 .. Len(k)
  <2>1. b + j \in 1 .. Len(body)
    BY <1>1
  <2>2. d[b + j] = D(body[b + j]) /\ body[b + j] = k[j]
    BY <1>2, <2>1
  <2> QED BY <1>5, <2>2
<1>7. s = [j \in 1 .. Len(k) |-> s[j]]
  BY <1>1, <1>5
<1>8. s = Decoded(k)
  BY <1>2, <1>6, <1>7
<1> QED BY <1>8 DEF s, d

\* Where field i of a form ends, the parser reads its name and its value.
LEMMA FieldRead ==
  ASSUME NEW form \in Seq(FieldText \X FieldText), NEW body \in Seq(FormToken),
         NEW at, Places(form, body, at), NEW i \in 1 .. Len(form),
         NEW end, end = IF i = Len(form) THEN Len(body) + 1 ELSE at[i]
  PROVE  /\ KeyAt(body, end) = Decoded(form[i][1])
         /\ ValueAt(body, end) = Decoded(form[i][2])
         /\ After(body, end) = end <=> form[i][2] = <<>>
         /\ end \in 1 .. Len(body) + 1
<1> DEFINE k == form[i][1]
           v == form[i][2]
           b == at[i - 1]
           q == b + Len(k) + 1
<1>1. k \in FieldText /\ v \in FieldText
  OBVIOUS
<1>2. /\ Len(k) \in Nat /\ Len(v) \in Nat
      /\ \A j \in 1 .. Len(k) : k[j] \notin {"=", "&"}
      /\ \A j \in 1 .. Len(v) : v[j] \notin {"=", "&"}
      /\ k \in Seq(FormToken) /\ v \in Seq(FormToken)
  <2>1. /\ Len(k) \in Nat /\ Len(v) \in Nat
        /\ \A j \in 1 .. Len(k) : k[j] \in Word \cup {"+", "%41"}
        /\ \A j \in 1 .. Len(v) : v[j] \in Word \cup {"+", "%41"}
        /\ k \in Seq(FormToken) /\ v \in Seq(FormToken)
    BY <1>1 DEF FieldText, FormToken
  <2>2. \A t \in Word \cup {"+", "%41"} : t \notin {"=", "&"}
    BY HttpAssumption DEF Delimiter
  <2> QED BY <2>1, <2>2
<1>3. /\ Len(form) \in Nat /\ i \in Nat /\ i >= 1 /\ i <= Len(form)
      /\ i - 1 \in 0 .. Len(form) /\ i \in 0 .. Len(form) /\ Len(form) \in 0 .. Len(form)
      /\ Len(body) \in Nat
  OBVIOUS
<1>4. b \in Nat /\ at[i] \in Nat /\ at[Len(form)] = Len(body)
  BY <1>3 DEF Places
<1>5. /\ i # Len(form) => at[i] = b + Len(k) + Len(v) + 2
      /\ i = Len(form) => at[i] = b + Len(k) + Len(v) + 1
      /\ \A j \in 1 .. Len(k) : body[b + j] = k[j]
      /\ body[q] = "="
      /\ \A j \in 1 .. Len(v) : body[q + j] = v[j]
      /\ i # Len(form) => body[at[i]] = "&"
  BY DEF Places
<1>6. b = 0 \/ body[b] = "&"
  <2>1. CASE i = 1
    BY <2>1 DEF Places
  <2>2. CASE i # 1
    <3>1. i - 1 \in 1 .. Len(form) /\ i - 1 # Len(form)
      BY <1>3, <2>2
    <3> QED BY <3>1 DEF Places
  <2> QED BY <2>1, <2>2
<1>7. at[i] <= Len(body)
  BY DEF Places
<1> HIDE DEF k, v, b
<1>8. q \in Nat /\ q >= 1 /\ q = b + Len(k) + 1 /\ q - 1 = b + Len(k) /\ b \in 0 .. q - 1 /\ q \in Nat \ {0}
  BY <1>2, <1>4
<1> HIDE DEF q
<1>9. end = q + Len(v) + 1 /\ end \in 1 .. Len(body) + 1 /\ q + Len(v) <= Len(body) /\ b + Len(k) <= Len(body)
  <2>1. CASE i = Len(form)
    <3>1. Len(body) = b + Len(k) + Len(v) + 1
      BY <2>1, <1>4, <1>5
    <3> QED BY ONLY <2>1, <3>1, <1>2, <1>4, <1>8, end = IF i = Len(form) THEN Len(body) + 1 ELSE at[i]
  <2>2. CASE i # Len(form)
    <3>1. at[i] = b + Len(k) + Len(v) + 2 /\ end = at[i]
      BY <2>2, <1>5
    <3> QED BY ONLY <3>1, <1>2, <1>3, <1>4, <1>7, <1>8
  <2> QED BY <2>1, <2>2
<1>10. After(body, q) = b + 1
  <2>1. \A n \in b + 1 .. q - 1 : body[n] \notin {"=", "&"}
    <3> TAKE n \in b + 1 .. q - 1
    <3>1. n - b \in 1 .. Len(k) /\ b + (n - b) = n
      BY <1>2, <1>4, <1>8
    <3>2. body[b + (n - b)] = k[n - b] /\ k[n - b] \notin {"=", "&"}
      BY <3>1, <1>2, <1>5
    <3> QED BY <3>1, <3>2
  <2> QED BY <1>6, <1>8, <2>1, AfterIs
<1>11. \A n \in q + 1 .. end - 1 : body[n] \notin {"=", "&"}
  <2> TAKE n \in q + 1 .. end - 1
  <2>1. n - q \in 1 .. Len(v) /\ q + (n - q) = n
    BY <1>2, <1>8, <1>9
  <2>2. body[q + (n - q)] = v[n - q] /\ v[n - q] \notin {"=", "&"}
    BY <2>1, <1>2, <1>5
  <2> QED BY <2>1, <2>2
<1>12. end \in Nat \ {0} /\ q \in 1 .. end - 1 /\ q \in 0 .. end - 1 /\ end - 1 = q + Len(v)
  <2>1. end = q + Len(v) + 1 /\ Len(v) \in Nat /\ q \in Nat /\ q >= 1
    BY <1>2, <1>8, <1>9
  <2> QED BY ONLY <2>1
<1>13. After(body, end) = q + 1
  BY <1>5, <1>11, <1>12, AfterIs, SMTT(30)
<1>14. KeyAt(body, end) = SubSeq(Decoded(body), b + 1, b + Len(k))
  <2>1. body[q] = "=" /\ \A n \in q + 1 .. end - 1 : body[n] # "="
    BY <1>5, <1>11
  <2>2. KeyAt(body, end) = SubSeq(Decoded(body), After(body, q), q - 1)
    BY <1>12, <2>1, KeyIs
  <2> QED BY <1>8, <1>10, <2>2
<1>15. ValueAt(body, end) = SubSeq(Decoded(body), q + 1, q + Len(v))
  BY <1>12, <1>13 DEF ValueAt
<1>16. SubSeq(Decoded(body), b + 1, b + Len(k)) = Decoded(k)
  <2>1. \A j \in 1 .. Len(k) : body[b + j] = k[j]
    BY <1>5
  <2>2. k \in Seq(FormToken) /\ b \in Nat /\ b + Len(k) <= Len(body)
    <3>1. /\ k \in Seq(FormToken) /\ b \in Nat
          /\ Len(k) \in Nat /\ Len(v) \in Nat /\ Len(body) \in Nat
      BY <1>2, <1>4
    <3>2. q + Len(v) <= Len(body) /\ q = b + Len(k) + 1
      BY <1>2, <1>8, <1>9
    <3> QED BY ONLY <3>1, <3>2
  <2> QED BY <2>1, <2>2, PartDecoded
<1>17. SubSeq(Decoded(body), q + 1, q + Len(v)) = Decoded(v)
  <2>1. \A j \in 1 .. Len(v) : body[q + j] = v[j]
    BY <1>5
  <2>2. v \in Seq(FormToken) /\ q \in Nat /\ q + Len(v) <= Len(body)
    BY <1>2, <1>8, <1>9
  <2> QED BY <2>1, <2>2, PartDecoded
<1>18. After(body, end) = end <=> v = <<>>
  <2>1. v = <<>> <=> Len(v) = 0
    BY <1>2
  <2>2. end = q + Len(v) + 1 /\ Len(v) \in Nat /\ q \in Nat
    BY <1>2, <1>8, <1>9
  <2> QED BY ONLY <1>13, <2>1, <2>2
<1> QED BY <1>9, <1>14, <1>15, <1>16, <1>17, <1>18 DEF k, v

\* A '&' in the text of a form ends a field that is not the last.
LEMMA AmpersandEnds ==
  ASSUME NEW form \in Seq(FieldText \X FieldText), form # <<>>, NEW body \in Seq(FormToken),
         NEW at, Places(form, body, at), NEW p \in 1 .. Len(body), body[p] = "&"
  PROVE  \E i \in 1 .. Len(form) : i # Len(form) /\ p = at[i]
<1> DEFINE m == Len(form)
           T == {i \in Nat : i \in 1 .. m /\ p <= at[i]}
<1>1. /\ m \in Nat /\ m >= 1 /\ Len(body) \in Nat /\ p \in Nat /\ p >= 1
      /\ \A i \in 1 .. m : form[i][1] \in FieldText /\ form[i][2] \in FieldText
  OBVIOUS
<1>2. at[0] = 0 /\ at[m] = Len(body) /\ \A i \in 0 .. m : at[i] \in Nat
  BY DEF Places
<1>3. PICK i \in T : \A k \in T : i <= k
  <2>1. T \in SUBSET Nat /\ m \in T
    BY <1>1, <1>2
  <2> HIDE DEF T
  <2> QED BY <2>1, Least
<1> DEFINE k == form[i][1]
           v == form[i][2]
           b == at[i - 1]
           n == p - b
<1>4. i \in 1 .. m /\ i - 1 \in 0 .. m /\ p <= at[i] /\ b \in Nat /\ at[i] \in Nat
  BY <1>1, <1>2, <1>3
<1>5. b < p
  <2>1. CASE i = 1
    BY <2>1, <1>1, <1>2
  <2>2. CASE i # 1
    <3>1. i - 1 \in 1 .. m /\ ~(i <= i - 1) /\ i - 1 \in Nat
      BY <1>1, <1>4, <2>2
    <3>2. i - 1 \notin T
      <4> HIDE DEF T
      <4> QED BY <1>3, <3>1
    <3>3. ~(p <= at[i - 1])
      BY <3>1, <3>2
    <3> QED BY ONLY <1>1, <1>4, <3>3
  <2> QED BY <2>1, <2>2
<1>6. /\ Len(k) \in Nat /\ Len(v) \in Nat
      /\ \A j \in 1 .. Len(k) : k[j] # "&"
      /\ \A j \in 1 .. Len(v) : v[j] # "&"
  <2>1. k \in FieldText /\ v \in FieldText
    BY <1>1, <1>4
  <2>2. /\ Len(k) \in Nat /\ Len(v) \in Nat
        /\ \A j \in 1 .. Len(k) : k[j] \in Word \cup {"+", "%41"}
        /\ \A j \in 1 .. Len(v) : v[j] \in Word \cup {"+", "%41"}
    BY <2>1 DEF FieldText
  <2>3. \A t \in Word \cup {"+", "%41"} : t # "&"
    BY HttpAssumption DEF Delimiter
  <2> QED BY <2>2, <2>3
<1>7. /\ i # m => at[i] = b + Len(k) + Len(v) + 2
      /\ i = m => at[i] = b + Len(k) + Len(v) + 1
      /\ \A j \in 1 .. Len(k) : body[b + j] = k[j]
      /\ body[b + Len(k) + 1] = "="
      /\ \A j \in 1 .. Len(v) : body[b + Len(k) + 1 + j] = v[j]
  BY <1>4 DEF Places
<1> HIDE DEF m, T, k, v, b, n
<1>8. n \in Nat /\ n >= 1 /\ p = b + n
  BY ONLY <1>1, <1>4, <1>5 DEF n
<1>9. n \notin 1 .. Len(k)
  BY <1>6, <1>7, <1>8
<1>10. n # Len(k) + 1
  <2>1. n = Len(k) + 1 => p = b + Len(k) + 1
    BY <1>4, <1>6, <1>8
  <2> QED BY <2>1, <1>7
<1>11. ~(n - Len(k) - 1 \in 1 .. Len(v))
  <2> SUFFICES ASSUME n - Len(k) - 1 \in 1 .. Len(v) PROVE FALSE
    OBVIOUS
  <2>1. p = b + Len(k) + 1 + (n - Len(k) - 1)
    BY <1>4, <1>6, <1>8
  <2>2. body[b + Len(k) + 1 + (n - Len(k) - 1)] # "&"
    BY <1>6, <1>7
  <2> QED BY <2>1, <2>2
<1>12. n >= Len(k) + Len(v) + 2
  BY ONLY <1>6, <1>8, <1>9, <1>10, <1>11
<1>13. p >= b + Len(k) + Len(v) + 2
  BY ONLY <1>4, <1>6, <1>8, <1>12
<1>14. i # m /\ p = at[i]
  <2>1. CASE i = m
    <3>1. at[i] = b + Len(k) + Len(v) + 1
      BY <1>7, <2>1
    <3> QED BY ONLY <3>1, <1>1, <1>4, <1>6, <1>13
  <2>2. CASE i # m
    <3>1. at[i] = b + Len(k) + Len(v) + 2
      BY <1>7, <2>2
    <3>2. p = at[i]
      <4>1. p \in Nat /\ p <= at[i] /\ at[i] <= p
        BY <1>1, <1>4, <1>13, <3>1
      <4>2. at[i] \in Nat
        BY <1>4
      <4> QED BY ONLY <4>1, <4>2
    <3> QED BY <2>2, <3>2
  <2> QED BY <2>1, <2>2
<1> QED BY <1>4, <1>14 DEF m

LEMMA NothingDecoded == Decoded(<<>>) = <<>>
BY DEF Decoded

\* The parser keeps, for each name in a form, one of its values in it.
FormRead(form, post) ==
  /\ \A k \in DOMAIN post : \E j \in 1 .. Len(form) :
       k = Decoded(form[j][1]) /\ post[k] = Decoded(form[j][2])
  /\ \A j \in 1 .. Len(form) : Decoded(form[j][1]) \in DOMAIN post \/ form[j][2] = <<>>

LEMMA FieldsMean ==
  ASSUME NEW form \in Seq(FieldText \X FieldText), form # <<>>
  PROVE  FormRead(form, Fields(FormText(form)))
<1> DEFINE body == FormText(form)
           m == Len(form)
           ends == {i \in 1 .. Len(body) : body[i] = "&"}
           Right(i, k) == /\ KeyAt(body, i) = k
                          /\ \A h \in ends : KeyAt(body, h) = k => h <= i
           EndOf(k) == CHOOSE i \in ends : Right(i, k)
           post == [k \in {KeyAt(body, i) : i \in ends} |-> ValueAt(body, EndOf(k))]
           end  == Len(body) + 1
           F == Fields(body)
           Of(k, value) == \E j \in 1 .. m : k = Decoded(form[j][1]) /\ value = Decoded(form[j][2])
<1>1. PICK at : body \in Seq(FormToken) /\ Places(form, body, at)
  BY FormPlaces
<1>2. F = IF KeyAt(body, end) \in DOMAIN post \/ After(body, end) = end
          THEN post ELSE Insert(post, KeyAt(body, end), ValueAt(body, end))
  BY DEF Fields
<1> HIDE DEF body, F
<1>3. Len(body) \in Nat /\ m \in Nat /\ m >= 1
  BY <1>1
<1>4. ASSUME NEW i \in ends
      PROVE  Of(KeyAt(body, i), ValueAt(body, i))
  <2>1. i \in 1 .. Len(body) /\ body[i] = "&"
    OBVIOUS
  <2>2. PICK j \in 1 .. m : j # m /\ i = at[j]
    BY <1>1, <2>1, AmpersandEnds
  <2>3. i = IF j = m THEN Len(body) + 1 ELSE at[j]
    BY <2>2
  <2>4. KeyAt(body, i) = Decoded(form[j][1]) /\ ValueAt(body, i) = Decoded(form[j][2])
    BY <1>1, <2>3, FieldRead
  <2> QED BY <2>4
<1>5. ASSUME NEW k \in DOMAIN post PROVE Of(k, post[k])
  <2> DEFINE T == {i \in ends : KeyAt(body, i) = k}
  <2>1. PICK i \in T : \A h \in T : h <= i
    <3>1. T \in SUBSET (0 .. Len(body)) /\ T # {}
      BY <1>3
    <3> HIDE DEF T
    <3> QED BY <1>3, <3>1, Greatest
  <2>2. EndOf(k) \in ends /\ Right(EndOf(k), k)
    <3>1. i \in ends /\ Right(i, k)
      BY <2>1
    <3> HIDE DEF ends, Right
    <3> QED BY <3>1
  <2>3. post[k] = ValueAt(body, EndOf(k))
    OBVIOUS
  <2> DEFINE e == EndOf(k)
  <2>4. e \in ends /\ KeyAt(body, e) = k /\ post[k] = ValueAt(body, e)
    BY <2>2, <2>3
  <2> HIDE DEF e, post, ends, Of
  <2> QED BY <1>4, <2>4
<1>6. /\ KeyAt(body, end) = Decoded(form[m][1])
      /\ ValueAt(body, end) = Decoded(form[m][2])
      /\ After(body, end) = end <=> form[m][2] = <<>>
  <2>1. m \in 1 .. m /\ end = IF m = m THEN Len(body) + 1 ELSE at[m]
    BY <1>3
  <2> HIDE DEF end
  <2> QED BY <1>1, <2>1, FieldRead
<1>7. ASSUME NEW j \in 1 .. m, j # m PROVE Decoded(form[j][1]) \in DOMAIN post
  <2> DEFINE e == at[j]
  <2>1. e = IF j = m THEN Len(body) + 1 ELSE at[j]
    BY <1>7
  <2>2. KeyAt(body, at[j]) = Decoded(form[j][1]) /\ at[j] \in 1 .. Len(body) + 1
    <3> HIDE DEF e
    <3>1. body \in Seq(FormToken) /\ Places(form, body, at) /\ j \in 1 .. Len(form)
      BY <1>1
    <3>2. KeyAt(body, e) = Decoded(form[j][1])
      BY <2>1, <3>1, FieldRead, SMTT(30)
    <3>3. e \in 1 .. Len(body) + 1
      BY <2>1, <3>1, FieldRead
    <3> QED BY <3>2, <3>3 DEF e
  <2>3. at[j] <= Len(body) /\ body[at[j]] = "&"
    BY <1>1, <1>7 DEF Places
  <2>4. at[j] \in ends
    BY <1>3, <2>2, <2>3
  <2> HIDE DEF ends
  <2> QED BY <2>2, <2>4
<1>8. DOMAIN post \subseteq DOMAIN F /\ \A k \in DOMAIN post : F[k] = post[k]
  BY <1>2 DEF Insert
<1>9. \A k \in DOMAIN F : Of(k, F[k])
  <2>1. CASE F = post
    BY <1>5, <2>1
  <2>2. CASE F = Insert(post, KeyAt(body, end), ValueAt(body, end)) /\ KeyAt(body, end) \notin DOMAIN post
    <3> TAKE k \in DOMAIN F
    <3>1. \/ k \in DOMAIN post /\ F[k] = post[k]
          \/ k = KeyAt(body, end) /\ F[k] = ValueAt(body, end)
      BY <2>2 DEF Insert
    <3>2. Of(KeyAt(body, end), ValueAt(body, end))
      <4>1. m \in 1 .. m
        BY <1>3
      <4> QED BY <1>6, <4>1
    <3> HIDE DEF post, Of
    <3> QED BY <1>5, <3>1, <3>2
  <2> HIDE DEF post, end
  <2> QED BY <1>2, <2>1, <2>2
<1>10. \A j \in 1 .. m : Decoded(form[j][1]) \in DOMAIN F \/ form[j][2] = <<>>
  <2> TAKE j \in 1 .. m
  <2>1. CASE j # m
    <3> HIDE DEF post
    <3> QED BY <1>7, <1>8, <2>1
  <2>2. CASE j = m
    <3>1. CASE F = post
      <4> HIDE DEF post, end
      <4>1. KeyAt(body, end) \in DOMAIN post \/ After(body, end) = end
             \/ Insert(post, KeyAt(body, end), ValueAt(body, end)) = post
        BY <1>2, <3>1
      <4>2. KeyAt(body, end) \in DOMAIN Insert(post, KeyAt(body, end), ValueAt(body, end))
        BY DEF Insert
      <4> QED BY <1>6, <2>2, <3>1, <4>1, <4>2
    <3>2. CASE F = Insert(post, KeyAt(body, end), ValueAt(body, end))
      BY <1>6, <2>2, <3>2 DEF Insert
    <3> HIDE DEF post, end
    <3> QED BY <1>2, <3>1, <3>2
  <2> QED BY <2>1, <2>2
<1> QED BY <1>9, <1>10 DEF FormRead, F, body

\* What a client without escapes meant by its form, and that a welcome needs a
\* name and a password.
LEMMA FormMeans ==
  ASSUME NEW r \in RequestType, r.form # <<>>,
         NEW post, post = Fields(FormText(r.form))
  PROVE  /\ "%41" \notin ToSet(FormText(r.form)) =>
              \A i \in DOMAIN r.form : \E k \in DOMAIN r.form :
                /\ Plain(r.form[k][1]) = Plain(r.form[i][1])
                /\ Lookup(post, Plain(r.form[i][1])) = Plain(r.form[k][2])
         /\ \A w \in {"username", "password"} :
              Lookup(post, <<w>>) # <<>> => HasField(r, <<w>>)
<1> DEFINE form == r.form
           m == Len(form)
           body == FormText(form)
<1>1. form \in Seq(FieldText \X FieldText) /\ form # <<>>
  BY DEF RequestType
<1> HIDE DEF form
<1>2. /\ m \in Nat /\ m >= 1 /\ DOMAIN form = 1 .. m
      /\ \A i \in 1 .. m : form[i][1] \in FieldText /\ form[i][2] \in FieldText
  BY <1>1
<1>3. /\ \A k \in DOMAIN post : \E j \in 1 .. m :
           k = Decoded(form[j][1]) /\ post[k] = Decoded(form[j][2])
      /\ \A j \in 1 .. m : Decoded(form[j][1]) \in DOMAIN post \/ form[j][2] = <<>>
  <2>1. post = Fields(FormText(form))
    BY DEF form
  <2>2. FormRead(form, post)
    BY <1>1, <2>1, FieldsMean
  <2> QED BY <2>2 DEF FormRead
<1>4. \A j \in 1 .. m : \E k \in 1 .. m :
        /\ Decoded(form[k][1]) = Decoded(form[j][1])
        /\ Lookup(post, Decoded(form[j][1])) = Decoded(form[k][2])
  <2> TAKE j \in 1 .. m
  <2>1. CASE Decoded(form[j][1]) \in DOMAIN post
    <3>1. PICK k \in 1 .. m : /\ Decoded(form[j][1]) = Decoded(form[k][1])
                              /\ post[Decoded(form[j][1])] = Decoded(form[k][2])
      BY <1>3, <2>1
    <3>2. Lookup(post, Decoded(form[j][1])) = post[Decoded(form[j][1])]
      BY <2>1 DEF Lookup
    <3> QED BY <3>1, <3>2
  <2>2. CASE Decoded(form[j][1]) \notin DOMAIN post
    <3>1. form[j][2] = <<>> /\ Lookup(post, Decoded(form[j][1])) = <<>>
      BY <1>3, <2>2 DEF Lookup
    <3> QED BY <3>1, NothingDecoded
  <2> QED BY <2>1, <2>2
<1>5. ASSUME "%41" \notin ToSet(body), NEW i \in 1 .. m, NEW h \in {1, 2}
      PROVE  Decoded(form[i][h]) = Plain(form[i][h])
  <2>1. PICK at : body \in Seq(FormToken) /\ Places(form, body, at)
    BY <1>1, FormPlaces
  <2> DEFINE t == form[i][h]
  <2>2. t \in FieldText
    BY <1>2
  <2> HIDE DEF body
  <2>3. \A n \in 1 .. Len(body) : body[n] # "%41"
    <3>1. DOMAIN body = 1 .. Len(body)
      BY <2>1
    <3> QED BY <3>1, <1>5 DEF ToSet
  <2> DEFINE b == IF h = 1 THEN at[i - 1] ELSE at[i - 1] + Len(form[i][1]) + 1
  <2>4. \A j \in 1 .. Len(t) : body[b + j] = t[j] /\ b + j \in 1 .. Len(body)
    <3>1. /\ i \in 1 .. Len(form) /\ i - 1 \in 0 .. Len(form)
          /\ i \in 0 .. Len(form)
      BY <1>2
    <3>2. /\ at[i - 1] \in Nat /\ at[i] \in Nat /\ at[i] <= Len(body)
          /\ i # Len(form) => at[i] = at[i - 1] + Len(form[i][1]) + Len(form[i][2]) + 2
          /\ i = Len(form) => at[i] = at[i - 1] + Len(form[i][1]) + Len(form[i][2]) + 1
          /\ \A j \in 1 .. Len(form[i][1]) : body[at[i - 1] + j] = form[i][1][j]
          /\ \A j \in 1 .. Len(form[i][2]) : body[at[i - 1] + Len(form[i][1]) + 1 + j] = form[i][2][j]
      BY <2>1, <3>1 DEF Places
    <3>3. Len(form[i][1]) \in Nat /\ Len(form[i][2]) \in Nat /\ Len(body) \in Nat
      BY <1>2, <2>1 DEF FieldText
    <3>6. at[i] >= at[i - 1] + Len(form[i][1]) + Len(form[i][2]) + 1
      <4>1. CASE i = Len(form)
        <5>1. at[i] = at[i - 1] + Len(form[i][1]) + Len(form[i][2]) + 1
          BY <3>2, <4>1
        <5> QED BY ONLY <5>1, <3>2, <3>3
      <4>2. CASE i # Len(form)
        <5>1. at[i] = at[i - 1] + Len(form[i][1]) + Len(form[i][2]) + 2
          BY <3>2, <4>2
        <5>2. at[i - 1] \in Nat
          BY <3>2
        <5>3. \A n1, n2, n3 \in Nat : n1 + n2 + n3 + 2 >= n1 + n2 + n3 + 1
          OBVIOUS
        <5>4. at[i - 1] + Len(form[i][1]) + Len(form[i][2]) + 2
                >= at[i - 1] + Len(form[i][1]) + Len(form[i][2]) + 1
          BY ONLY <3>3, <5>2, <5>3
        <5> QED BY ONLY <5>1, <5>4
      <4> QED BY <4>1, <4>2
    <3>7. at[i - 1] \in Nat /\ at[i] \in Nat /\ at[i] <= Len(body)
      BY <3>2
    <3>8. /\ \A j \in 1 .. Len(form[i][1]) : at[i - 1] + j \in 1 .. Len(body)
          /\ \A j \in 1 .. Len(form[i][2]) : at[i - 1] + Len(form[i][1]) + 1 + j \in 1 .. Len(body)
      <4> DEFINE k == Len(form[i][1])
                 v == Len(form[i][2])
                 x == at[i - 1]
                 y == at[i]
                 n == Len(body)
      <4>1. k \in Nat /\ v \in Nat /\ x \in Nat /\ y \in Nat /\ n \in Nat /\ y >= x + k + v + 1 /\ y <= n
        BY <3>3, <3>6, <3>7
      <4> HIDE DEF k, v, x, y, n
      <4>2. /\ \A j \in 1 .. k : x + j \in 1 .. n
            /\ \A j \in 1 .. v : x + k + 1 + j \in 1 .. n
        BY ONLY <4>1
      <4> QED BY <4>2 DEF k, v, x, n
    <3>4. CASE h = 1
      <4>1. b = at[i - 1] /\ t = form[i][1]
        BY <3>4
      <4> HIDE DEF t, b
      <4> QED BY <4>1, <3>2, <3>8
    <3>5. CASE h = 2
      <4>1. b = at[i - 1] + Len(form[i][1]) + 1 /\ t = form[i][2]
        BY <3>5
      <4> HIDE DEF t, b
      <4> QED BY <4>1, <3>2, <3>8
    <3> QED BY <3>4, <3>5
  <2>5. DOMAIN t = 1 .. Len(t)
    BY <2>2 DEF FieldText
  <2> HIDE DEF t, b
  <2>6. \A j \in DOMAIN t : t[j] # "%41"
    <3> TAKE j \in DOMAIN t
    <3>1. body[b + j] = t[j] /\ b + j \in 1 .. Len(body)
      BY <2>4, <2>5
    <3> QED BY <2>3, <3>1
  <2>7. Decoded(t) = Plain(t)
    BY <2>6 DEF Decoded, Plain
  <2> QED BY <2>7 DEF t
<1>6. ASSUME NEW w \in {"username", "password"}, Lookup(post, <<w>>) # <<>>
      PROVE  HasField(r, <<w>>)
  <2>1. <<w>> \in DOMAIN post /\ post[<<w>>] # <<>>
    BY <1>6 DEF Lookup
  <2>2. PICK j \in 1 .. m : <<w>> = Decoded(form[j][1]) /\ post[<<w>>] = Decoded(form[j][2])
    BY <1>3, <2>1
  <2> DEFINE k == form[j][1]
             d == Decoded(k)
  <2>3. k \in Seq(Word \cup {"+", "%41"})
    BY <1>2 DEF FieldText
  <2>4. DOMAIN d = DOMAIN k /\ \A i \in DOMAIN k :
          d[i] = IF k[i] = "+" THEN " " ELSE IF k[i] = "%41" THEN "%?" ELSE k[i]
    BY DEF Decoded
  <2>5. DOMAIN d = 1 .. 1 /\ d[1] = w
    BY <2>2
  <2> HIDE DEF k, d
  <2>6. k[1] = w /\ Len(k) = 1
    <3>1. DOMAIN k = 1 .. Len(k) /\ Len(k) \in Nat
      BY <2>3
    <3>2. 1 \in 1 .. Len(k) /\ 2 \notin 1 .. Len(k)
      <4>1. 1 .. Len(k) = 1 .. 1
        BY <2>4, <2>5, <3>1
      <4> QED BY ONLY <4>1
    <3>3. Len(k) = 1
      BY ONLY <3>1, <3>2
    <3>4. d[1] = IF k[1] = "+" THEN " " ELSE IF k[1] = "%41" THEN "%?" ELSE k[1]
      BY <2>4, <3>1, <3>2
    <3> QED BY <2>5, <3>3, <3>4
  <2>7. k = <<w>>
    BY <2>3, <2>6
  <2>8. form[j][2] # <<>>
    BY <2>1, <2>2, NothingDecoded
  <2>9. j \in DOMAIN r.form /\ r.form[j][1] = <<w>> /\ r.form[j][2] # <<>>
    BY <1>2, <2>7, <2>8 DEF k, form
  <2> QED BY <2>9 DEF HasField
<1>7. ASSUME "%41" \notin ToSet(body), NEW i \in DOMAIN form
      PROVE  \E k \in DOMAIN form :
                /\ Plain(form[k][1]) = Plain(form[i][1])
                /\ Lookup(post, Plain(form[i][1])) = Plain(form[k][2])
  <2>1. i \in 1 .. m
    BY <1>2
  <2>2. PICK k \in 1 .. m :
          /\ Decoded(form[k][1]) = Decoded(form[i][1])
          /\ Lookup(post, Decoded(form[i][1])) = Decoded(form[k][2])
    BY <1>4, <2>1
  <2>3. /\ Decoded(form[k][1]) = Plain(form[k][1]) /\ Decoded(form[i][1]) = Plain(form[i][1])
        /\ Decoded(form[k][2]) = Plain(form[k][2])
    <3> HIDE DEF body, m
    <3> QED BY <1>5, <1>7, <2>1
  <2> QED BY <1>2, <2>2, <2>3
<1> QED BY <1>6, <1>7 DEF form

-----------------------------------------------------------------------------
(* The lines of a request. *)

\* n tokens without CR, and then CR LF, are a line; so is what is left of a
\* buffer without LF.
IsLine(buf, n, m) ==
  /\ LineEnd(buf, n) = n + m + 1
  /\ Line(buf, n) \in Text /\ Len(Line(buf, n)) = m
  /\ \A i \in 1 .. m : Line(buf, n)[i] = buf[n + i]

LEMMA LineCut ==
  ASSUME NEW buf \in Text, NEW n \in Nat, NEW m \in Nat, n + m <= Len(buf),
         LineEnd(buf, n) = n + m + 1
  PROVE  IsLine(buf, n, m)
<1> DEFINE s == Line(buf, n)
<1>1. Len(buf) \in Nat /\ \A i \in 1 .. Len(buf) : buf[i] \in Token
  BY DEF Text
<1>2. s = SubSeq(buf, n + 1, n + m)
  <2>1. (n + m + 1) - 1 = n + m
    OBVIOUS
  <2> QED BY <2>1 DEF Line
<1>3. /\ s \in Seq(Token) /\ Len(s) = m
      /\ \A j \in 1 .. m : s[j] = buf[n + j]
  <2>1. n + 1 \in Int /\ n + m \in Int /\ \A i \in n + 1 .. n + m : buf[i] \in Token
    BY <1>1
  <2> DEFINE t == SubSeq(buf, n + 1, n + m)
  <2>2. /\ t \in Seq(Token)
        /\ Len(t) = IF n + 1 <= n + m THEN (n + m) - (n + 1) + 1 ELSE 0
        /\ \A j \in 1 .. (n + m) - (n + 1) + 1 : t[j] = buf[(n + 1) + j - 1]
    BY <2>1, SubSeqProperties
  <2>3. (n + m) - (n + 1) + 1 = m /\ \A j \in Nat : (n + 1) + j - 1 = n + j
    OBVIOUS
  <2>4. s = t
    BY <1>2
  <2> HIDE DEF s, t
  <2> QED BY <2>2, <2>3, <2>4
<1> QED BY <1>3 DEF IsLine, Text

LEMMA LineIs ==
  ASSUME NEW buf \in Text, NEW n \in Nat, NEW m \in Nat, n + m + 2 <= Len(buf),
         \A i \in n + 1 .. n + m : buf[i] # "CR",
         buf[n + m + 1] = "CR", buf[n + m + 2] = "LF"
  PROVE  IsLine(buf, n, m)
<1> DEFINE crlf == {i \in n + 1 .. Len(buf) - 1 : buf[i] = "CR" /\ buf[i + 1] = "LF"}
           e == n + m + 1
<1>1. Len(buf) \in Nat
  BY DEF Text
<1>2. e \in crlf
  <2>1. e \in n + 1 .. Len(buf) - 1 /\ e + 1 = n + m + 2
    BY <1>1
  <2> QED BY <2>1
<1>3. \A k \in crlf : e <= k
  <2> TAKE k \in crlf
  <2>1. k \in n + 1 .. Len(buf) - 1 /\ buf[k] = "CR"
    OBVIOUS
  <2>2. k \notin n + 1 .. n + m
    BY <2>1
  <2> QED BY ONLY <1>1, <2>1, <2>2, n \in Nat, m \in Nat
<1>4. LineEnd(buf, n) = CHOOSE i \in crlf : \A k \in crlf : i <= k
  BY <1>2 DEF LineEnd
<1>5. \A i \in crlf : (\A k \in crlf : i <= k) => i = e
  <2> TAKE i \in crlf
  <2>1. i \in Int /\ e \in Int
    BY <1>1
  <2> HIDE DEF crlf, e
  <2> QED BY <1>2, <1>3, <2>1
<1>6. LineEnd(buf, n) = e
  <2> HIDE DEF crlf, e
  <2> QED BY <1>2, <1>3, <1>4, <1>5
<1> QED BY <1>1, <1>6, LineCut

LEMMA LastLineIs ==
  ASSUME NEW buf \in Text, NEW n \in Nat, NEW m \in Nat, n + m = Len(buf),
         \A i \in n + 1 .. n + m : buf[i] # "CR"
  PROVE  IsLine(buf, n, m)
<1>1. {i \in n + 1 .. Len(buf) - 1 : buf[i] = "CR" /\ buf[i + 1] = "LF"} = {}
  OBVIOUS
<1>2. LineEnd(buf, n) = n + m + 1
  BY <1>1 DEF LineEnd
<1> QED BY <1>2, LineCut

LEMMA OneToken ==
  ASSUME NEW line \in Text, NEW i \in 1 .. Len(line)
  PROVE  SubSeq(line, i, i) = <<line[i]>>
<1>1. /\ SubSeq(line, i, i) \in Seq(Token)
      /\ Len(SubSeq(line, i, i)) = IF i <= i THEN i - i + 1 ELSE 0
      /\ \A j \in 1 .. i - i + 1 : SubSeq(line, i, i)[j] = line[i + j - 1]
  <2>1. i \in Int /\ \A j \in i .. i : line[j] \in Token
    BY DEF Text
  <2> QED BY <2>1, SubSeqProperties
<1> DEFINE s == SubSeq(line, i, i)
<1>2. s \in Seq(Token) /\ Len(s) = 1 /\ s[1] = line[i]
  <2>1. i \in Int /\ i - i + 1 = 1 /\ i + 1 - 1 = i
    BY DEF Text
  <2> HIDE DEF s
  <2> QED BY <1>1, <2>1 DEF s
<1> HIDE DEF s
<1>3. s = <<line[i]>>
  BY <1>2
<1> QED BY <1>3 DEF s

LEMMA MethodIsFirst ==
  ASSUME NEW line \in Text, Len(line) = 3, line[1] \in Method
  PROVE  MethodAt(line) = 1
<1> DEFINE I == {i \in 1 .. Len(line) : line[i] \in Method}
<1>1. MethodAt(line) = IF I # {} THEN Min(I) ELSE 0
  BY DEF MethodAt, SelectInSeq
<1>2. 1 \in I /\ \A y \in I : 1 <= y
  OBVIOUS
<1>3. \A x \in I : (\A y \in I : x <= y) => x = 1
  BY <1>2
<1> HIDE DEF I
<1>4. Min(I) = 1
  BY <1>2, <1>3 DEF Min
<1> QED BY <1>1, <1>2, <1>4

LEMMA ColonIs ==
  ASSUME NEW line \in Text, Len(line) >= 2, line[1] # ":", line[2] = ":"
  PROVE  Colon(line) = 2
<1> DEFINE I == {i \in 1 .. Len(line) : line[i] = ":"}
<1>1. Len(line) \in Nat
  BY DEF Text
<1>2. Colon(line) = IF I # {} THEN Min(I) ELSE 0
  BY DEF Colon, SelectInSeq
<1>3. 2 \in I /\ \A y \in I : 2 <= y
  <2>1. 2 \in I
    BY <1>1
  <2>2. ASSUME NEW y \in I PROVE 2 <= y
    <3>1. y \in 1 .. Len(line) /\ y # 1
      OBVIOUS
    <3> QED BY <1>1, <3>1
  <2> QED BY <2>1, <2>2
<1>4. \A x \in I : (\A y \in I : x <= y) => x = 2
  <2> TAKE x \in I
  <2>1. x \in Nat
    BY <1>1
  <2> HIDE DEF I
  <2> QED BY <1>3, <2>1
<1>5. Min(I) = 2
  <2> HIDE DEF I
  <2> QED BY <1>3, <1>4 DEF Min
<1> QED BY <1>2, <1>3, <1>5

\* A name, ':' and a value make a header.
HeaderRead(buf, n, name, value) ==
  /\ IsHeader(Line(buf, n))
  /\ SubSeq(Line(buf, n), 1, Colon(Line(buf, n)) - 1) = <<name>>
  /\ SubSeq(Line(buf, n), Colon(Line(buf, n)) + 1, Len(Line(buf, n))) = <<value>>
  /\ NextPos(buf, n) = n + 5
  /\ ~AtMostTwoBytesLeft(buf, n)

LEMMA HeaderIs ==
  ASSUME NEW buf \in Text, NEW n \in Nat, n + 7 <= Len(buf),
         NEW name, NEW value, name \notin {"CR", "LF", ":"}, value \notin {"CR", "LF"},
         buf[n + 1] = name, buf[n + 2] = ":", buf[n + 3] = value,
         buf[n + 4] = "CR", buf[n + 5] = "LF"
  PROVE  HeaderRead(buf, n, name, value)
<1> DEFINE line == Line(buf, n)
<1>1. Len(buf) \in Nat
  BY DEF Text
<1>2. IsLine(buf, n, 3)
  <2>1. \A i \in n + 1 .. n + 3 : buf[i] # "CR"
    <3> TAKE i \in n + 1 .. n + 3
    <3>1. i = n + 1 \/ i = n + 2 \/ i = n + 3
      OBVIOUS
    <3> QED BY <3>1
  <2>2. n + 3 + 1 = n + 4 /\ n + 3 + 2 = n + 5 /\ n + 3 + 2 <= Len(buf)
    BY <1>1
  <2> QED BY <2>1, <2>2, LineIs
<1>3. /\ line \in Text /\ Len(line) = 3
      /\ line[1] = name /\ line[2] = ":" /\ line[3] = value
  BY <1>2 DEF IsLine
<1>4. LineEnd(buf, n) = n + 4
  BY <1>2 DEF IsLine
<1> HIDE DEF line
<1>5. Colon(line) = 2
  BY <1>3, ColonIs
<1>6. IsHeader(line)
  <2>1. \A i \in 2 .. 3 : line[i] \notin {"CR", "LF"}
    <3> TAKE i \in 2 .. 3
    <3>1. i = 2 \/ i = 3
      OBVIOUS
    <3> QED BY <3>1, <1>3
  <2> QED BY <1>3, <1>5, <2>1 DEF IsHeader
<1>7. SubSeq(line, 1, 1) = <<name>> /\ SubSeq(line, 3, 3) = <<value>>
  <2>1. 1 \in 1 .. Len(line) /\ 3 \in 1 .. Len(line)
    BY <1>3
  <2>2. SubSeq(line, 1, 1) = <<line[1]>> /\ SubSeq(line, 3, 3) = <<line[3]>>
    BY <1>3, <2>1, OneToken
  <2> QED BY <1>3, <2>2
<1>8. NextPos(buf, n) = n + 5
  BY <1>4 DEF NextPos
<1>9. ~AtMostTwoBytesLeft(buf, n)
  BY <1>1 DEF AtMostTwoBytesLeft
<1> QED BY <1>3, <1>5, <1>6, <1>7, <1>8, <1>9 DEF HeaderRead, line

\* The empty line ends the headers, and the request if nothing follows.
LEMMA EmptyLineIs ==
  ASSUME NEW buf \in Text, NEW n \in Nat, n + 2 <= Len(buf),
         buf[n + 1] = "CR", buf[n + 2] = "LF"
  PROVE  /\ ~IsHeader(Line(buf, n))
         /\ NextPos(buf, n) = n + 2
         /\ AtMostTwoBytesLeft(buf, n) <=> Len(buf) = n + 2
<1>1. Len(buf) \in Nat
  BY DEF Text
<1>2. IsLine(buf, n, 0)
  <2>1. \A i \in n + 1 .. n + 0 : buf[i] # "CR"
    OBVIOUS
  <2>2. n + 0 + 1 = n + 1 /\ n + 0 + 2 = n + 2 /\ n + 0 + 2 <= Len(buf)
    BY <1>1
  <2> QED BY <2>1, <2>2, LineIs
<1>3. ~IsHeader(Line(buf, n))
  <2>1. Len(Line(buf, n)) = 0
    BY <1>2 DEF IsLine
  <2>2. Colon(Line(buf, n)) = 0
    <3> DEFINE line == Line(buf, n)
    <3> HIDE DEF line
    <3>1. Len(line) = 0
      BY <2>1 DEF line
    <3>2. {i \in 1 .. Len(line) : line[i] = ":"} = {}
      BY <3>1
    <3>3. Colon(line) = 0
      BY <3>2 DEF Colon, SelectInSeq
    <3> QED BY <3>3 DEF line
  <2> QED BY <2>2 DEF IsHeader
<1>4. NextPos(buf, n) = n + 2
  BY <1>2 DEF IsLine, NextPos
<1>5. CASE Len(buf) = n + 2
  <2>1. \A i \in n + 1 .. Len(buf) : buf[i] \in Delimiter
    <3> TAKE i \in n + 1 .. Len(buf)
    <3>1. i = n + 1 \/ i = n + 2
      BY <1>5
    <3> QED BY <3>1 DEF Delimiter
  <2>2. Len(buf) - n <= 2
    BY <1>5
  <2> QED BY <1>3, <1>4, <1>5, <2>1, <2>2 DEF AtMostTwoBytesLeft
<1>6. CASE Len(buf) # n + 2
  <2>1. ~(Len(buf) - n <= 2)
    BY <1>1, <1>6
  <2> QED BY <1>3, <1>4, <1>6, <2>1 DEF AtMostTwoBytesLeft
<1> QED BY <1>5, <1>6

\* What stands where in a request.
Encoded(r, buf, body) ==
  /\ buf \in Text /\ Len(buf) = HeadersEnd(r) + 2 + Len(body)
  /\ buf[1] = r.method /\ buf[2] = r.path /\ buf[3] = r.version
  /\ buf[4] = "CR" /\ buf[5] = "LF"
  /\ r.keepAlive => /\ buf[6] = "Connection" /\ buf[7] = ":" /\ buf[8] = "keep-alive"
                    /\ buf[9] = "CR" /\ buf[10] = "LF"
  /\ r.method = "POST" =>
       /\ buf[HeadersEnd(r) - 4] = "Content-Type" /\ buf[HeadersEnd(r) - 3] = ":"
       /\ buf[HeadersEnd(r) - 2] = "urlencoded"
       /\ buf[HeadersEnd(r) - 1] = "CR" /\ buf[HeadersEnd(r)] = "LF"
  /\ buf[HeadersEnd(r) + 1] = "CR" /\ buf[HeadersEnd(r) + 2] = "LF"
  /\ \A i \in 1 .. Len(body) : buf[HeadersEnd(r) + 2 + i] = body[i]

LEMMA EncodeIs ==
  ASSUME NEW r \in RequestType, NEW body,
         body = IF r.method = "POST" THEN FormText(r.form) ELSE <<>>
  PROVE  /\ Encoded(r, Encode(r), body)
         /\ body \in Seq(FormToken)
         /\ body = <<>> <=> r.method # "POST" \/ r.form = <<>>
<1> DEFINE L == <<r.method, r.path, r.version, "CR", "LF">>
           A == IF r.keepAlive THEN <<"Connection", ":", "keep-alive", "CR", "LF">> ELSE <<>>
           C == IF r.method = "POST" THEN <<"Content-Type", ":", "urlencoded", "CR", "LF">> ELSE <<>>
           N == <<"CR", "LF">>
           a == IF r.keepAlive THEN 5 ELSE 0
           c == IF r.method = "POST" THEN 5 ELSE 0
           h == HeadersEnd(r)
<1>1. /\ r.method \in Method /\ r.path \in Path /\ r.version \in Version
      /\ r.keepAlive \in BOOLEAN /\ r.form \in Seq(FieldText \X FieldText)
  BY DEF RequestType
<1>2. body \in Seq(FormToken) /\ (body = <<>> <=> r.method # "POST" \/ r.form = <<>>)
  <2>1. <<>> \in Seq(FormToken)
    OBVIOUS
  <2>2. CASE r.method # "POST"
    BY <2>1, <2>2
  <2>3. CASE r.method = "POST" /\ r.form = <<>>
    <3>1. FormParts(r.form) = <<>>
      BY <2>3 DEF FormParts
    <3>2. FormText(r.form) = <<>>
      BY <3>1 DEF FormText, FlattenSeq
    <3> QED BY <2>1, <2>3, <3>2
  <2>4. CASE r.method = "POST" /\ r.form # <<>>
    <3>1. PICK at : FormText(r.form) \in Seq(FormToken) /\ Places(r.form, FormText(r.form), at)
      BY <1>1, <2>4, FormPlaces
    <3>2. 1 \in 1 .. Len(r.form)
      BY <1>1, <2>4
    <3> DEFINE k == Len(r.form[1][1])
               v == Len(r.form[1][2])
    <3>3. at[0] = 0 /\ at[1] <= Len(FormText(r.form)) /\ k \in Nat /\ v \in Nat
          /\ (at[1] = at[1 - 1] + k + v + 2 \/ at[1] = at[1 - 1] + k + v + 1)
      <4>1. r.form[1][1] \in FieldText /\ r.form[1][2] \in FieldText
        BY <1>1, <3>2
      <4> QED BY <3>1, <3>2, <4>1, SMTT(30) DEF Places, FieldText
    <3>4. Len(FormText(r.form)) # 0
      <4> HIDE DEF k, v
      <4>1. Len(FormText(r.form)) \in Nat /\ 1 - 1 = 0
        BY <3>1
      <4> QED BY <3>3, <4>1
    <3> QED BY <2>4, <3>1, <3>4
  <2> QED BY <2>2, <2>3, <2>4
<1>3. FormToken \subseteq Token
  BY DEF FormToken, Token, Delimiter
<1>4. Encode(r) = (((L \o A) \o C) \o N) \o body
  BY DEF Encode
<1>5. /\ L \in Seq(Token) /\ Len(L) = 5
      /\ L[1] = r.method /\ L[2] = r.path /\ L[3] = r.version /\ L[4] = "CR" /\ L[5] = "LF"
  <2>1. r.method \in Token /\ r.path \in Token /\ r.version \in Token
    BY <1>1 DEF Token
  <2>2. "CR" \in Token /\ "LF" \in Token
    BY DEF Token, Delimiter
  <2> QED BY <2>1, <2>2
<1>6. /\ A \in Seq(Token) /\ Len(A) = a /\ a \in {0, 5} /\ (r.keepAlive <=> a = 5)
      /\ r.keepAlive => /\ A[1] = "Connection" /\ A[2] = ":" /\ A[3] = "keep-alive"
                        /\ A[4] = "CR" /\ A[5] = "LF"
  <2> DEFINE header == <<"Connection", ":", "keep-alive", "CR", "LF">>
  <2>1. header \in Seq(Token) /\ Len(header) = 5 /\ <<>> \in Seq(Token) /\ Len(<<>>) = 0
    BY DEF Token, Delimiter
  <2>2. /\ header[1] = "Connection" /\ header[2] = ":" /\ header[3] = "keep-alive"
        /\ header[4] = "CR" /\ header[5] = "LF"
    OBVIOUS
  <2>3. A = IF r.keepAlive THEN header ELSE <<>>
    OBVIOUS
  <2> HIDE DEF header, A
  <2>4. CASE r.keepAlive
    BY <2>1, <2>2, <2>3, <2>4
  <2>5. CASE ~r.keepAlive
    BY <2>1, <2>3, <2>5
  <2> QED BY <2>4, <2>5
<1>7. /\ C \in Seq(Token) /\ Len(C) = c /\ c \in {0, 5} /\ (r.method = "POST" <=> c = 5)
      /\ r.method = "POST" => /\ C[1] = "Content-Type" /\ C[2] = ":" /\ C[3] = "urlencoded"
                              /\ C[4] = "CR" /\ C[5] = "LF"
  <2> DEFINE header == <<"Content-Type", ":", "urlencoded", "CR", "LF">>
  <2>1. header \in Seq(Token) /\ Len(header) = 5 /\ <<>> \in Seq(Token) /\ Len(<<>>) = 0
    BY DEF Token, Delimiter
  <2>2. /\ header[1] = "Content-Type" /\ header[2] = ":" /\ header[3] = "urlencoded"
        /\ header[4] = "CR" /\ header[5] = "LF"
    OBVIOUS
  <2>3. C = IF r.method = "POST" THEN header ELSE <<>>
    OBVIOUS
  <2> HIDE DEF header, C
  <2>4. CASE r.method = "POST"
    BY <2>1, <2>2, <2>3, <2>4
  <2>5. CASE r.method # "POST"
    BY <2>1, <2>3, <2>5
  <2> QED BY <2>4, <2>5
<1>8. N \in Seq(Token) /\ Len(N) = 2 /\ N[1] = "CR" /\ N[2] = "LF"
  BY DEF Token, Delimiter
<1>9. h = 5 + a + c
  BY DEF HeadersEnd
<1>10. body \in Seq(Token) /\ Len(body) \in Nat
  BY <1>2, <1>3
<1> HIDE DEF L, A, C, N, a, c, h
<1> DEFINE LA == L \o A
           LAC == LA \o C
           LACN == LAC \o N
           buf == LACN \o body
<1>11. /\ LA \in Seq(Token) /\ Len(LA) = 5 + a
       /\ \A i \in 1 .. 5 : LA[i] = L[i]
       /\ \A i \in 1 .. a : LA[5 + i] = A[i]
  <2>1. L \in Seq(Token) /\ A \in Seq(Token)
    BY <1>5, <1>6
  <2>2. /\ LA \in Seq(Token) /\ Len(LA) = Len(L) + Len(A)
        /\ \A i \in 1 .. Len(L) : LA[i] = L[i]
        /\ \A i \in 1 .. Len(A) : LA[Len(L) + i] = A[i]
    BY <2>1, ConcatParts
  <2>3. Len(L) = 5 /\ Len(A) = a
    BY <1>5, <1>6
  <2> HIDE DEF LA
  <2> QED BY <2>2, <2>3
<1>12. LA \in Seq(Token)
  BY <1>11
<1> HIDE DEF LA
<1>13. /\ LAC \in Seq(Token) /\ Len(LAC) = Len(LA) + Len(C)
       /\ \A i \in 1 .. Len(LA) : LAC[i] = LA[i]
       /\ \A i \in 1 .. Len(C) : LAC[Len(LA) + i] = C[i]
  <2>1. C \in Seq(Token)
    BY <1>7
  <2> QED BY <1>12, <2>1, ConcatParts
<1> HIDE DEF LAC
<1>14. /\ LACN \in Seq(Token) /\ Len(LACN) = Len(LAC) + Len(N)
       /\ \A i \in 1 .. Len(LAC) : LACN[i] = LAC[i]
       /\ \A i \in 1 .. Len(N) : LACN[Len(LAC) + i] = N[i]
  <2>1. N \in Seq(Token) /\ LAC \in Seq(Token)
    BY <1>8, <1>13
  <2> QED BY <2>1, ConcatParts
<1> HIDE DEF LACN
<1>15. /\ buf \in Seq(Token) /\ Len(buf) = Len(LACN) + Len(body)
       /\ \A i \in 1 .. Len(LACN) : buf[i] = LACN[i]
       /\ \A i \in 1 .. Len(body) : buf[Len(LACN) + i] = body[i]
  <2>1. body \in Seq(Token) /\ LACN \in Seq(Token)
    BY <1>10, <1>14
  <2> QED BY <2>1, ConcatParts
<1>16. buf = Encode(r)
  BY <1>4 DEF LA, LAC, LACN
<1> HIDE DEF buf
<1>17. /\ Len(LA) = 5 + a /\ Len(LAC) = h /\ Len(LACN) = h + 2 /\ Len(buf) = h + 2 + Len(body)
       /\ h \in {5, 10, 15} /\ a \in {0, 5} /\ c \in {0, 5}
  <2>1. Len(LA) = 5 + a /\ Len(LAC) = Len(LA) + c /\ Len(LACN) = Len(LAC) + 2
        /\ Len(buf) = Len(LACN) + Len(body)
    BY <1>7, <1>8, <1>11, <1>13, <1>14, <1>15
  <2> QED BY ONLY <2>1, <1>6, <1>7, <1>9, <1>10
<1>18. \A i \in 1 .. h : buf[i] = LAC[i]
  <2>1. \A i \in 1 .. h : i \in 1 .. h + 2
    BY ONLY <1>17
  <2> QED BY <1>14, <1>15, <1>17, <2>1
<1>19. \A i \in 1 .. 5 + a : buf[i] = LA[i]
  <2>1. \A i \in 1 .. 5 + a : i \in 1 .. h
    BY ONLY <1>9, <1>17
  <2> QED BY <1>13, <1>17, <1>18, <2>1
<1>20. \A i \in 1 .. 5 : buf[i] = L[i]
  <2>1. \A i \in 1 .. 5 : i \in 1 .. 5 + a
    BY ONLY <1>17
  <2> QED BY <1>11, <1>19, <2>1
<1>21. r.keepAlive => \A i \in 1 .. 5 : buf[5 + i] = A[i]
  <2>1. \A i \in 1 .. a : 5 + i \in 1 .. 5 + a
    BY ONLY <1>17
  <2> QED BY <1>6, <1>11, <1>19, <2>1
<1>22. r.method = "POST" => \A i \in 1 .. 5 : buf[h - 5 + i] = C[i]
  <2> SUFFICES ASSUME r.method = "POST", NEW i \in 1 .. 5 PROVE buf[h - 5 + i] = C[i]
    OBVIOUS
  <2>1. c = 5 /\ Len(C) = 5
    BY <1>7
  <2>2. h - 5 + i \in 1 .. h /\ h - 5 + i = Len(LA) + i
    BY ONLY <1>9, <1>17, <2>1, i \in 1 .. 5
  <2> QED BY <1>13, <1>18, <2>1, <2>2
<1>23. buf[h + 1] = "CR" /\ buf[h + 2] = "LF"
  <2>1. h + 1 \in 1 .. h + 2 /\ h + 2 \in 1 .. h + 2 /\ 1 \in 1 .. 2 /\ 2 \in 1 .. 2
    BY ONLY <1>17
  <2>2. LACN[h + 1] = N[1] /\ LACN[h + 2] = N[2]
    BY <1>8, <1>14, <1>17, <2>1
  <2> QED BY <1>8, <1>15, <1>17, <2>1, <2>2
<1>24. /\ 5 + 1 = 6 /\ 5 + 2 = 7 /\ 5 + 3 = 8 /\ 5 + 4 = 9 /\ 5 + 5 = 10
       /\ h - 5 + 1 = h - 4 /\ h - 5 + 2 = h - 3 /\ h - 5 + 3 = h - 2
       /\ h - 5 + 4 = h - 1 /\ h - 5 + 5 = h
  BY ONLY <1>17
<1>25. 1 \in 1 .. 5 /\ 2 \in 1 .. 5 /\ 3 \in 1 .. 5 /\ 4 \in 1 .. 5 /\ 5 \in 1 .. 5
  OBVIOUS
<1>26. /\ buf[1] = r.method /\ buf[2] = r.path /\ buf[3] = r.version
       /\ buf[4] = "CR" /\ buf[5] = "LF"
  BY <1>5, <1>20, <1>25
<1>27. r.keepAlive => /\ buf[6] = "Connection" /\ buf[7] = ":" /\ buf[8] = "keep-alive"
                      /\ buf[9] = "CR" /\ buf[10] = "LF"
  BY <1>6, <1>21, <1>24, <1>25
<1>28. r.method = "POST" =>
         /\ buf[h - 4] = "Content-Type" /\ buf[h - 3] = ":" /\ buf[h - 2] = "urlencoded"
         /\ buf[h - 1] = "CR" /\ buf[h] = "LF"
  BY <1>7, <1>22, <1>24, <1>25
<1>29. \A i \in 1 .. Len(body) : buf[h + 2 + i] = body[i]
  BY <1>15, <1>17
<1>30. Encoded(r, buf, body)
  BY <1>15, <1>17, <1>23, <1>26, <1>27, <1>28, <1>29 DEF Encoded, h, Text
<1> QED BY <1>2, <1>16, <1>30

LEMMA EncodeText == \A r \in Request : Encode(r) \in Text
BY EncodeIs, HttpAssumption DEF Encoded

-----------------------------------------------------------------------------
(* The initial states and the client's steps. *)

LEMMA HInit == Init => HInv
<1> SUFFICES ASSUME Init PROVE HInv
  OBVIOUS
<1> USE HttpAssumption DEF Init
<1>1. RequestOK(req)
  BY DEF RequestOK, EmptyRequest, State
<1>2. <<>> \in Text /\ <<>> \in Seq(Piece)
  BY DEF Text
<1>3. TypeOK
  <2>1. tosend \in Text /\ files \in FileSystem /\ request \in Request
    BY EncodeText
  <2>2. asks \in 1 .. MaxAsks /\ segments \in 0 .. MaxSegments /\ writes \in 0 .. MaxWrites
    OBVIOUS
  <2>3. /\ inbox \in Text /\ readBuf \in Text /\ wire \in Seq(Piece) /\ writeBuf \in Seq(Piece)
        /\ awaiting \in BOOLEAN /\ gone \in BOOLEAN /\ floods \in BOOLEAN /\ garbled \in BOOLEAN
        /\ pos \in Nat /\ left \in Nat /\ maps \in Nat /\ lost \in Nat /\ page = NoPage
        /\ pc = "wait" /\ conn = "Connected"
    BY <1>2
  <2> QED BY ONLY <1>1, <2>1, <2>2, <2>3 DEF TypeOK, RequestOK
<1>4. BufferInv /\ PageInv /\ ServesReadable
  BY DEF BufferInv, PageInv, ServesReadable
<1> QED BY <1>3, <1>4 DEF HInv

\* What the client does leaves the server's part of HInv as it is; the
\* segment and what it hears are cut from sequences of the right kind.
LEMMA ClientInv ==
  ASSUME HInv, Client
  PROVE  HInv'
<1> USE HttpAssumption DEF HInv, TypeOK
<1>1. \A a : Readable(a)' = Readable(a)
  BY DEF Client, Ask, Segment, Hear, Leave, Flood, Pause, Readable
<1>2. BufferInv' /\ PageInv'
  BY DEF BufferInv, PageInv, Client, Ask, Segment, Hear, Leave, Flood, Pause,
         parseVars, writeVars, pageVars
<1>3. ASSUME NEW r \in Request, Ask(r) PROVE HInv'
  <2>1. TypeOK'
    <3>1. tosend' \in Text
      BY <1>3, EncodeText DEF Ask
    <3> QED BY <1>3, <3>1 DEF Ask, parseVars, writeVars, pageVars
  <2>2. ServesReadable'
    BY <1>1, <1>3 DEF Ask, ServesReadable, writeVars
  <2> QED BY <1>2, <2>1, <2>2
<1>4. ASSUME NEW n \in 1 .. Len(tosend), Segment(n) PROVE HInv'
  <2>1. SubSeq(tosend, 1, n) \in Text /\ SubSeq(tosend, n + 1, Len(tosend)) \in Text
    <3>1. tosend \in Text
      OBVIOUS
    <3>2. tosend \in Seq(Token)
      BY ONLY <3>1 DEF Text
    <3>3. n \in 0 .. Len(tosend)
      BY ONLY <1>4, <3>2
    <3> QED BY ONLY <3>2, <3>3, CutParts DEF Text
  <2>2. tosend' \in Text /\ inbox' \in Text
    <3>1. /\ inbox \in Text
          /\ tosend' = SubSeq(tosend, n + 1, Len(tosend))
          /\ inbox' = inbox \o SubSeq(tosend, 1, n)
      BY <1>4 DEF Segment
    <3> QED BY ONLY <2>1, <3>1, ConcatProperties DEF Text
  <2>3. segments' \in 0 .. MaxSegments
    <3>1. segments \in 0 .. MaxSegments
      OBVIOUS
    <3>2. segments < MaxSegments /\ segments' = segments + 1
      BY <1>4 DEF Segment
    <3> QED BY ONLY <3>1, <3>2, HttpAssumption
  <2>4. TypeOK'
    BY <1>4, <2>2, <2>3 DEF Segment, parseVars, writeVars, pageVars
  <2>5. ServesReadable'
    BY <1>1, <1>4 DEF Segment, ServesReadable, writeVars
  <2> QED BY <1>2, <2>4, <2>5
<1>5. ASSUME NEW n \in 1 .. Len(wire), Hear(n) PROVE HInv'
  <2>1. /\ wire' \in Seq(Piece)
        /\ \A i \in DOMAIN wire' : \E k \in DOMAIN wire : wire'[i] = wire[k]
    <3>1. n \in 0 .. Len(wire) /\ wire \in Seq(Piece) /\ wire' = SubSeq(wire, n + 1, Len(wire))
      BY <1>5 DEF Hear
    <3> QED BY ONLY <3>1, CutParts
  <2>2. TypeOK'
    BY <1>5, <2>1 DEF Hear, parseVars, writeVars, pageVars
  <2>3. ServesReadable'
    BY <1>1, <1>5, <2>1, ZenonT(60) DEF Hear, ServesReadable, writeVars
  <2> QED BY <1>2, <2>2, <2>3
<1>6. ASSUME Leave PROVE HInv'
  <2>1. TypeOK'
    BY <1>6 DEF Leave, parseVars, writeVars, pageVars
  <2>2. ServesReadable'
    BY <1>1, <1>6 DEF Leave, ServesReadable, writeVars
  <2> QED BY <1>2, <2>1, <2>2
<1>7. ASSUME Flood \/ Pause PROVE HInv'
  <2>1. TypeOK'
    <3>1. asks' \in 1 .. MaxAsks
      BY <1>7 DEF Flood, Pause
    <3> QED BY <1>7, <3>1, ZenonT(60) DEF Flood, Pause, parseVars, writeVars, pageVars
  <2>2. ServesReadable'
    BY <1>1, <1>7 DEF Flood, Pause, ServesReadable, writeVars
  <2> QED BY <1>2, <2>1, <2>2
<1> QED BY <1>3, <1>4, <1>5, <1>6, <1>7 DEF Client

-----------------------------------------------------------------------------
(* Connection::Read and the turns of Parse: the response is not touched.   *)

LEMMA NoResponse ==
  ASSUME HInv, TypeOK', UNCHANGED <<wire, files, writeVars, pageVars>>,
         pc \in {"wait", "read", "parse"},
         pc' \in {"wait", "read", "parse", "make", "closed", "crashed", "overrun", "undefined"},
         pc' \in {"read", "parse", "make"} => conn' = "Connected",
         pc' = "parse" => pos' <= Len(readBuf') + 2
  PROVE  HInv'
<1>1. BufferInv' /\ PageInv'
  BY DEF HInv, BufferInv, PageInv, writeVars, pageVars
<1>2. ServesReadable'
  BY DEF HInv, ServesReadable, Readable, writeVars
<1> QED BY <1>1, <1>2 DEF HInv

LEMMA ReadInv ==
  ASSUME HInv, Event \/ ReadSome \/ ReadFlood \/ FloodFills \/ ReadEnds \/ ReadAgain
  PROVE  HInv'
<1> USE DEF HInv, TypeOK, clientVars, parseVars, writeVars, pageVars
<1>1. CASE Event
  <2>1. conn = "Connected" \/ pc' = "crashed"
    BY <1>1 DEF Event
  <2>2. TypeOK'
    <3>1. <<>> \in Text /\ readBuf \in Text
      BY DEF Text
    <3>2. readBuf' \in Text
      BY <1>1, <3>1 DEF Event
    <3> QED BY <1>1, <3>2 DEF Event
  <2> QED BY <1>1, <2>1, <2>2, NoResponse DEF Event
<1>2. CASE ReadSome
  <2>1. PICK n \in 1 .. Len(inbox) :
          /\ readBuf' = readBuf \o SubSeq(inbox, 1, n)
          /\ inbox' = SubSeq(inbox, n + 1, Len(inbox))
          /\ pc' \in {"read", "undefined"}
    BY <1>2 DEF ReadSome
  <2>2. inbox \in Seq(Token) /\ Len(inbox) \in Nat
    BY DEF Text
  <2>3. SubSeq(inbox, 1, n) \in Text /\ SubSeq(inbox, n + 1, Len(inbox)) \in Text
    <3>1. n \in 0 .. Len(inbox)
      BY <2>2
    <3> QED BY ONLY <2>2, <3>1, CutParts DEF Text
  <2>4. readBuf' \in Text /\ inbox' \in Text
    BY <2>1, <2>3, ConcatProperties DEF Text
  <2>5. TypeOK'
    BY <1>2, <2>1, <2>4 DEF ReadSome
  <2>6. conn = "Connected"
    BY <1>2 DEF ReadSome, PageInv
  <2> QED BY <1>2, <2>1, <2>5, <2>6, NoResponse DEF ReadSome
<1>3. CASE ReadEnds
  <2>1. TypeOK'
    BY <1>3 DEF ReadEnds
  <2> QED BY <1>3, <2>1, NoResponse DEF ReadEnds
<1>4. CASE ReadAgain
  <2>1. RequestOK(EmptyRequest)
    BY DEF RequestOK, EmptyRequest, State
  <2>2. TypeOK'
    BY <1>4, <2>1 DEF ReadAgain, RequestOK
  <2>3. conn = "Connected"
    BY <1>4 DEF ReadAgain, PageInv
  <2>4. pc' = "parse" => pos' <= Len(readBuf') + 2
    BY <1>4 DEF ReadAgain, Text
  <2> QED BY <1>4, <2>2, <2>3, <2>4, NoResponse DEF ReadAgain
<1>5. CASE ReadFlood
  <2>1. readBuf' \in Text
    <3>1. readBuf \in Seq(Token) /\ "..." \in Token
      BY DEF Text, Token
    <3>2. Append(readBuf, "...") \in Seq(Token)
      BY <3>1
    <3> QED BY <1>5, <3>1, <3>2 DEF ReadFlood, Text
  <2>2. TypeOK'
    BY <1>5, <2>1 DEF ReadFlood
  <2>3. conn = "Connected"
    BY <1>5 DEF ReadFlood, PageInv
  <2> QED BY <1>5, <2>2, <2>3, NoResponse DEF ReadFlood
<1>6. CASE FloodFills
  <2>1. TypeOK'
    BY <1>6 DEF FloodFills
  <2> QED BY <1>6, <2>1, NoResponse DEF FloodFills
<1> QED BY <1>1, <1>2, <1>3, <1>4, <1>5, <1>6

LEMMA ParseInv ==
  ASSUME HInv, Parse
  PROVE  HInv'
<1> USE DEF HInv, TypeOK
<1>1. RequestOK(req) /\ readBuf \in Text /\ pos \in Nat /\ Len(readBuf) \in Nat
  BY DEF RequestOK, Text
<1>2. pc = "parse" /\ conn = "Connected"
  BY DEF Parse, RequestLine, BadRequestLine, Header, Body, Overrun, Turn, PageInv
<1>3. CASE Overrun
  <2>1. TypeOK'
    BY <1>3 DEF Overrun, afterTurn, clientVars, writeVars, pageVars
  <2> QED BY <1>2, <1>3, <2>1, NoResponse DEF Overrun, afterTurn
<1>4. ASSUME Turn, RequestOK(req'), pc' \in {"parse", "make"}, UNCHANGED afterTurn
      PROVE  HInv'
  <2>1. pos' = LineEnd(readBuf, pos) + 1 /\ pos <= Len(readBuf)
    BY <1>4 DEF Turn, NextPos
  <2>2. pos' \in Nat /\ pos' <= Len(readBuf) + 2
    <3>1. LineEnd(readBuf, pos) \in pos + 1 .. Len(readBuf) + 1
      BY <1>1, <2>1, LineEndRange
    <3> QED BY ONLY <1>1, <2>1, <3>1
  <2>3. TypeOK'
    BY <1>4, <2>2 DEF afterTurn, clientVars, writeVars, pageVars, RequestOK
  <2>4. /\ UNCHANGED <<wire, files, writeVars, pageVars, conn, readBuf>>
        /\ pc' \in {"wait", "read", "parse", "make", "closed", "crashed", "overrun"}
    BY <1>4 DEF afterTurn
  <2> QED BY <1>2, <2>2, <2>3, <2>4, NoResponse
<1>5. CASE RequestLine
  <2>1. RequestOK(req')
    BY <1>1, <1>5, RequestLineOK DEF RequestLine
  <2> QED BY <1>2, <1>4, <1>5, <2>1 DEF RequestLine
<1>6. CASE BadRequestLine
  BY <1>1, <1>4, <1>6 DEF BadRequestLine, RequestOK
<1>7. CASE Header
  <2>1. AtMostTwoBytesLeft(readBuf, pos) \in BOOLEAN
    BY DEF AtMostTwoBytesLeft
  <2>2. RequestOK(req')
    BY <1>1, <1>7, <2>1, HeadersOK DEF Header
  <2> QED BY <1>4, <1>7, <2>2 DEF Header
<1>8. CASE Body
  <2>1. RequestOK(req')
    BY <1>1, <1>8, BodyOK DEF Body
  <2> QED BY <1>4, <1>8, <2>1 DEF Body
<1> QED BY <1>3, <1>5, <1>6, <1>7, <1>8 DEF Parse

-----------------------------------------------------------------------------
(* MakeResponse. *)

LEMMA FilesOK ==
  ASSUME TypeOK
  PROVE  files \in [Page -> Kind] /\ \A p \in Page : files[p] = "dir" <=> p = "."
BY HttpAssumption DEF TypeOK

\* The buffer was empty; one page at most was mapped.
LEMMA BeforeMake ==
  ASSUME HInv, MakeResponse
  PROVE  /\ writeBuf = <<>> /\ writes = 0 /\ conn = "Connected"
         /\ Unmapped = lost /\ lost \in Nat
         /\ RequestOK(req)
<1>1. pc = "make"
  BY DEF MakeResponse
<1>2. writeBuf = <<>> /\ writes = 0 /\ conn = "Connected"
  BY <1>1 DEF HInv, BufferInv, PageInv
<1>3. lost \in Nat /\ maps = IF page = NoPage THEN lost ELSE lost + 1
  BY DEF HInv, PageInv, TypeOK
<1>4. Unmapped = lost /\ lost \in Nat
  BY <1>3 DEF Unmapped
<1> QED BY <1>2, <1>4 DEF HInv, TypeOK, RequestOK

LEMMA NoContentInv ==
  ASSUME HInv, MakeResponse,
         OpenFails \/ (files[FileMade] = "ones" /\ MapMistaken)
  PROVE  HInv'
<1> USE DEF HInv
<1>1. /\ writeBuf' = <<>> /\ left' = 0 /\ page' = NoPage
      /\ maps' = lost' /\ lost' \in Nat
      /\ pc' \in {"write", "undefined"} /\ conn = "Connected"
      /\ lost' = lost \/ (FileMade \in Page /\ files[FileMade] = "ones")
  <2>1. FileMade \in Page
    BY BeforeMake, FilesOK, AnswerOK
  <2>2. Unmapped = lost /\ lost \in Nat /\ conn = "Connected"
    BY BeforeMake
  <2> QED BY <2>1, <2>2 DEF OpenFails, MapMistaken, NoContent, SetWriteBuffer
<1>2. UNCHANGED <<clientVars, inbox, wire, files, conn, parseVars, writes, garbled>>
  BY DEF MakeResponse
<1>3. TypeOK'
  BY <1>1, <1>2 DEF TypeOK, clientVars, parseVars
<1>4. BufferInv'
  BY <1>1, <1>2 DEF BufferInv
<1>5. PageInv'
  <2>1. lost' > 0 => \E p \in Page : files'[p] = "ones"
    BY <1>1, <1>2 DEF PageInv
  <2>2. maps' = IF page' = NoPage THEN lost' ELSE lost' + 1
    BY <1>1
  <2>3. /\ pc' \in {"read", "parse", "make", "write"} => conn' = "Connected"
        /\ pc' = "parse" => pos' <= Len(readBuf') + 2
    BY <1>1, <1>2
  <2> QED BY <2>1, <2>2, <2>3 DEF PageInv
<1>6. ServesReadable'
  BY <1>1, <1>2 DEF ServesReadable, Readable
<1> QED BY <1>3, <1>4, <1>5, <1>6

LEMMA MapFailsInv ==
  ASSUME HInv, MakeResponse, MapFails
  PROVE  HInv'
<1> USE DEF HInv
<1>1. pc' = "crashed" /\ UNCHANGED <<writeBuf, left, pageVars>>
  BY DEF MapFails
<1>2. UNCHANGED <<clientVars, inbox, wire, files, conn, parseVars, writes, garbled>>
  BY DEF MakeResponse
<1>3. TypeOK'
  BY <1>1, <1>2 DEF TypeOK, clientVars, parseVars, pageVars
<1>4. BufferInv' /\ PageInv'
  BY <1>1, <1>2 DEF BufferInv, PageInv, pageVars
<1>5. ServesReadable'
  BY <1>1, <1>2 DEF ServesReadable, Readable
<1> QED BY <1>3, <1>4, <1>5

LEMMA ContentInv ==
  ASSUME HInv, MakeResponse, NEW keepAlive \in BOOLEAN,
         files[FileMade] \in {"text", "binary", "private"},
         Content(CodeMade, keepAlive, FileMade)
  PROVE  HInv'
<1> DEFINE a == [code |-> CodeMade, keepAlive |-> keepAlive, page |-> FileMade,
                 whole |-> files[FileMade] # "binary"]
<1>1. /\ CodeMade \in {200, 400, 403, 404}
      /\ FileMade \in Page
      /\ CodeMade = 200 => files[FileMade] \in {"text", "binary", "ones", "empty"}
      /\ files[FileMade] = "private" => FileMade = ErrorPage(CodeMade, ".")
  BY BeforeMake, FilesOK, AnswerOK DEF HInv
<1>2. a \in Answer
  BY <1>1 DEF Answer
<1>3. Readable(a)
  BY <1>1 DEF Readable
<1>4. /\ writeBuf' = <<>> \o Response(a)
      /\ left' = Len(writeBuf')
      /\ page' = FileMade /\ maps' = lost + 1 /\ lost' = lost /\ lost \in Nat
      /\ pc' \in {"write", "undefined"} /\ conn = "Connected"
  BY BeforeMake DEF Content, SetWriteBuffer
<1>5. UNCHANGED <<clientVars, inbox, wire, files, conn, parseVars, writes, garbled>>
  BY DEF MakeResponse
<1> HIDE DEF a
<1>6. /\ writeBuf' = Response(a) /\ writeBuf' \in Seq(Piece) /\ left' = 5 /\ Len(writeBuf') = 5
      /\ \A i \in DOMAIN writeBuf' : writeBuf'[i].of = a
  <2>1. /\ Response(a) \in Seq(Piece)
        /\ Len(Response(a)) = 5
        /\ \A i \in DOMAIN Response(a) : Response(a)[i].of = a
    BY <1>2, ResponseParts
  <2>2. <<>> \o Response(a) = Response(a)
    BY <2>1, ConcatEmptySeq
  <2> QED BY <1>4, <2>1, <2>2
<1>7. TypeOK'
  BY <1>1, <1>4, <1>5, <1>6 DEF HInv, TypeOK, clientVars, parseVars
<1>8. BufferInv'
  BY <1>2, <1>4, <1>5, <1>6 DEF HInv, BufferInv
<1>9. PageInv'
  BY <1>1, <1>4, <1>5 DEF HInv, PageInv, Page, Path, NoPage
<1>10. ServesReadable'
  <2>1. \A b : Readable(b)' = Readable(b)
    BY <1>5 DEF Readable
  <2> QED BY <1>3, <1>5, <1>6, <2>1 DEF HInv, ServesReadable
<1> QED BY <1>7, <1>8, <1>9, <1>10 DEF HInv

LEMMA MakeInv ==
  ASSUME HInv, MakeResponse
  PROVE  HInv'
<1>1. (Parsed /\ IsKeepAlive(req)) \in BOOLEAN
  BY DEF Parsed, IsKeepAlive
<1> QED BY <1>1, NoContentInv, MapFailsInv, ContentInv DEF MakeResponse

-----------------------------------------------------------------------------
(* Connection::Write. *)

LEMMA WriteSomeInv ==
  ASSUME HInv, NEW n \in 1 .. left, WriteSome(n)
  PROVE  HInv'
<1> DEFINE first == Len(writeBuf) - left + 1
           last  == Len(writeBuf) - left + n
<1>1. /\ pc = "write" /\ writes < MaxWrites /\ writes' = writes + 1
      /\ wire' = wire \o SubSeq(writeBuf, first, last)
      /\ left' = Len(writeBuf) - n
      /\ garbled' \in BOOLEAN
      /\ UNCHANGED <<pc, conn, writeBuf, afterWrite>>
  BY DEF WriteSome, Taken
<1>2. /\ writeBuf \in Seq(Piece) /\ wire \in Seq(Piece) /\ left \in Nat
      /\ left <= Len(writeBuf) /\ Len(writeBuf) \in Nat /\ writes \in 0 .. MaxWrites
  BY DEF HInv, TypeOK, BufferInv
<1>3. /\ first \in Int /\ last \in Int /\ first >= 1 /\ last <= Len(writeBuf)
      /\ left' \in Nat /\ left' <= Len(writeBuf)
  BY <1>1, <1>2
<1> HIDE DEF first, last
<1>4. /\ SubSeq(writeBuf, first, last) \in Seq(Piece)
      /\ \A i \in DOMAIN SubSeq(writeBuf, first, last) :
           \E k \in DOMAIN writeBuf : SubSeq(writeBuf, first, last)[i] = writeBuf[k]
  <2>1. \A i \in first .. last : i \in DOMAIN writeBuf /\ writeBuf[i] \in Piece
    BY <1>2, <1>3
  <2>2. /\ SubSeq(writeBuf, first, last) \in Seq(Piece)
        /\ Len(SubSeq(writeBuf, first, last)) = IF first <= last THEN last - first + 1 ELSE 0
        /\ \A i \in 1 .. last - first + 1 :
             SubSeq(writeBuf, first, last)[i] = writeBuf[first + i - 1]
    BY <1>3, <2>1, SubSeqProperties
  <2>3. ASSUME NEW i \in DOMAIN SubSeq(writeBuf, first, last)
        PROVE  \E k \in DOMAIN writeBuf : SubSeq(writeBuf, first, last)[i] = writeBuf[k]
    <3>1. i \in 1 .. last - first + 1
      BY <1>3, <2>2
    <3>2. first + i - 1 \in first .. last
      BY <1>3, <3>1
    <3> QED BY <2>1, <2>2, <3>1, <3>2
  <2> QED BY <2>2, <2>3
<1>5. TypeOK'
  <2>1. wire' \in Seq(Piece)
    BY <1>1, <1>2, <1>4, ConcatProperties
  <2>2. writes' \in 0 .. MaxWrites
    BY <1>1, <1>2, HttpAssumption
  <2> QED BY <1>1, <1>3, <2>1, <2>2
        DEF HInv, TypeOK, afterWrite, clientVars, parseVars, pageVars
<1>6. BufferInv'
  BY <1>1, <1>3 DEF HInv, BufferInv
<1>7. PageInv'
  BY <1>1 DEF HInv, PageInv, afterWrite, parseVars, pageVars
<1>8. ServesReadable'
  <2> DEFINE t == SubSeq(writeBuf, first, last)
  <2>1. \A b : Readable(b)' = Readable(b)
    BY <1>1 DEF Readable, afterWrite
  <2>2. \A i \in DOMAIN t : Readable(t[i].of)
    BY <1>4 DEF HInv, ServesReadable
  <2>3. \A i \in DOMAIN wire' : Readable(wire'[i].of)
    <3>1. /\ wire' \in Seq(Piece)
          /\ Len(wire') = Len(wire) + Len(t)
          /\ \A i \in 1 .. Len(wire) + Len(t) :
               wire'[i] = IF i <= Len(wire) THEN wire[i] ELSE t[i - Len(wire)]
      BY <1>1, <1>2, <1>4, ConcatProperties
    <3> HIDE DEF t
    <3>2. t \in Seq(Piece)
      BY <1>4 DEF t
    <3> SUFFICES ASSUME NEW i \in DOMAIN wire' PROVE Readable(wire'[i].of)
      OBVIOUS
    <3>3. i \in 1 .. Len(wire) + Len(t) /\ Len(wire) \in Nat /\ Len(t) \in Nat
      BY <1>2, <3>1, <3>2
    <3>4. CASE i <= Len(wire)
      <4>1. i \in DOMAIN wire /\ wire'[i] = wire[i]
        BY <1>2, <3>1, <3>3, <3>4
      <4> QED BY <4>1 DEF HInv, ServesReadable
    <3>5. CASE i > Len(wire)
      <4>1. i - Len(wire) \in DOMAIN t /\ wire'[i] = t[i - Len(wire)]
        BY <3>1, <3>2, <3>3, <3>5
      <4> QED BY <2>2, <4>1
    <3> QED BY <3>3, <3>4, <3>5
  <2> QED BY <1>1, <2>1, <2>3 DEF HInv, ServesReadable
<1> QED BY <1>5, <1>6, <1>7, <1>8 DEF HInv

\* However the loop of Write ends, the buffer is cleared.
LEMMA WriteEndsInv ==
  ASSUME HInv, WriteDone \/ WriteAgain \/ WriteFails
  PROVE  HInv'
<1>1. /\ pc = "write" /\ pc' = "wait" /\ conn' \in {conn, "Closed"}
      /\ writeBuf' = <<>> /\ left' = 0 /\ writes' = 0
      /\ UNCHANGED <<wire, afterWrite>>
  BY DEF WriteDone, WriteAgain, WriteFails, ClearWriteBuffer
<1>2. garbled' \in BOOLEAN
  BY DEF WriteDone, WriteAgain, WriteFails, HInv, TypeOK
<1>3. TypeOK'
  BY <1>1, <1>2, HttpAssumption DEF HInv, TypeOK, afterWrite, clientVars, parseVars, pageVars
<1>4. BufferInv' /\ PageInv'
  BY <1>1 DEF HInv, BufferInv, PageInv, afterWrite, parseVars, pageVars
<1>5. ServesReadable'
  BY <1>1 DEF HInv, ServesReadable, Readable, afterWrite
<1> QED BY <1>3, <1>4, <1>5 DEF HInv

-----------------------------------------------------------------------------
LEMMA HNext ==
  ASSUME HInv, [Next]_vars
  PROVE  HInv'
<1>1. CASE Client
  BY <1>1, ClientInv
<1>2. CASE Serve \/ FloodFills
  BY <1>2, ReadInv, ParseInv, MakeInv, WriteSomeInv, WriteEndsInv DEF Serve, Write
<1>3. CASE UNCHANGED vars
  <2>1. TypeOK'
    BY <1>3 DEF HInv, TypeOK, vars, clientVars, parseVars, writeVars, pageVars
  <2>2. BufferInv' /\ PageInv'
    BY <1>3 DEF HInv, BufferInv, PageInv, vars, parseVars, writeVars, pageVars
  <2>3. ServesReadable'
    BY <1>3 DEF HInv, ServesReadable, Readable, vars, writeVars
  <2> QED BY <2>1, <2>2, <2>3 DEF HInv
<1> QED BY <1>1, <1>2, <1>3 DEF Next

\* Between two events the write buffer is empty, one file at most is mapped,
\* and what is answered with status 200 may be read by others: for every
\* client, resource directory and send buffer (Connection.cpp:141,
\* HttpResponse.cpp:55, 67-75).
THEOREM HInvariance == Spec => []HInv
<1>1. Init => HInv
  BY HInit
<1>2. HInv /\ [Next]_vars => HInv'
  BY HNext
<1> QED BY <1>1, <1>2, PTL DEF Spec

-----------------------------------------------------------------------------
(* The responses on the wire. *)

LEMMA Remainders ==
  ASSUME NEW len \in Nat, NEW k \in 0 .. 4, len % 5 = k
  PROVE  /\ \A j \in 0 .. 4 - k : (len + j) % 5 = k + j
         /\ \A n \in 0 .. len : n % 5 = 0 => (len - n) % 5 = k /\ (len + n) % 5 = k
OBVIOUS

LEMMA Slice ==
  ASSUME NEW S, NEW seq \in Seq(S), NEW first \in 1 .. Len(seq), NEW last \in first .. Len(seq)
  PROVE  LET slice == SubSeq(seq, first, last)
         IN  /\ slice \in Seq(S)
             /\ Len(slice) = last - first + 1
             /\ \A j \in 1 .. last - first + 1 : slice[j] = seq[first + j - 1]
<1>1. /\ first \in Int /\ last \in Int /\ first <= last
      /\ \A i \in first .. last : seq[i] \in S
  OBVIOUS
<1> QED BY <1>1, SubSeqProperties

\* The client hears whole responses: what stays is a row with the same end.
LEMMA RowCut ==
  ASSUME NEW seq \in Seq(Piece), Row(seq), NEW n \in 1 .. Len(seq), seq[n].part = "body"
  PROVE  LET rest == SubSeq(seq, n + 1, Len(seq))
         IN  /\ Row(rest)
             /\ Len(rest) % 5 = Len(seq) % 5
             /\ rest # <<>> => rest[Len(rest)] = seq[Len(seq)]
<1> DEFINE rest == SubSeq(seq, n + 1, Len(seq))
<1>1. n % 5 = 0
  <2>1. seq[n].part = Part[((n - 1) % 5) + 1]
    BY DEF Row
  <2>2. (n - 1) % 5 \in 0 .. 4
    OBVIOUS
  <2>3. \A k \in 0 .. 4 : Part[k + 1] = "body" => k = 4
    BY DEF Part
  <2>4. (n - 1) % 5 = 4
    BY <2>1, <2>2, <2>3
  <2> QED BY <2>4
<1>2. /\ rest \in Seq(Piece)
      /\ Len(rest) = Len(seq) - n
      /\ \A i \in 1 .. Len(seq) - n : rest[i] = seq[n + i]
  <2>1. n + 1 \in Int /\ Len(seq) \in Nat /\ \A i \in n + 1 .. Len(seq) : seq[i] \in Piece
    OBVIOUS
  <2>2. /\ rest \in Seq(Piece)
        /\ Len(rest) = IF n + 1 <= Len(seq) THEN Len(seq) - (n + 1) + 1 ELSE 0
        /\ \A i \in 1 .. Len(seq) - (n + 1) + 1 : rest[i] = seq[(n + 1) + i - 1]
    BY <2>1, SubSeqProperties, SMTT(30)
  <2>3. Len(seq) - (n + 1) + 1 = Len(seq) - n /\ \A i \in Nat : (n + 1) + i - 1 = n + i
    OBVIOUS
  <2>4. n + 1 <= Len(seq) \/ Len(seq) - n = 0
    OBVIOUS
  <2> HIDE DEF rest
  <2>5. Len(rest) = Len(seq) - n
    BY ONLY <2>2, <2>3, <2>4
  <2>6. \A i \in 1 .. Len(seq) - n : rest[i] = seq[n + i]
    <3> TAKE i \in 1 .. Len(seq) - n
    <3>1. i \in Nat /\ i \in 1 .. Len(seq) - (n + 1) + 1
      BY <2>1, <2>3
    <3>2. rest[i] = seq[(n + 1) + i - 1]
      BY ONLY <2>2, <3>1
    <3> QED BY <2>3, <3>1, <3>2, Zenon
  <2> QED BY <2>2, <2>5, <2>6, Zenon
<1> HIDE DEF rest
<1>3. Len(seq) \in Nat /\ DOMAIN seq = 1 .. Len(seq) /\ DOMAIN rest = 1 .. Len(seq) - n
  BY <1>2
<1>4. \A i \in 1 .. Len(seq) - n : ((n + i) - 1) % 5 = (i - 1) % 5
  BY <1>1, <1>3
<1>5. Row(rest)
  <2> SUFFICES ASSUME NEW i \in 1 .. Len(seq) - n
               PROVE  /\ rest[i].part = Part[((i - 1) % 5) + 1]
                      /\ (i - 1) % 5 # 0 => rest[i].of = rest[i - 1].of
    BY <1>3 DEF Row
  <2>1. n + i \in DOMAIN seq /\ rest[i] = seq[n + i] /\ ((n + i) - 1) % 5 = (i - 1) % 5
    <3>1. n + i \in 1 .. Len(seq)
      BY <1>3
    <3> QED BY <1>2, <1>3, <1>4, <3>1, Zenon
  <2>2. (i - 1) % 5 # 0 => i - 1 \in 1 .. Len(seq) - n
    BY <1>3
  <2>3. (i - 1) % 5 # 0 => rest[i - 1] = seq[(n + i) - 1]
    <3> DEFINE j == i - 1
    <3>1. n + j = (n + i) - 1
      OBVIOUS
    <3>2. (i - 1) % 5 # 0 => j \in 1 .. Len(seq) - n
      BY <2>2
    <3> HIDE DEF j
    <3>3. (i - 1) % 5 # 0 => rest[j] = seq[(n + i) - 1]
      BY <1>2, <3>1, <3>2, Zenon
    <3> QED BY <3>3 DEF j
  <2>4. /\ seq[n + i].part = Part[(((n + i) - 1) % 5) + 1]
        /\ ((n + i) - 1) % 5 # 0 => seq[n + i].of = seq[(n + i) - 1].of
    BY <2>1, Zenon DEF Row
  <2> QED BY <2>1, <2>3, <2>4, Zenon
<1>6. Len(rest) % 5 = Len(seq) % 5
  <2>1. Len(seq) % 5 \in 0 .. 4 /\ n \in 0 .. Len(seq)
    BY <1>3
  <2>2. (Len(seq) - n) % 5 = Len(seq) % 5
    BY <1>1, <1>3, <2>1, Remainders
  <2> QED BY <1>2, <2>2
<1>7. rest # <<>> => rest[Len(rest)] = seq[Len(seq)]
  <2>1. rest # <<>> => Len(rest) \in 1 .. Len(seq) - n
    BY <1>2, <1>3
  <2>2. Len(rest) = Len(seq) - n /\ n + (Len(seq) - n) = Len(seq)
    BY <1>2, <1>3
  <2> QED BY <1>2, <2>1, <2>2
<1> QED BY <1>5, <1>6, <1>7 DEF rest

\* The m parts of a's response behind the first k.
Parts(a, k, m) == SubSeq(Response(a), k + 1, k + m)

\* A row whose last response is a's first k parts goes on with the next m.
LEMMA RowAppend ==
  ASSUME NEW seq \in Seq(Piece), Row(seq), NEW a \in Answer,
         NEW k \in 0 .. 4, NEW m \in 1 .. 5 - k,
         Len(seq) % 5 = k,
         k > 0 => seq[Len(seq)].of = a
  PROVE  /\ Row(seq \o Parts(a, k, m))
         /\ Len(seq \o Parts(a, k, m)) = Len(seq) + m
         /\ (seq \o Parts(a, k, m))[Len(seq) + m].of = a
<1> DEFINE more == Parts(a, k, m)
           all  == seq \o more
<1>1. Response(a) \in Seq(Piece) /\ Len(Response(a)) = 5
  BY ResponseParts
<1>2. \A i \in 1 .. 5 : Response(a)[i].part = Part[i] /\ Response(a)[i].of = a
  BY DEF Response
<1>3. /\ more \in Seq(Piece)
      /\ Len(more) = m
      /\ \A j \in 1 .. m : more[j] = Response(a)[k + j]
  <2> DEFINE first == k + 1
             last  == k + m
  <2>1. /\ k \in Int /\ m \in Int /\ last - first + 1 = m
        /\ \A j \in 1 .. m : first + j - 1 = k + j
    OBVIOUS
  <2>2. first \in 1 .. Len(Response(a)) /\ last \in first .. Len(Response(a))
    BY <1>1
  <2> HIDE DEF first, last
  <2>3. LET slice == SubSeq(Response(a), first, last)
        IN  /\ slice \in Seq(Piece)
            /\ Len(slice) = last - first + 1
            /\ \A j \in 1 .. last - first + 1 : slice[j] = Response(a)[first + j - 1]
    BY <1>1, <2>2, Slice, Zenon
  <2>4. more = SubSeq(Response(a), first, last)
    BY DEF first, last, Parts
  <2> HIDE DEF more
  <2> QED BY <2>1, <2>3, <2>4
<1> HIDE DEF more
<1>4. \A j \in 1 .. m : more[j].part = Part[k + j] /\ more[j].of = a
  <2> TAKE j \in 1 .. m
  <2>1. k + j \in 1 .. 5
    OBVIOUS
  <2> QED BY <1>2, <1>3, <2>1
<1>5. /\ Len(all) = Len(seq) + m /\ Len(seq) \in Nat
      /\ \A i \in 1 .. Len(seq) + m : all[i] = IF i <= Len(seq) THEN seq[i] ELSE more[i - Len(seq)]
      /\ DOMAIN all = 1 .. Len(seq) + m
  <2>1. /\ all \in Seq(Piece) /\ Len(all) = Len(seq) + Len(more)
        /\ \A i \in 1 .. Len(seq) + Len(more) :
             all[i] = IF i <= Len(seq) THEN seq[i] ELSE more[i - Len(seq)]
    BY <1>3, ConcatProperties
  <2> HIDE DEF all
  <2> QED BY <1>3, <2>1
<1> HIDE DEF all
<1>6. Row(all)
  <2> SUFFICES ASSUME NEW i \in 1 .. Len(seq) + m
               PROVE  /\ all[i].part = Part[((i - 1) % 5) + 1]
                      /\ (i - 1) % 5 # 0 => all[i].of = all[i - 1].of
    BY <1>5 DEF Row
  <2>1. CASE i <= Len(seq)
    <3>1. i \in DOMAIN seq /\ all[i] = seq[i]
      BY <1>5, <2>1
    <3>2. (i - 1) % 5 # 0 => i - 1 \in 1 .. Len(seq)
      BY <1>5, <2>1
    <3>3. (i - 1) % 5 # 0 => all[i - 1] = seq[i - 1]
      BY <1>5, <3>2
    <3> QED BY <3>1, <3>3 DEF Row
  <2>2. CASE i > Len(seq)
    <3> DEFINE j == i - Len(seq)
    <3>1. j \in 1 .. m /\ all[i] = more[j]
      BY <1>5, <2>2
    <3>2. (i - 1) % 5 = k + j - 1
      <4>1. j - 1 \in 0 .. 4 - k /\ i - 1 = Len(seq) + (j - 1) /\ j \in Int
        BY <1>5, <3>1
      <4> HIDE DEF j
      <4>2. (Len(seq) + (j - 1)) % 5 = k + (j - 1)
        <5>1. \A i0 \in 0 .. 4 - k : (Len(seq) + i0) % 5 = k + i0
          BY <1>5, Remainders, Zenon
        <5> QED BY <4>1, <5>1, Zenon
      <4> QED BY <4>1, <4>2
    <3>3. all[i].part = Part[((i - 1) % 5) + 1] /\ all[i].of = a
      <4>1. ((i - 1) % 5) + 1 = k + j
        BY <1>5, <3>1, <3>2
      <4> HIDE DEF j
      <4> QED BY <1>4, <3>1, <4>1
    <3>4. CASE j > 1
      <4>1. i - 1 \in 1 .. Len(seq) + m /\ i - 1 > Len(seq) /\ j - 1 \in 1 .. m
        BY <1>5, <3>1, <3>4
      <4>2. all[i - 1] = more[j - 1]
        BY <1>5, <4>1, SMTT(30)
      <4> QED BY <1>4, <3>3, <4>1, <4>2
    <3>5. CASE j = 1
      <4>1. i - 1 = Len(seq) /\ (i - 1) % 5 = k
        BY <1>5, <3>2, <3>5, SMTT(30)
      <4>2. k > 0 => all[i - 1] = seq[Len(seq)]
        <5>1. k > 0 => Len(seq) \in 1 .. Len(seq) + m
          BY <1>5
        <5> QED BY <1>5, <4>1, <5>1
      <4> QED BY <3>3, <4>1, <4>2
    <3> QED BY <3>1, <3>3, <3>4, <3>5
  <2> QED BY <1>5, <2>1, <2>2
<1>7. all[Len(seq) + m].of = a
  <2>1. Len(all) \in 1 .. Len(seq) + m /\ Len(all) > Len(seq) /\ Len(all) - Len(seq) = m
    BY <1>5
  <2> QED BY <1>4, <1>5, <2>1
<1> QED BY <1>5, <1>6, <1>7 DEF all, more

LEMMA WireInit == Init => WireInv
<1> SUFFICES ASSUME Init PROVE WireInv
  OBVIOUS
<1>1. wire = <<>> /\ pc = "wait"
  BY DEF Init
<1> QED BY <1>1 DEF WireInv, Row, LastIsWhole

\* Steps that touch neither the wire nor the response.
LEMMA WireSame ==
  ASSUME WireInv, UNCHANGED <<wire, garbled, writeVars>>,
         \/ pc' = pc
         \/ pc \in {"wait", "read", "parse", "make"} /\ pc' # "write"
  PROVE  WireInv'
BY DEF WireInv, Row, LastIsWhole, WriteInv, writeVars

LEMMA HearWire ==
  ASSUME HInv, WireInv, NEW n \in 1 .. Len(wire), Hear(n)
  PROVE  WireInv'
<1> SUFFICES ASSUME ~garbled PROVE WireInv'
  BY DEF WireInv, Hear
<1>1. /\ wire' = SubSeq(wire, n + 1, Len(wire)) /\ wire[n].part = "body"
      /\ UNCHANGED <<pc, garbled, writeBuf, left, writes>>
  BY DEF Hear, writeVars
<1>2. wire \in Seq(Piece) /\ Row(wire)
  BY DEF HInv, TypeOK, WireInv
<1>3. /\ Row(wire')
      /\ Len(wire') % 5 = Len(wire) % 5
      /\ wire' # <<>> => wire'[Len(wire')] = wire[Len(wire)]
  BY <1>1, <1>2, RowCut
<1>4. LastIsWhole' <=> LastIsWhole
  BY <1>3 DEF LastIsWhole
<1>5. pc = "write" => WriteInv'
  <2> SUFFICES ASSUME pc = "write" PROVE WriteInv'
    OBVIOUS
  <2>1. WriteInv
    BY DEF WireInv
  <2>2. writes = 1 /\ left > 0 => wire' # <<>>
    <3> SUFFICES ASSUME writes = 1, left > 0, wire' = <<>> PROVE FALSE
      OBVIOUS
    <3>1. left < 5 /\ Len(wire) % 5 = 5 - left /\ left \in Nat
      BY <2>1 DEF WriteInv, HInv, TypeOK
    <3>2. Len(wire') = 0
      OBVIOUS
    <3> QED BY <1>3, <3>1, <3>2
  <2> QED BY <1>1, <1>3, <1>4, <2>1, <2>2 DEF WriteInv
<1> QED BY <1>1, <1>3, <1>4, <1>5 DEF WireInv, Row

LEMMA MakeWire ==
  ASSUME HInv, WireInv, MakeResponse
  PROVE  WireInv'
<1>1. writes = 0 /\ pc = "make"
  BY BeforeMake DEF MakeResponse
<1>2. UNCHANGED <<wire, garbled, writes>>
  BY DEF MakeResponse
<1>3. pc' \in {"write", "undefined", "crashed"} /\ (pc' = "write" => left' = Len(writeBuf'))
  BY DEF MakeResponse, OpenFails, MapFails, MapMistaken, NoContent, Content, SetWriteBuffer
<1> QED BY <1>1, <1>2, <1>3 DEF WireInv, WriteInv, Row, LastIsWhole

LEMMA WriteSomeWire ==
  ASSUME HInv, WireInv, NEW n \in 1 .. left, WriteSome(n)
  PROVE  WireInv'
<1> SUFFICES ASSUME ~garbled' PROVE WireInv'
  BY DEF WireInv
<1>1. /\ pc = "write" /\ pc' = "write" /\ writes' = writes + 1
      /\ wire' = wire \o SubSeq(writeBuf, Len(writeBuf) - left + 1, Len(writeBuf) - left + n)
      /\ left' = Len(writeBuf) - n
      /\ writeBuf' = writeBuf
      /\ ~garbled /\ ~(writes >= 2)
  BY DEF WriteSome, Taken
<1>2. /\ wire \in Seq(Piece) /\ left \in Nat /\ left <= Len(writeBuf) /\ writes \in Nat
      /\ Row(wire) /\ WriteInv
  BY <1>1, HttpAssumption DEF HInv, TypeOK, BufferInv, WireInv
<1>3. PICK a \in Answer : writeBuf = Response(a)
  <2>1. writeBuf # <<>>
    BY <1>2
  <2> QED BY <1>1, <2>1 DEF HInv, BufferInv
<1>4. Len(writeBuf) = 5 /\ writeBuf[1].of = a
  <2>1. Len(Response(a)) = 5 /\ Response(a)[1].of = a
    BY ResponseParts DEF Response
  <2> QED BY <1>3, <2>1
<1> DEFINE k == 5 - left
<1>5. /\ k \in 0 .. 4 /\ n \in 1 .. 5 - k
      /\ Len(wire) % 5 = k
      /\ k > 0 => wire[Len(wire)].of = a
  <2>1. CASE writes = 0
    BY <1>2, <1>4, <2>1 DEF WriteInv, LastIsWhole
  <2>2. CASE writes = 1
    BY <1>2, <1>4, <2>2 DEF WriteInv
  <2> QED BY <1>1, <1>2, <2>1, <2>2
<1>6. wire' = wire \o SubSeq(Response(a), k + 1, k + n) /\ left' = 5 - n
  BY <1>1, <1>3, <1>4
<1> HIDE DEF k
<1>7. Row(wire') /\ Len(wire') = Len(wire) + n /\ wire'[Len(wire')].of = a
  <2>1. wire \in Seq(Piece) /\ Row(wire) /\ k \in 0 .. 4 /\ n \in 1 .. 5 - k
    BY <1>2, <1>5
  <2>2. Len(wire) % 5 = k /\ (k > 0 => wire[Len(wire)].of = a)
    BY <1>5
  <2>3. /\ Row(wire \o Parts(a, k, n))
        /\ Len(wire \o Parts(a, k, n)) = Len(wire) + n
        /\ (wire \o Parts(a, k, n))[Len(wire) + n].of = a
    BY <2>1, <2>2, RowAppend
  <2> QED BY <1>6, <2>3 DEF Parts
<1>8. WriteInv'
  <2>1. CASE writes = 0
    <3>1. k = 0 /\ Len(wire) \in Nat
      BY <1>2, <1>4, <2>1 DEF WriteInv, k
    <3>2. n = 5 => Len(wire') % 5 = 0
      BY <1>5, <1>7, <3>1
    <3>3. n < 5 => Len(wire') % 5 = n
      BY <1>5, <1>7, <3>1
    <3>4. /\ writes' = 1 /\ left' = 5 - n /\ n \in 1 .. 5
          /\ writeBuf' # <<>> /\ writeBuf'[1].of = a
      <4>1. writes' = 0 + 1 /\ left' = 5 - n
        BY <1>1, <1>6, <2>1
      <4>2. n \in 1 .. 5
        BY <1>5, <3>1
      <4>3. writeBuf' # <<>> /\ writeBuf'[1].of = a
        BY <1>1, <1>4
      <4> QED BY <4>1, <4>2, <4>3
    <3>5. n = 5 => left' = 0 /\ Len(wire') % 5 = 0
      BY <3>2, <3>4
    <3>6. n # 5 => left' > 0 /\ left' < 5 /\ Len(wire') % 5 = 5 - left'
      BY <3>3, <3>4
    <3>7. writes' # 0 /\ ~(writes' > 1)
      BY <3>4
    <3> QED BY <1>7, <3>4, <3>5, <3>6, <3>7 DEF WriteInv, LastIsWhole
  <2>2. CASE writes = 1
    <3>1. left < 5
      BY <1>2, <2>2 DEF WriteInv
    <3>2. left' > 0 /\ writes' = 2
      BY <1>1, <1>2, <1>6, <2>2, <3>1
    <3>3. writeBuf' # <<>>
      BY <1>1, <1>4
    <3>4. writes' # 0 /\ writes' # 1
      BY <3>2
    <3> QED BY <3>2, <3>3, <3>4 DEF WriteInv
  <2> QED BY <1>1, <1>2, <2>1, <2>2
<1> QED BY <1>1, <1>7, <1>8 DEF WireInv, Row

LEMMA WriteEndsWire ==
  ASSUME HInv, WireInv, WriteDone \/ WriteAgain \/ WriteFails
  PROVE  WireInv'
<1> SUFFICES ASSUME ~garbled' PROVE WireInv'
  BY DEF WireInv
<1>1. /\ pc = "write" /\ pc' = "wait" /\ wire' = wire /\ ~garbled
      /\ left = 0 \/ (left > 0 /\ ~Dropped)
  <2>1. wire' = wire
    BY DEF WriteDone, WriteAgain, WriteFails
  <2>2. CASE WriteDone
    BY <2>1, <2>2 DEF WriteDone
  <2>3. CASE WriteAgain
    BY <2>1, <2>3 DEF WriteAgain
  <2>4. CASE WriteFails
    BY <2>1, <2>4 DEF WriteFails
  <2> QED BY <2>2, <2>3, <2>4
<1>2. Row(wire) /\ WriteInv /\ writes \in Nat /\ left \in Nat
  BY <1>1, HttpAssumption DEF WireInv, HInv, TypeOK
<1>3. LastIsWhole
  <2>1. CASE left = 0
    <3>1. writes = 0 \/ writes = 1
      BY <1>2, <2>1 DEF WriteInv
    <3> QED BY <1>2, <2>1, <3>1 DEF WriteInv
  <2>2. CASE left > 0
    BY <1>1, <2>2 DEF Dropped, LastIsWhole
  <2> QED BY <1>2, <2>1, <2>2
<1> QED BY <1>1, <1>2, <1>3 DEF WireInv, Row, LastIsWhole

LEMMA WireNext ==
  ASSUME HInv, WireInv, [Next]_vars
  PROVE  WireInv'
<1>1. CASE Client
  BY <1>1, WireSame, HearWire DEF Client, Ask, Segment, Leave, Flood, Pause
<1>2. CASE Event \/ ReadSome \/ ReadFlood \/ FloodFills \/ ReadEnds \/ ReadAgain
  BY <1>2, WireSame DEF Event, ReadSome, ReadFlood, FloodFills, ReadEnds, ReadAgain
<1>3. CASE Parse
  BY <1>3, WireSame DEF Parse, RequestLine, BadRequestLine, Header, Body, Overrun, Turn, afterTurn
<1>4. CASE MakeResponse
  BY <1>4, MakeWire
<1>5. CASE Write
  BY <1>5, WriteSomeWire, WriteEndsWire DEF Write
<1>6. CASE UNCHANGED vars
  BY <1>6, WireSame DEF vars
<1> QED BY <1>1, <1>2, <1>3, <1>4, <1>5, <1>6 DEF Next, Serve

-----------------------------------------------------------------------------
(* What a turn of the parser makes of its request. *)

LEMMA LookupInsert ==
  ASSUME NEW map, NEW k, NEW value, NEW j
  PROVE  Lookup(Insert(map, k, value), j) = IF j = k THEN value ELSE Lookup(map, j)
BY DEF Lookup, Insert

\* All of a request but its state, its headers and its form.
SameLine(q, t) == t.method = q.method /\ t.path = q.path /\ t.version = q.version

LEMMA ParsedLine ==
  ASSUME NEW line
  PROVE  LET t == ParseRequestLine(EmptyRequest, line)
             n == MethodAt(line)
         IN  /\ t.state = "HEADERS" /\ t.headers = NoEntry
             /\ t.method = SubSeq(line, 1, n) /\ t.path = <<Html(line[n + 1])>>
             /\ t.version = SubSeq(line, n + 2, Len(line))
<1> DEFINE n == MethodAt(line)
           m == SubSeq(line, 1, n)
           p == <<Html(line[n + 1])>>
           v == SubSeq(line, n + 2, Len(line))
<1>1. ParseRequestLine(EmptyRequest, line)
        = [EmptyRequest EXCEPT !.state = "HEADERS", !.method = m, !.path = p, !.version = v]
  BY DEF ParseRequestLine
<1> HIDE DEF n, m, p, v
<1>2. /\ ParseRequestLine(EmptyRequest, line).state = "HEADERS"
      /\ ParseRequestLine(EmptyRequest, line).headers = NoEntry
      /\ ParseRequestLine(EmptyRequest, line).method = m
      /\ ParseRequestLine(EmptyRequest, line).path = p
      /\ ParseRequestLine(EmptyRequest, line).version = v
  BY <1>1 DEF EmptyRequest
<1> QED BY <1>2 DEF n, m, p, v

LEMMA ParsedHeader ==
  ASSUME NEW q, RequestOK(q), NEW buf, NEW n, NEW name, NEW value,
         HeaderRead(buf, n, name, value),
         NEW t, t = ParseHeaders(q, Line(buf, n), AtMostTwoBytesLeft(buf, n))
  PROVE  t.state = q.state /\ SameLine(q, t) /\ t.headers = Insert(q.headers, <<name>>, <<value>>)
<1> DEFINE H == Insert(q.headers, <<name>>, <<value>>)
<1>1. t = [q EXCEPT !.headers = H]
  BY DEF ParseHeaders, HeaderRead
<1> HIDE DEF H
<1>2. t.state = q.state /\ SameLine(q, t) /\ t.headers = H
  BY <1>1 DEF RequestOK, SameLine
<1> QED BY <1>2 DEF H

LEMMA ParsedEmptyLine ==
  ASSUME NEW q, RequestOK(q), NEW line, ~IsHeader(line), NEW last \in BOOLEAN,
         NEW t, t = ParseHeaders(q, line, last)
  PROVE  /\ t.state = IF last THEN "FINISH" ELSE "BODY"
         /\ SameLine(q, t) /\ t.headers = q.headers
<1>1. t = IF last THEN [[q EXCEPT !.state = "BODY"] EXCEPT !.state = "FINISH"]
          ELSE [q EXCEPT !.state = "BODY"]
  BY DEF ParseHeaders
<1> QED BY <1>1 DEF RequestOK, SameLine

LEMMA ParsedBody ==
  ASSUME NEW q, RequestOK(q), NEW line, line # <<>>, IsForm(q), NEW verified,
         NEW t, t = ParseBody(q, line, verified)
  PROVE  /\ t.state = "FINISH" /\ t.method = q.method /\ t.version = q.version
         /\ t.headers = q.headers /\ t.post = Fields(line)
         /\ ~IsVerified(q) => t.path = q.path
         /\ IsVerified(q) /\ verified => t.path = <<"/welcome.html">>
         /\ IsVerified(q) /\ ~verified => t.path = <<"/error.html">>
<1> DEFINE post == Fields(line)
           path == IF ~(IsForm(q) /\ IsVerified(q)) THEN q.path
                   ELSE IF verified THEN <<"/welcome.html">> ELSE <<"/error.html">>
<1>1. t = [q EXCEPT !.state = "FINISH", !.post = post, !.path = path]
  BY DEF ParseBody
<1>2. /\ ~IsVerified(q) => path = q.path
      /\ IsVerified(q) /\ verified => path = <<"/welcome.html">>
      /\ IsVerified(q) /\ ~verified => path = <<"/error.html">>
  OBVIOUS
<1> HIDE DEF post, path
<1>3. /\ t.state = "FINISH" /\ t.method = q.method /\ t.version = q.version
      /\ t.headers = q.headers /\ t.post = post /\ t.path = path
  BY <1>1 DEF RequestOK
<1> QED BY <1>2, <1>3 DEF post

-----------------------------------------------------------------------------
(* The parser on a whole request. *)

LEMMA WholeRequestLine ==
  ASSUME HInv, NEW r \in RequestType, NEW body, Encoded(r, readBuf, body), body \in Seq(FormToken),
         pos = 0, req = EmptyRequest, pc = "parse", Parse
  PROVE  pc' = "parse" /\ Reading(r)'
<1> DEFINE line == ThisLine
<1>1. /\ r.method \in Method /\ r.path \in Path /\ r.version \in Version
      /\ HeadersEnd(r) \in {5, 10, 15} /\ Len(body) \in Nat
      /\ r.method = "POST" => HeadersEnd(r) \in {10, 15}
  BY DEF RequestType, HeadersEnd
<1>2. /\ readBuf \in Text /\ Len(readBuf) = HeadersEnd(r) + 2 + Len(body)
      /\ readBuf[1] = r.method /\ readBuf[2] = r.path /\ readBuf[3] = r.version
      /\ readBuf[4] = "CR" /\ readBuf[5] = "LF"
  BY DEF Encoded
<1>3. IsLine(readBuf, 0, 3)
  <2>1. \A i \in 0 + 1 .. 0 + 3 : readBuf[i] # "CR"
    <3> TAKE i \in 0 + 1 .. 0 + 3
    <3>1. i = 1 \/ i = 2 \/ i = 3
      OBVIOUS
    <3>2. r.method # "CR" /\ r.path # "CR" /\ r.version # "CR"
      BY <1>1 DEF Method, Path, Version
    <3> QED BY <3>1, <3>2, <1>2
  <2>2. 0 + 3 + 2 <= Len(readBuf)
    BY <1>1, <1>2
  <2>3. readBuf[0 + 3 + 1] = "CR" /\ readBuf[0 + 3 + 2] = "LF"
    BY <1>2
  <2> QED BY <1>2, <2>1, <2>2, <2>3, LineIs
<1>4. /\ line \in Text /\ Len(line) = 3 /\ LineEnd(readBuf, 0) = 4
      /\ line[1] = r.method /\ line[2] = r.path /\ line[3] = r.version
  BY <1>2, <1>3 DEF IsLine, ThisLine
<1>5. MethodAt(line) = 1 /\ IsRequestLine(line)
  <2>1. r.path \notin Method /\ r.version \notin Method \cup Path
    BY <1>1 DEF Method, Path, Version
  <2> HIDE DEF line
  <2>2. MethodAt(line) = 1
    BY <1>1, <1>4, MethodIsFirst
  <2>3. \A i \in DOMAIN line : i = 1 \/ i = 2 \/ i = 3
    BY <1>4 DEF Text
  <2>4. \A i \in DOMAIN line : line[i] \in Method \cup Path => i \in {1, 1 + 1}
    BY <1>4, <2>1, <2>3
  <2> QED BY <1>1, <1>4, <2>2, <2>4 DEF IsRequestLine
<1>6. SubSeq(line, 3, Len(line)) = <<r.version>> /\ SubSeq(line, 1, 1) = <<r.method>>
  <2>1. 3 \in 1 .. Len(line) /\ 1 \in 1 .. Len(line)
    BY <1>4
  <2> QED BY <1>4, <2>1, OneToken
<1>7. req.state = "REQUEST_LINE"
  BY DEF EmptyRequest
<1>8. CASE RequestLine
  <2>1. pc' = "parse" /\ pos' = 5 /\ req' = ParseRequestLine(EmptyRequest, line)
    BY <1>4, <1>8 DEF RequestLine, Turn, NextPos
  <2> DEFINE t == ParseRequestLine(EmptyRequest, line)
  <2>2. /\ t.state = "HEADERS" /\ t.headers = NoEntry
        /\ t.method = SubSeq(line, 1, 1) /\ t.path = <<Html(line[2])>>
        /\ t.version = SubSeq(line, 3, Len(line))
    <3> HIDE DEF line
    <3>1. 1 + 1 = 2 /\ 1 + 2 = 3
      OBVIOUS
    <3> QED BY <1>5, <3>1, ParsedLine
  <2> HIDE DEF t
  <2>3. /\ req'.state = "HEADERS" /\ req'.headers = NoEntry
        /\ req'.method = <<r.method>> /\ req'.path = <<Html(r.path)>> /\ req'.version = <<r.version>>
    BY <1>4, <1>6, <2>1, <2>2 DEF t
  <2>4. \A k : Lookup(NoEntry, k) = <<>>
    BY DEF Lookup, NoEntry
  <2>5. HeadersRead(r)'
    BY <1>1, <2>1, <2>3, <2>4 DEF HeadersRead
  <2>6. 5 \in {5, 10, 15} /\ 5 <= HeadersEnd(r)
    BY <1>1
  <2> QED BY <2>1, <2>3, <2>5, <2>6 DEF Reading
<1> QED BY <1>5, <1>7, <1>8 DEF Parse, BadRequestLine, Header, Body, Overrun, ThisLine

\* A header: the next one, or the empty line, is read from there.
LEMMA WholeHeader ==
  ASSUME HInv, NEW r \in RequestType, NEW body, Encoded(r, readBuf, body), body \in Seq(FormToken),
         pos \in {5, 10, 15}, pos < HeadersEnd(r), req.state = "HEADERS", HeadersRead(r),
         pc = "parse", Parse
  PROVE  pc' = "parse" /\ Reading(r)'
<1>1. /\ r.keepAlive \in BOOLEAN /\ Len(body) \in Nat
      /\ RequestOK(req)
      /\ readBuf \in Text /\ Len(readBuf) = HeadersEnd(r) + 2 + Len(body)
  BY DEF RequestType, HInv, TypeOK, RequestOK, Encoded
<1> DEFINE first == r.keepAlive /\ pos = 5
           name  == IF first THEN "Connection" ELSE "Content-Type"
           value == IF first THEN "keep-alive" ELSE "urlencoded"
<1>2. /\ HeadersEnd(r) \in {10, 15}
      /\ first \/ (r.method = "POST" /\ pos = HeadersEnd(r) - 5)
      /\ first => ~(r.method = "POST" /\ pos + 5 >= HeadersEnd(r))
      /\ r.method = "POST" => HeadersEnd(r) = IF r.keepAlive THEN 15 ELSE 10
      /\ r.method # "POST" => HeadersEnd(r) = IF r.keepAlive THEN 10 ELSE 5
  BY <1>1 DEF HeadersEnd
<1>3. HeaderRead(readBuf, pos, name, value)
  <2>1. /\ readBuf[pos + 1] = name /\ readBuf[pos + 2] = ":" /\ readBuf[pos + 3] = value
        /\ readBuf[pos + 4] = "CR" /\ readBuf[pos + 5] = "LF"
    <3>1. CASE first
      <4>1. pos + 1 = 6 /\ pos + 2 = 7 /\ pos + 3 = 8 /\ pos + 4 = 9 /\ pos + 5 = 10
        BY <3>1
      <4> QED BY <3>1, <4>1 DEF Encoded
    <3>2. CASE ~first
      <4>1. r.method = "POST" /\ pos = HeadersEnd(r) - 5
        BY <1>2, <3>2
      <4>2. /\ pos + 1 = HeadersEnd(r) - 4 /\ pos + 2 = HeadersEnd(r) - 3
            /\ pos + 3 = HeadersEnd(r) - 2 /\ pos + 4 = HeadersEnd(r) - 1 /\ pos + 5 = HeadersEnd(r)
        BY <1>2, <4>1
      <4> QED BY <3>2, <4>1, <4>2 DEF Encoded
    <3> QED BY <3>1, <3>2
  <2>2. pos \in Nat /\ pos + 7 <= Len(readBuf)
    <3>1. pos + 5 <= HeadersEnd(r)
      BY <1>2
    <3> QED BY ONLY <1>1, <1>2, <3>1, pos \in {5, 10, 15}
  <2>3. name \notin {"CR", "LF", ":"} /\ value \notin {"CR", "LF"}
    OBVIOUS
  <2> HIDE DEF name, value
  <2> QED BY <1>1, <2>1, <2>2, <2>3, HeaderIs
<1> HIDE DEF name, value
<1>4. Header
  <2>1. ~(pos > Len(readBuf))
    BY ONLY <1>1, <1>2, pos \in {5, 10, 15}, pos < HeadersEnd(r)
  <2> QED BY <2>1 DEF Parse, RequestLine, BadRequestLine, Header, Body, Overrun
<1>5. /\ pos' = pos + 5
      /\ req' = ParseHeaders(req, Line(readBuf, pos), AtMostTwoBytesLeft(readBuf, pos))
      /\ pc' = IF req'.state = "FINISH" THEN "make" ELSE "parse"
  BY <1>3, <1>4 DEF Header, Turn, HeaderRead, ThisLine
<1>6. /\ req'.state = "HEADERS" /\ SameLine(req, req')
      /\ req'.headers = Insert(req.headers, <<name>>, <<value>>)
  BY <1>1, <1>3, <1>5, ParsedHeader
<1>7. /\ Lookup(req'.headers, <<"Connection">>)
           = IF r.keepAlive THEN <<"keep-alive">> ELSE <<>>
      /\ Lookup(req'.headers, <<"Content-Type">>)
           = IF first THEN <<>> ELSE <<"urlencoded">>
  <2>1. <<"Connection">> # <<"Content-Type">>
    OBVIOUS
  <2>2. \A j : Lookup(req'.headers, j) = IF j = <<name>> THEN <<value>> ELSE Lookup(req.headers, j)
    BY <1>6, LookupInsert
  <2>3. CASE first
    <3>1. name = "Connection" /\ value = "keep-alive"
      BY <2>3 DEF name, value
    <3>2. Lookup(req.headers, <<"Content-Type">>) = <<>>
      BY <1>2, <2>3 DEF HeadersRead
    <3> QED BY <2>1, <2>2, <2>3, <3>1, <3>2
  <2>4. CASE ~first
    <3>1. name = "Content-Type" /\ value = "urlencoded"
      BY <2>4 DEF name, value
    <3>2. Lookup(req.headers, <<"Connection">>) = IF r.keepAlive THEN <<"keep-alive">> ELSE <<>>
      BY <2>4 DEF HeadersRead
    <3> QED BY <2>1, <2>2, <2>4, <3>1, <3>2
  <2> QED BY <2>3, <2>4
<1>8. HeadersRead(r)'
  <2>1. pos' > 5 /\ (first <=> ~(r.method = "POST" /\ pos' >= HeadersEnd(r)))
    BY <1>2, <1>5
  <2> QED BY <1>6, <1>7, <2>1 DEF HeadersRead, SameLine
<1>9. pos' \in {5, 10, 15} /\ pos' <= HeadersEnd(r)
  BY <1>2, <1>5
<1> QED BY <1>5, <1>6, <1>8, <1>9 DEF Reading

\* The empty line.
LEMMA WholeEmptyLine ==
  ASSUME HInv, NEW r \in RequestType, NEW body, Encoded(r, readBuf, body), body \in Seq(FormToken),
         body = <<>> <=> r.method # "POST" \/ r.form = <<>>,
         pos = HeadersEnd(r), req.state = "HEADERS", HeadersRead(r),
         pc = "parse", Parse
  PROVE  \/ pc' = "parse" /\ Reading(r)'
         \/ pc' = "make" /\ Understood(r)'
<1> DEFINE h == HeadersEnd(r)
           line == Line(readBuf, h)
           last == AtMostTwoBytesLeft(readBuf, h)
<1>1. /\ h \in {5, 10, 15} /\ Len(body) \in Nat /\ (body = <<>> <=> Len(body) = 0)
      /\ r.keepAlive \in BOOLEAN /\ r.keepAlive => h > 5
      /\ RequestOK(req)
  BY DEF RequestType, HeadersEnd, HInv, TypeOK, RequestOK
<1>2. /\ readBuf \in Text /\ Len(readBuf) = h + 2 + Len(body)
      /\ readBuf[h + 1] = "CR" /\ readBuf[h + 2] = "LF"
  BY DEF Encoded
<1> HIDE DEF h
<1>3. /\ ~IsHeader(line) /\ NextPos(readBuf, h) = h + 2
      /\ last <=> Len(readBuf) = h + 2
  <2>1. h \in Nat /\ h + 2 <= Len(readBuf)
    BY ONLY <1>1, <1>2
  <2> QED BY <1>2, <2>1, EmptyLineIs
<1>4. last \in BOOLEAN /\ (last <=> body = <<>>)
  <2>1. last \in BOOLEAN
    BY DEF AtMostTwoBytesLeft
  <2>2. Len(readBuf) = h + 2 <=> Len(body) = 0
    BY ONLY <1>1, <1>2
  <2> HIDE DEF last
  <2> QED BY <1>1, <1>3, <2>1, <2>2
<1>5. pos = h
  BY DEF h
<1>6. Header
  <2>1. ~(pos > Len(readBuf))
    BY ONLY <1>1, <1>2, <1>5
  <2> QED BY <2>1 DEF Parse, RequestLine, BadRequestLine, Header, Body, Overrun
<1>7. /\ pos' = h + 2 /\ req' = ParseHeaders(req, line, last)
      /\ pc' = IF req'.state = "FINISH" THEN "make" ELSE "parse"
  BY <1>3, <1>5, <1>6 DEF Header, Turn, ThisLine
<1> HIDE DEF line, last
<1>8. /\ req'.state = IF last THEN "FINISH" ELSE "BODY"
      /\ SameLine(req, req') /\ req'.headers = req.headers
  BY <1>1, <1>3, <1>4, <1>7, ParsedEmptyLine
<1>9. /\ req'.method = <<r.method>> /\ req'.path = <<Html(r.path)>> /\ req'.version = <<r.version>>
      /\ Lookup(req'.headers, <<"Connection">>) = IF r.keepAlive THEN <<"keep-alive">> ELSE <<>>
      /\ Lookup(req'.headers, <<"Content-Type">>) = IF r.method = "POST" THEN <<"urlencoded">> ELSE <<>>
  <2>1. r.keepAlive => pos > 5
    BY <1>1, <1>5
  <2>2. pos >= HeadersEnd(r)
    <3>1. h >= h
      BY <1>1
    <3> QED BY <3>1, <1>5 DEF h
  <2> QED BY <1>8, <2>1, <2>2 DEF HeadersRead, SameLine
<1>10. CASE last
  <2>1. pc' = "make" /\ req'.state = "FINISH"
    BY <1>7, <1>8, <1>10
  <2>2. ~(r.method = "POST" /\ r.form # <<>>)
    BY <1>4, <1>10
  <2>3. IsKeepAlive(req') <=> r.keepAlive /\ r.version = "1.1"
    BY <1>9 DEF IsKeepAlive
  <2>4. Understood(r)'
    BY <1>9, <2>1, <2>2, <2>3 DEF Understood
  <2> QED BY <2>1, <2>4
<1>11. CASE ~last
  <2>1. pc' = "parse" /\ req'.state = "BODY"
    BY <1>7, <1>8, <1>11
  <2>2. r.method = "POST" /\ r.form # <<>>
    BY <1>4, <1>11
  <2>3. HeadersRead(r)'
    <3>1. /\ (r.keepAlive /\ pos' > 5) <=> r.keepAlive
          /\ pos' >= HeadersEnd(r)
      BY <1>1, <1>7 DEF h
    <3> QED BY <1>9, <3>1 DEF HeadersRead
  <2> QED BY <1>7, <2>1, <2>2, <2>3 DEF Reading, h
<1> QED BY <1>4, <1>10, <1>11

\* The form.
LEMMA WholeBody ==
  ASSUME HInv, NEW r \in RequestType, NEW body, Encoded(r, readBuf, body), body \in Seq(FormToken),
         body = FormText(r.form), body # <<>>, r.method = "POST", r.form # <<>>,
         pos = HeadersEnd(r) + 2, req.state = "BODY", HeadersRead(r),
         pc = "parse", Parse
  PROVE  pc' = "make" /\ Understood(r)'
<1> DEFINE n == HeadersEnd(r) + 2
           line == Line(readBuf, n)
<1>1. n \in {12, 17} /\ Len(body) \in Nat /\ RequestOK(req) /\ Len(body) >= 1
  BY DEF RequestType, HeadersEnd, HInv, TypeOK, RequestOK
<1>2. /\ readBuf \in Text /\ Len(readBuf) = n + Len(body)
      /\ \A i \in 1 .. Len(body) : readBuf[n + i] = body[i]
  BY DEF Encoded
<1>3. pos = n
  OBVIOUS
<1>4. \A i \in 1 .. Len(body) : body[i] # "CR"
  <2>1. \A i \in 1 .. Len(body) : body[i] \in FormToken
    OBVIOUS
  <2>2. "CR" \notin FormToken
    BY HttpAssumption DEF FormToken, Delimiter
  <2> QED BY <2>1, <2>2
<1> HIDE DEF n
<1>5. IsLine(readBuf, n, Len(body))
  <2>1. \A i \in n + 1 .. n + Len(body) : readBuf[i] # "CR"
    <3> TAKE i \in n + 1 .. n + Len(body)
    <3>1. i - n \in 1 .. Len(body) /\ n + (i - n) = i
      BY ONLY <1>1, i \in n + 1 .. n + Len(body)
    <3> QED BY <1>2, <1>4, <3>1
  <2>2. n \in Nat /\ n + Len(body) = Len(readBuf)
    BY <1>1, <1>2
  <2> QED BY <1>1, <1>2, <2>1, <2>2, LastLineIs
<1>6. line = body
  <2>1. line \in Seq(Token) /\ Len(line) = Len(body) /\ \A i \in 1 .. Len(body) : line[i] = body[i]
    BY <1>2, <1>5 DEF IsLine, Text
  <2> HIDE DEF line
  <2> QED BY <2>1
<1>7. Body
  <2>1. ~(pos > Len(readBuf))
    BY ONLY <1>1, <1>2, <1>3
  <2> QED BY <2>1 DEF Parse, RequestLine, BadRequestLine, Header, Body, Overrun
<1>8. PICK verified \in VerifyAnswers(req, body) : req' = ParseBody(req, body, verified)
  BY <1>3, <1>6, <1>7 DEF Body, ThisLine
<1>9. pc' = "make"
  BY <1>7 DEF Body
<1>10. /\ req.method = <<r.method>> /\ req.path = <<Html(r.path)>> /\ req.version = <<r.version>>
       /\ Lookup(req.headers, <<"Connection">>) = IF r.keepAlive THEN <<"keep-alive">> ELSE <<>>
       /\ Lookup(req.headers, <<"Content-Type">>) = <<"urlencoded">>
  <2>1. HeadersEnd(r) \in Nat
    BY DEF HeadersEnd
  <2>2. pos > 5
    BY <1>1, <1>3
  <2>3. pos >= HeadersEnd(r)
    <3>1. \A k \in Nat : k + 2 >= k
      OBVIOUS
    <3>2. pos = HeadersEnd(r) + 2
      OBVIOUS
    <3> QED BY <2>1, <3>1, <3>2
  <2> QED BY <2>2, <2>3 DEF HeadersRead
<1>11. IsForm(req)
  BY <1>10 DEF IsForm
<1>12. /\ req'.state = "FINISH" /\ req'.method = req.method /\ req'.version = req.version
       /\ req'.headers = req.headers /\ req'.post = Fields(body)
       /\ ~IsVerified(req) => req'.path = req.path
       /\ IsVerified(req) /\ verified => req'.path = <<"/welcome.html">>
       /\ IsVerified(req) /\ ~verified => req'.path = <<"/error.html">>
  BY <1>1, <1>8, <1>11, ParsedBody
<1>13. IsVerified(req) <=> Html(r.path) \in {"/login.html", "/reigster.html"}
  BY <1>10 DEF IsVerified
<1>14. verified \in BOOLEAN
       /\ (verified => /\ Lookup(Fields(body), <<"username">>) # <<>>
                       /\ Lookup(Fields(body), <<"password">>) # <<>>)
  BY <1>8 DEF VerifyAnswers
<1>15. /\ "%41" \notin ToSet(FormText(r.form)) =>
            \A i \in DOMAIN r.form : \E k \in DOMAIN r.form :
              /\ Plain(r.form[k][1]) = Plain(r.form[i][1])
              /\ Lookup(req'.post, Plain(r.form[i][1])) = Plain(r.form[k][2])
       /\ \A w \in {"username", "password"} :
            Lookup(req'.post, <<w>>) # <<>> => HasField(r, <<w>>)
  <2>1. req'.post = Fields(FormText(r.form))
    BY <1>12
  <2> QED BY <2>1, FormMeans
<1>16. verified => HasField(r, <<"username">>) /\ HasField(r, <<"password">>)
  BY <1>12, <1>14, <1>15
<1>17. FormUnderstood(r)'
  <2>1. \A i \in DOMAIN r.form :
          "%41" \notin ToSet(FormText(r.form)) =>
            \E k \in DOMAIN r.form :
              /\ Plain(r.form[k][1]) = Plain(r.form[i][1])
              /\ Lookup(req'.post, Plain(r.form[i][1])) = Plain(r.form[k][2])
    BY <1>15
  <2>2. CASE Html(r.path) \in {"/login.html", "/reigster.html"}
    <3>1. /\ req'.path \in {<<"/welcome.html">>, <<"/error.html">>}
          /\ req'.path = <<"/welcome.html">> =>
               HasField(r, <<"username">>) /\ HasField(r, <<"password">>)
      <4>1. <<"/error.html">> # <<"/welcome.html">>
        OBVIOUS
      <4> QED BY <1>12, <1>13, <1>14, <1>16, <2>2, <4>1
    <3> QED BY <2>1, <2>2, <3>1 DEF FormUnderstood
  <2>3. CASE Html(r.path) \notin {"/login.html", "/reigster.html"}
    <3>1. req'.path = <<Html(r.path)>>
      BY <1>10, <1>12, <1>13, <2>3
    <3> QED BY <2>1, <2>3, <3>1 DEF FormUnderstood
  <2> QED BY <2>2, <2>3
<1>18. IsKeepAlive(req') <=> r.keepAlive /\ r.version = "1.1"
  BY <1>10, <1>12 DEF IsKeepAlive
<1>19. Understood(r)'
  BY <1>10, <1>12, <1>17, <1>18 DEF Understood
<1> QED BY <1>9, <1>19

-----------------------------------------------------------------------------
LEMMA WholeNext ==
  ASSUME HInv, WholeInv, [Next]_vars
  PROVE  WholeInv'
<1> SUFFICES ASSUME NEW r \in Request, readBuf' = Encode(r)
             PROVE  /\ pc' = "parse" => Reading(r)'
                    /\ pc' = "make" => Understood(r)'
                    /\ pc' # "overrun"
  BY DEF WholeInv
<1> DEFINE body == IF r.method = "POST" THEN FormText(r.form) ELSE <<>>
<1>1. r \in RequestType
  BY HttpAssumption
<1>2. /\ Encoded(r, Encode(r), body) /\ body \in Seq(FormToken)
      /\ body = <<>> <=> r.method # "POST" \/ r.form = <<>>
  BY <1>1, EncodeIs
<1>3. r.method # "POST" \/ body = FormText(r.form)
  OBVIOUS
<1> HIDE DEF body
<1>4. ASSUME UNCHANGED <<readBuf, pos, req>>, pc' = pc \/ pc' \notin {"parse", "make", "overrun"}
      PROVE  /\ pc' = "parse" => Reading(r)'
             /\ pc' = "make" => Understood(r)'
             /\ pc' # "overrun"
  <2>1. /\ pc = "parse" => Reading(r)
        /\ pc = "make" => Understood(r)
        /\ pc # "overrun"
    BY <1>4 DEF WholeInv
  <2>2. (Reading(r) <=> Reading(r)') /\ (Understood(r) <=> Understood(r)')
    BY <1>4 DEF Reading, HeadersRead, Understood, FormUnderstood
  <2> QED BY <1>4, <2>1, <2>2
<1>5. CASE Client
  BY <1>4, <1>5 DEF Client, Ask, Segment, Hear, Leave, Flood, Pause, parseVars
<1>6. CASE Event \/ ReadSome \/ ReadFlood \/ FloodFills \/ ReadEnds
  BY <1>6 DEF Event, ReadSome, ReadFlood, FloodFills, ReadEnds
<1>7. CASE ReadAgain
  BY <1>7 DEF ReadAgain, Reading
<1>8. CASE Parse
  <2>1. readBuf' = readBuf /\ pc = "parse"
    BY <1>8 DEF Parse, RequestLine, BadRequestLine, Header, Body, Overrun, Turn, afterTurn
  <2>2. Reading(r) /\ Encoded(r, readBuf, body)
    BY <1>2, <2>1 DEF WholeInv
  <2>3. CASE pos = 0 /\ req = EmptyRequest
    BY <1>1, <1>2, <1>8, <2>1, <2>2, <2>3, WholeRequestLine
  <2>4. CASE /\ pos \in {5, 10, 15} /\ pos <= HeadersEnd(r)
             /\ req.state = "HEADERS" /\ HeadersRead(r)
    <3>1. CASE pos = HeadersEnd(r)
      BY <1>1, <1>2, <1>8, <2>1, <2>2, <2>4, <3>1, WholeEmptyLine
    <3>2. CASE pos # HeadersEnd(r)
      <4>1. pos < HeadersEnd(r)
        BY <2>4, <3>2 DEF HeadersEnd
      <4> QED BY <1>1, <1>2, <1>8, <2>1, <2>2, <2>4, <4>1, WholeHeader
    <3> QED BY <3>1, <3>2
  <2>5. CASE /\ pos = HeadersEnd(r) + 2 /\ r.method = "POST" /\ r.form # <<>>
             /\ req.state = "BODY" /\ HeadersRead(r)
    BY <1>1, <1>2, <1>3, <1>8, <2>1, <2>2, <2>5, WholeBody
  <2> QED BY <2>2, <2>3, <2>4, <2>5 DEF Reading
<1>9. CASE MakeResponse
  <2>1. UNCHANGED <<readBuf, pos, req>>
    BY <1>9 DEF MakeResponse, parseVars
  <2>2. pc' \in {"write", "undefined", "crashed"}
    BY <1>9 DEF MakeResponse, OpenFails, MapFails, MapMistaken, Content, NoContent, SetWriteBuffer
  <2> QED BY <1>4, <2>1, <2>2
<1>10. CASE Write
  BY <1>4, <1>10 DEF Write, WriteSome, WriteDone, WriteAgain, WriteFails, afterWrite, parseVars
<1>11. CASE UNCHANGED vars
  BY <1>4, <1>11 DEF vars, parseVars
<1> QED BY <1>5, <1>6, <1>7, <1>8, <1>9, <1>10, <1>11 DEF Next, Serve

LEMMA WholeInit == Init => WholeInv
BY DEF Init, WholeInv

\* The buffers, the mapping and the answers, the end of the wire after each
\* write, and how far the parser has understood a whole request, for every
\* client, resource directory and send buffer (Connection.cpp:141-170,
\* HttpResponse.cpp:55, HttpRequest.cpp:24-61).
THEOREM HttpInvariance == Spec => []HttpInv
<1>1. Init => HInv /\ WireInv /\ WholeInv
  BY HInit, WireInit, WholeInit
<1>2. HInv /\ WireInv /\ WholeInv /\ [Next]_vars => HInv' /\ WireInv' /\ WholeInv'
  BY HNext, WireNext, WholeNext
<1> QED BY <1>1, <1>2, PTL DEF Spec, HttpInv

\* Whatever the client sends and reads and the kernel takes, the wire holds
\* whole responses and then a part of one, in order, until a response needs a
\* third write or is broken off (Connection.cpp:153-170).
THEOREM WireIsARow == Spec => []WireInOrder
<1>1. HttpInv => WireInOrder
  BY DEF HttpInv, WireInv, WireInOrder
<1> QED BY <1>1, HttpInvariance, PTL

\* Any request, with any form of any length, that is read as a whole and alone
\* is understood as it was meant; nobody is welcomed without a name and a
\* password (HttpRequest.cpp:26-61, 93-121, 155-175, 186-234).
THEOREM WholeIsUnderstood == Spec => []WholeRequest
<1>1. HttpInv => WholeRequest
  BY DEF HttpInv, HInv, TypeOK, WholeInv, WholeRequest
<1> QED BY <1>1, HttpInvariance, PTL

=============================================================================
