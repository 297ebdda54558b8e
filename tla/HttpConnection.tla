--------------------------- MODULE HttpConnection ---------------------------
(***************************************************************************)
(* One client and the Connection that serves it: the client's bytes arrive *)
(* in segments, Read() empties the socket, the user callback parses what   *)
(* was read, makes a response and writes it.  The bytes between client and *)
(* server are the state; channels, descriptors and threads are in Reactor. *)
(*                                                                         *)
(* Requests hold no zero byte.  Files do not change while a response is    *)
(* made, and no text file fills its last page.  Undefined behaviour ends   *)
(* the modelled run: pc is "overrun" when the parser searched behind its   *)
(* buffer, "undefined" after a look at a buffer that was freed, or behind  *)
(* the array that a read has filled.                                       *)
(***************************************************************************)
EXTENDS HttpRequest, FiniteSets

CONSTANTS Request,      \* what the client may ask for
          FileSystem,   \* what the resource directory may hold
          BufferSize,   \* BUFFER_SIZE, the most that one read(2) takes
          MaxAsks,      \* bound: requests and floods of the client
          MaxSegments,  \* bound: segments that the client sends
          MaxWrites,    \* bound: writes before the kernel takes no more of a response
          SendBuffer    \* what the kernel keeps for a client that does not read

Page == Path \cup {".", "/400.html", "/403.html", "/404.html"}

\* A text file, one with a zero byte, one that begins with four bytes 0xff, an
\* empty one, one that others may not read, none at all.  The path "." stands
\* for the empty path, which is the directory itself.
Kind == {"text", "binary", "ones", "empty", "private", "missing", "dir"}

NoPage == "none"

VARIABLES
  asks,        \* requests begun
  segments,    \* segments sent
  request,     \* the one the client is busy with
  tosend,      \* what of it is still to be sent
  awaiting,    \* whether its response is missing
  gone,        \* the client has closed its end
  floods,      \* the client sends faster than the loop reads
  inbox,       \* sent, not yet read
  wire,        \* written, not yet seen by the client
  files,       \* the resource directory
  pc,          \* where the loop's thread is with this connection
  conn,        \* _state of the Connection
  readBuf,     \* _readBuffer
  pos,         \* read_bytes of Parse
  req,         \* the HttpRequest
  writeBuf,    \* _writeBuffer
  left,        \* data_left of WriteNoBlocking
  writes,      \* writes made for this response
  garbled,     \* the bytes on the wire are no longer a row of responses
  page,        \* path of the file mapped, or NoPage
  maps,        \* mappings this process holds for the connection
  lost         \* ... of which that nobody knows of, with their open files

clientVars == <<asks, segments, request, tosend, awaiting, gone, floods>>
parseVars  == <<readBuf, pos, req>>
writeVars  == <<writeBuf, left, writes>>
pageVars  == <<page, maps, lost>>
vars == <<clientVars, inbox, wire, files, pc, conn, parseVars, writeVars, garbled, pageVars>>

-----------------------------------------------------------------------------
(* What the client sends.                                                  *)

\* Fields joined by '&', and in each a name and a value joined by '='; what would
\* be mistaken for a delimiter is escaped.
FieldText == Seq(Word \cup {"+", "%41"})
Field(nameValue) == nameValue[1] \o <<"=">> \o nameValue[2]
FormParts(form) ==
  [i \in DOMAIN form |-> IF i = Len(form) THEN Field(form[i]) ELSE Field(form[i]) \o <<"&">>]
FormText(form) == FlattenSeq(FormParts(form))

RequestType == [method : Method, path : Path, version : Version, keepAlive : BOOLEAN,
                form : Seq(FieldText \X FieldText)]

Encode(r) ==
  <<r.method, r.path, r.version, "CR", "LF">>
    \o (IF r.keepAlive THEN <<"Connection", ":", "keep-alive", "CR", "LF">> ELSE <<>>)
    \o (IF r.method = "POST" THEN <<"Content-Type", ":", "urlencoded", "CR", "LF">> ELSE <<>>)
    \o <<"CR", "LF">>
    \o (IF r.method = "POST" THEN FormText(r.form) ELSE <<>>)

\* A word is not a delimiter.
ASSUME HttpAssumption ==
  /\ FileSystem \subseteq {f \in [Page -> Kind] : \A p \in Page : f[p] = "dir" <=> p = "."}
  /\ Request \subseteq RequestType
  /\ Word \cap Delimiter = {}
  /\ BufferSize \in Nat \ {0}
  /\ MaxAsks \in Nat \ {0} /\ MaxSegments \in Nat
  /\ MaxWrites \in Nat /\ SendBuffer \in Nat

(* A response: five parts of one answer.                                   *)

Part == <<"status", "connection", "type", "length", "body">>
Answer == [code : {200, 400, 403, 404}, keepAlive : BOOLEAN, page : Page, whole : BOOLEAN]
Piece  == [part : {Part[i] : i \in 1 .. 5}, of : Answer]
Response(answer) == [i \in 1 .. 5 |-> [part |-> Part[i], of |-> answer]]

TypeOK ==
  /\ asks \in 1 .. MaxAsks /\ segments \in 0 .. MaxSegments /\ request \in Request
  /\ tosend \in Text /\ inbox \in Text /\ readBuf \in Text
  /\ awaiting \in BOOLEAN /\ gone \in BOOLEAN /\ floods \in BOOLEAN /\ garbled \in BOOLEAN
  /\ wire \in Seq(Piece) /\ writeBuf \in Seq(Piece)
  /\ files \in FileSystem
  /\ pc \in {"wait", "read", "parse", "make", "write", "closed", "crashed", "overrun", "undefined"}
  /\ conn \in {"Connected", "Closed"}
  /\ pos \in Nat /\ left \in Nat /\ writes \in 0 .. MaxWrites
  /\ maps \in Nat /\ lost \in Nat
  /\ page \in Page \cup {NoPage}
  /\ req.state \in State
  /\ req.path = <<>> \/ \E p \in Path : req.path = <<p>>
  /\ req = [state |-> req.state, method |-> req.method, path |-> req.path,
            version |-> req.version, headers |-> req.headers, post |-> req.post]

Init ==
  /\ asks = 1 /\ segments = 0 /\ gone = FALSE /\ floods = FALSE
  /\ request \in Request /\ tosend = Encode(request) /\ awaiting = TRUE
  /\ inbox = <<>> /\ wire = <<>>
  /\ files \in FileSystem
  /\ pc = "wait" /\ conn = "Connected"
  /\ readBuf = <<>> /\ pos = 0 /\ req = EmptyRequest
  /\ writeBuf = <<>> /\ left = 0 /\ writes = 0 /\ garbled = FALSE
  /\ page = NoPage /\ maps = 0 /\ lost = 0

-----------------------------------------------------------------------------
(* The client.                                                             *)

Ask(r) ==
  /\ ~gone /\ ~floods /\ ~awaiting /\ tosend = <<>> /\ asks < MaxAsks
  /\ asks' = asks + 1
  /\ request' = r /\ tosend' = Encode(r) /\ awaiting' = TRUE
  /\ UNCHANGED <<segments, gone, floods, inbox, wire, files, pc, conn, parseVars, writeVars, garbled, pageVars>>

\* The next n tokens reach the server.
Segment(n) ==
  /\ ~gone /\ n \in 1 .. Len(tosend)
  /\ segments < MaxSegments /\ segments' = segments + 1
  /\ inbox' = inbox \o SubSeq(tosend, 1, n)
  /\ tosend' = SubSeq(tosend, n + 1, Len(tosend))
  /\ UNCHANGED <<asks, request, awaiting, gone, floods, wire, files, pc, conn, parseVars, writeVars, garbled, pageVars>>

\* The client reads up to the end of a response.
Hear(n) ==
  /\ n \in 1 .. Len(wire) /\ wire[n].part = "body"
  /\ wire' = SubSeq(wire, n + 1, Len(wire))
  /\ awaiting' = FALSE
  /\ UNCHANGED <<asks, segments, request, tosend, gone, floods, inbox, files, pc, conn, parseVars, writeVars, garbled, pageVars>>

Leave ==
  /\ ~gone
  /\ gone' = TRUE /\ floods' = FALSE
  /\ UNCHANGED <<asks, segments, request, tosend, awaiting, inbox, wire, files, pc, conn, parseVars, writeVars, garbled, pageVars>>

\* Behind a request the client sends without a pause, for as long as it likes; it
\* counts as a request.  What it sends while it is answered, it may as well send
\* after that.
Flood ==
  /\ ~gone /\ ~floods /\ tosend = <<>> /\ pc \in {"wait", "read"}
  /\ asks < MaxAsks /\ asks' = asks + 1
  /\ floods' = TRUE
  /\ UNCHANGED <<segments, request, tosend, awaiting, gone, inbox, wire, files, pc, conn, parseVars, writeVars, garbled, pageVars>>

Pause ==
  /\ floods
  /\ floods' = FALSE
  /\ UNCHANGED <<asks, segments, request, tosend, awaiting, gone, inbox, wire, files, pc, conn, parseVars, writeVars, garbled, pageVars>>

-----------------------------------------------------------------------------
(* Connection::Read, called by the loop when the socket is reported.  The  *)
(* assertion ends the process when a write had failed before.              *)

Event ==
  /\ pc = "wait" /\ (inbox # <<>> \/ gone \/ floods)
  /\ IF conn = "Closed"
     THEN pc' = "crashed" /\ UNCHANGED readBuf
     ELSE pc' = "read" /\ readBuf' = <<>>
  /\ UNCHANGED <<clientVars, inbox, wire, files, conn, pos, req, writeVars, garbled, pageVars>>

\* read(2) returns what has arrived, or as much of it as buf holds.  A full buf
\* has no zero byte: sdscat finds one right behind it, or appends what is there.
ReadSome ==
  /\ pc = "read" /\ inbox # <<>>
  /\ \E n \in 1 .. Len(inbox) :
       /\ n = IF Len(inbox) < BufferSize THEN Len(inbox) ELSE BufferSize
       /\ readBuf' = readBuf \o SubSeq(inbox, 1, n)
       /\ inbox' = SubSeq(inbox, n + 1, Len(inbox))
       /\ pc' \in {"read"} \cup IF n = BufferSize THEN {"undefined"} ELSE {}
  /\ UNCHANGED <<clientVars, wire, files, conn, pos, req, writeVars, garbled, pageVars>>

\* While the client floods no read is the last.
ReadFlood ==
  /\ pc = "read" /\ inbox = <<>> /\ floods
  /\ readBuf' = IF readBuf # <<>> /\ readBuf[Len(readBuf)] = "..." THEN readBuf ELSE Append(readBuf, "...")
  /\ UNCHANGED <<clientVars, inbox, wire, files, pc, conn, pos, req, writeVars, garbled, pageVars>>

\* One of these may fill buf; that it ever does is not assumed.
FloodFills ==
  /\ pc = "read" /\ inbox = <<>> /\ floods
  /\ pc' = "undefined"
  /\ UNCHANGED <<clientVars, inbox, wire, files, conn, parseVars, writeVars, garbled, pageVars>>

\* End of file or an error: what was read is dropped, the callback calls
\* Close() and the Connection is deleted, its HttpResponse with the page is not.
ReadEnds ==
  /\ pc = "read" /\ inbox = <<>> /\ gone
  /\ conn' = "Closed"
  /\ pc' = "closed"
  /\ UNCHANGED <<clientVars, inbox, wire, files, parseVars, writeVars, garbled, pageVars>>

\* EAGAIN: on to the user callback, which does nothing for an empty buffer.
ReadAgain ==
  /\ pc = "read" /\ inbox = <<>> /\ ~gone /\ ~floods
  /\ IF readBuf = <<>>
     THEN pc' = "wait" /\ UNCHANGED <<pos, req>>
     ELSE pc' = "parse" /\ pos' = 0 /\ req' = EmptyRequest
  /\ UNCHANGED <<clientVars, inbox, wire, files, conn, readBuf, writeVars, garbled, pageVars>>

-----------------------------------------------------------------------------
(* HttpRequest::Parse: one action per turn of its loop.                    *)

Turn == pc = "parse" /\ pos <= Len(readBuf) /\ pos' = NextPos(readBuf, pos)

ThisLine == Line(readBuf, pos)

afterTurn == <<clientVars, inbox, wire, files, conn, readBuf, writeVars, garbled, pageVars>>

RequestLine ==
  /\ Turn /\ req.state = "REQUEST_LINE"
  /\ IsRequestLine(ThisLine)
  /\ req' = ParseRequestLine(req, ThisLine)
  /\ UNCHANGED <<pc, afterTurn>>

\* Parse returns FALSE, with the request as Init left it.
BadRequestLine ==
  /\ Turn /\ req.state = "REQUEST_LINE"
  /\ ~IsRequestLine(ThisLine)
  /\ pc' = "make"
  /\ UNCHANGED <<req, afterTurn>>

Header ==
  /\ Turn /\ req.state = "HEADERS"
  /\ req' = ParseHeaders(req, ThisLine, AtMostTwoBytesLeft(readBuf, pos))
  /\ pc' = IF req'.state = "FINISH" THEN "make" ELSE "parse"
  /\ UNCHANGED afterTurn

Body ==
  /\ Turn /\ req.state = "BODY"
  /\ \E verified \in VerifyAnswers(req, ThisLine) : req' = ParseBody(req, ThisLine, verified)
  /\ pc' = "make"
  /\ UNCHANGED afterTurn

\* The buffer ended before the request: the search starts behind its end.
Overrun ==
  /\ pc = "parse" /\ pos > Len(readBuf)
  /\ pc' = "overrun"
  /\ UNCHANGED <<pos, req, afterTurn>>

-----------------------------------------------------------------------------
(* HttpResponse: Init and MakeResponse, then SetWriteBuffer.               *)

\* MakeResponse up to _ErrorPage: the status code and the page it names.
Code(path, code) ==
  IF files[path] \in {"missing", "dir"} THEN 404
  ELSE IF files[path] = "private" THEN 403 ELSE code

\* CODE_PATH.
ErrorPage(code, path) ==
  CASE code = 400 -> "/400.html" [] code = 403 -> "/403.html"
    [] code = 404 -> "/404.html" [] OTHER -> path

\* UnmapFile in Init.
Unmapped == IF page # NoPage THEN maps - 1 ELSE maps

\* SetWriteBuffer looks at the old buffer, which the first append may have
\* freed: usually that does no harm.
SetWriteBuffer == pc' \in {"write", "undefined"}

\* The caller gets an empty string instead of the response.
NoContent ==
  /\ SetWriteBuffer
  /\ writeBuf' = <<>> /\ left' = 0
  /\ page' = NoPage

OpenFails == NoContent /\ maps' = Unmapped /\ UNCHANGED lost

\* The test for a failed mmap is made on the first int of the file; its
\* mapping and its descriptor are forgotten.
MapMistaken == NoContent /\ maps' = Unmapped + 1 /\ lost' = lost + 1

\* mmap of an empty file fails; its result is looked through all the same.
MapFails == pc' = "crashed" /\ UNCHANGED <<writeBuf, left, pageVars>>

\* The file is appended as a string, up to its first zero byte.
Content(code, keepAlive, file) ==
  /\ SetWriteBuffer
  /\ writeBuf' = writeBuf \o Response([code |-> code, keepAlive |-> keepAlive, page |-> file,
                                       whole |-> files[file] # "binary"])
  /\ left' = Len(writeBuf')
  /\ page' = file /\ maps' = Unmapped + 1 /\ UNCHANGED lost

\* Parse returns TRUE when it comes to its end.
Parsed    == req.state = "FINISH"
PathAsked == IF req.path = <<>> THEN "." ELSE req.path[1]
CodeMade  == Code(PathAsked, IF Parsed THEN 200 ELSE 400)
FileMade  == ErrorPage(CodeMade, PathAsked)

MakeResponse ==
  /\ pc = "make"
  /\ \/ files[FileMade] \in {"missing", "private"} /\ OpenFails
     \/ files[FileMade] = "empty" /\ MapFails
     \/ files[FileMade] = "ones" /\ MapMistaken
     \/ files[FileMade] \in {"text", "binary", "private"}
        /\ Content(CodeMade, Parsed /\ IsKeepAlive(req), FileMade)
  /\ UNCHANGED <<clientVars, inbox, wire, files, conn, parseVars, writes, garbled>>

-----------------------------------------------------------------------------
(* Connection::Write: its loop, then sdsclear.                             *)

afterWrite == <<clientVars, inbox, files, parseVars, pageVars>>

\* Mutant: every write takes its bytes from the start of the buffer.
TakenFromStart(n) == SubSeq(writeBuf, 1, n)

\* write(2) takes n of the data_left bytes from offset data_size - data_left.
Taken(n) == SubSeq(writeBuf, Len(writeBuf) - left + 1, Len(writeBuf) - left + n)

\* After a second write data_left no longer says what is left: it is counted
\* from data_size, not from what was left before.
WriteSome(n) ==
  /\ pc = "write" /\ left > 0
  /\ n \in 1 .. left /\ n <= SendBuffer - Len(wire)
  /\ wire' = wire \o Taken(n)
  /\ left' = Len(writeBuf) - n
  /\ writes < MaxWrites /\ writes' = writes + 1
  /\ garbled' = (garbled \/ writes >= 2)
  /\ UNCHANGED <<pc, conn, writeBuf, afterWrite>>

\* Mutant: the buffer is not cleared.
KeepWriteBuffer == UNCHANGED writeBuf /\ left' = 0 /\ writes' = 0

ClearWriteBuffer == writeBuf' = <<>> /\ left' = 0 /\ writes' = 0

\* How the loop ends: all written, EAGAIN, or another error.
Dropped == left > 0 /\ Len(wire) % 5 # 0

WriteDone ==
  /\ pc = "write" /\ left = 0
  /\ ClearWriteBuffer
  /\ pc' = "wait"
  /\ UNCHANGED <<wire, conn, garbled, afterWrite>>

\* Mutant: after EAGAIN the loop tries again.
WriteRetries ==
  /\ pc = "write" /\ left > 0
  /\ UNCHANGED vars

WriteAgain ==
  /\ pc = "write" /\ left > 0
  /\ ClearWriteBuffer
  /\ pc' = "wait"
  /\ garbled' = (garbled \/ Dropped)
  /\ UNCHANGED <<wire, conn, afterWrite>>

WriteFails ==
  /\ pc = "write" /\ left > 0 /\ gone
  /\ ClearWriteBuffer
  /\ conn' = "Closed"
  /\ pc' = "wait"
  /\ garbled' = (garbled \/ Dropped)
  /\ UNCHANGED <<wire, afterWrite>>

-----------------------------------------------------------------------------
Parse == RequestLine \/ BadRequestLine \/ Header \/ Body \/ Overrun
Write == (\E n \in 1 .. left : WriteSome(n)) \/ WriteDone \/ WriteAgain \/ WriteFails
Serve == Event \/ ReadSome \/ ReadFlood \/ ReadEnds \/ ReadAgain \/ Parse \/ MakeResponse \/ Write

Client == \/ \E r \in Request : Ask(r)
          \/ \E n \in 1 .. Len(tosend) : Segment(n)
          \/ \E n \in 1 .. Len(wire) : Hear(n)
          \/ Leave \/ Flood \/ Pause

Next == Client \/ Serve \/ FloodFills

Spec == Init /\ [][Next]_vars

\* The thread of the loop goes on; the client need not.
FairSpec == Spec /\ WF_vars(Serve)

-----------------------------------------------------------------------------
(* Properties.                                                             *)

\* Between two events the write buffer is empty, so that a response is made
\* in a buffer that holds nothing else, whatever became of the one before
\* (Connection.cpp:141); its loop stays inside the buffer.
BufferInv ==
  /\ pc = "write" => writeBuf = <<>> \/ \E a \in Answer : writeBuf = Response(a)
  /\ pc \in {"wait", "read", "parse", "make", "closed"} => writeBuf = <<>> /\ left = 0 /\ writes = 0
  /\ left <= Len(writeBuf)

\* The file of the last response is mapped and no other (HttpResponse.cpp:55),
\* but for those that begin with 0xffffffff (HttpResponse.cpp:131): a mapping
\* is lost to nothing else.  Only a connection that was not closed is served.
PageInv ==
  /\ maps = IF page = NoPage THEN lost ELSE lost + 1
  /\ lost > 0 => \E p \in Page : files[p] = "ones"
  /\ pc \in {"read", "parse", "make", "write"} => conn = "Connected"
  /\ pc = "parse" => pos <= Len(readBuf) + 2

\* What an answer says of its file: one that others may read, or the page
\* for the error; status 200 with the former only, and a file with a zero
\* byte never whole.
Readable(a) ==
  /\ files[a.page] \in {"text", "binary"} \/ a.page = ErrorPage(a.code, ".")
  /\ a.code = 200 => files[a.page] \in {"text", "binary"}
  /\ a.whole => files[a.page] # "binary"

\* Every part of an answer that is written or on its way is such
\* (HttpResponse.cpp:67-75, 141).
ServesReadable ==
  /\ \A i \in DOMAIN writeBuf : Readable(writeBuf[i].of)
  /\ \A i \in DOMAIN wire : Readable(wire[i].of)

HInv == TypeOK /\ BufferInv /\ PageInv /\ ServesReadable

\* The parts of each response in order.
Row(seq) ==
  \A i \in DOMAIN seq :
    /\ seq[i].part = Part[((i - 1) % 5) + 1]
    /\ (i - 1) % 5 # 0 => seq[i].of = seq[i - 1].of

\* While no response needed a third write or was broken off (see WriteSome),
\* what the client has not read yet is a row of responses (Connection.cpp:153).
WireInOrder == ~garbled => Row(wire)

\* The last response on the wire is whole between two events, and before the
\* first write of the next.
LastIsWhole == Len(wire) % 5 = 0

\* After one write the wire ends with the first 5 - left parts of the response,
\* after two data_left is never zero: the loop then ends by an error, EAGAIN
\* among them, or by a third write.
WriteInv ==
  /\ writes = 0 => LastIsWhole /\ left = Len(writeBuf)
  /\ writes > 0 => writeBuf # <<>>
  /\ writes = 1 /\ left = 0 => LastIsWhole
  /\ writes = 1 /\ left > 0 =>
       left < 5 /\ Len(wire) % 5 = 5 - left /\ wire[Len(wire)].of = writeBuf[1].of
  /\ writes > 1 => left > 0

\* The inductive invariant behind WireInOrder.
WireInv ==
  ~garbled => /\ Row(wire)
              /\ pc \in {"wait", "read", "parse", "make"} => LastIsWhole
              /\ pc = "write" => WriteInv

\* A request read as a whole, and alone, is understood as the client meant
\* it: method, version, page, connection and, but for escapes, the fields of
\* its form, one of them where two have a name in common; nobody is welcomed without a name and a password, and the
\* parser stays inside the buffer (HttpRequest.cpp:26-61, 186-230).
Plain(text) == [i \in DOMAIN text |-> IF text[i] = "+" THEN " " ELSE text[i]]

HasField(r, key) == \E i \in DOMAIN r.form : r.form[i][1] = key /\ r.form[i][2] # <<>>

FormUnderstood(r) ==
  /\ \A i \in DOMAIN r.form :
       "%41" \notin ToSet(FormText(r.form)) =>
         \E k \in DOMAIN r.form :
           /\ Plain(r.form[k][1]) = Plain(r.form[i][1])
           /\ Lookup(req.post, Plain(r.form[i][1])) = Plain(r.form[k][2])
  /\ IF Html(r.path) \in {"/login.html", "/reigster.html"}
     THEN /\ req.path \in {<<"/welcome.html">>, <<"/error.html">>}
          /\ req.path = <<"/welcome.html">> =>
               HasField(r, <<"username">>) /\ HasField(r, <<"password">>)
     ELSE req.path = <<Html(r.path)>>

Understood(r) ==
  /\ req.state = "FINISH"
  /\ req.method = <<r.method>> /\ req.version = <<r.version>>
  /\ IsKeepAlive(req) <=> r.keepAlive /\ r.version = "1.1"
  /\ IF r.method = "POST" /\ r.form # <<>> THEN FormUnderstood(r) ELSE req.path = <<Html(r.path)>>

WholeRequest ==
  readBuf = Encode(request) => /\ pc = "make" => Understood(request)
                               /\ pc # "overrun"

\* The inductive invariant behind WholeRequest: a parser whose buffer holds a
\* request stands at the start of one of its lines, and has understood those before.
HeadersEnd(r) == 5 + (IF r.keepAlive THEN 5 ELSE 0) + (IF r.method = "POST" THEN 5 ELSE 0)

HeadersRead(r) ==
  /\ req.method = <<r.method>> /\ req.path = <<Html(r.path)>> /\ req.version = <<r.version>>
  /\ Lookup(req.headers, <<"Connection">>)
       = IF r.keepAlive /\ pos > 5 THEN <<"keep-alive">> ELSE <<>>
  /\ Lookup(req.headers, <<"Content-Type">>)
       = IF r.method = "POST" /\ pos >= HeadersEnd(r) THEN <<"urlencoded">> ELSE <<>>

Reading(r) ==
  \/ pos = 0 /\ req = EmptyRequest
  \/ /\ pos \in {5, 10, 15} /\ pos <= HeadersEnd(r)
     /\ req.state = "HEADERS" /\ HeadersRead(r)
  \/ /\ pos = HeadersEnd(r) + 2 /\ r.method = "POST" /\ r.form # <<>>
     /\ req.state = "BODY" /\ HeadersRead(r)

WholeInv ==
  \A r \in Request : readBuf = Encode(r) =>
    /\ pc = "parse" => Reading(r)
    /\ pc = "make" => Understood(r)
    /\ pc # "overrun"

HttpInv == HInv /\ WireInv /\ WholeInv

\* Whatever was read, and whatever the kernel takes: the loop gets back to
\* its other connections (Connection.cpp:73-98, 149-170), unless a response
\* needed a second write, after which WriteNoBlocking may go on for as long as
\* the client reads, or the client never stops sending faster than
\* ReadNoBlocking reads, which goes on until EAGAIN.
Handled ==
  <>[]~floods =>
    (pc = "read" ~> \/ pc \in {"wait", "closed", "crashed", "overrun", "undefined"}
                    \/ writes >= 2)
=============================================================================
