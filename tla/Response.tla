------------------------------ MODULE Response ------------------------------
(***************************************************************************)
(* The life of one onion_response: what a handler writes is gathered in a  *)
(* buffer, the headers are written before it as late as possible so that   *)
(* they can still tell its length, and onion_response_free decides whether *)
(* the connection can serve another request.                               *)
(*                                                                         *)
(* Bytes are counted in units; a unit of the headers or of the content is  *)
(* a record, so that what was dropped, repeated or moved can be seen.  The *)
(* socket takes a number of units and breaks then: a write that the kernel *)
(* splits is the same as one that it takes whole.                          *)
(***************************************************************************)
EXTENDS Integers, Sequences

CONSTANTS
  BufferSize,  \* ONION_RESPONSE_BUFFER_SIZE, in units
  HeaderSizes, \* how long the headers may be
  WriteSizes,  \* what a handler passes to one onion_response_write
  Lengths,     \* what a handler passes to onion_response_set_length
  Rooms,       \* how many units the socket takes before it breaks
  MaxBody,     \* bound: units a handler writes
  Word,        \* sent_bytes and length are unsigned: counted modulo Word
  Heads,       \* may the request be HEAD?  a subset of BOOLEAN
  HTTP10,      \* HTTP/1.0 clients that ask to keep the connection alive, too
  Tidy,        \* headers are written explicitly only before any content, and no
               \* length is given again once they are
  YieldsLate,  \* a handler gives the response to another thread (OCS_YIELD) only
               \* when the headers are written
  None

ASSUME ResponseAssumption ==
  /\ BufferSize \in Nat \ {0} /\ MaxBody \in Nat
  /\ HeaderSizes \subseteq Nat \ {0} /\ WriteSizes \subseteq Nat \ {0}
  /\ Lengths \subseteq Nat /\ Rooms \subseteq Nat
  /\ Word \in Nat /\ \A h \in HeaderSizes : h + MaxBody + BufferSize < Word
  /\ Heads \subseteq BOOLEAN /\ None \notin Nat \cup {"keep", "close"}

VARIABLES
  request, \* [head, http11, keep, header]: what it asks for, and the headers' length
  res,     \* the onion_response, and what went to the socket
  body,    \* units of content taken from the handler
  claimed, \* history: the length the handler has set itself
  yielded, \* another thread goes on with the response
  pending, \* the onion_response_write in progress: units not yet in the buffer
  pc,      \* "handler", "writing", "flushing", "returned", "freed"
  status   \* what onion_response_free returns

vars == <<request, res, body, claimed, yielded, pending, pc, status>>

Units(kind, from, n) == [i \in 1..n |-> [kind |-> kind, v |-> from + i]]
Mark(kind, n) == <<[kind |-> kind, v |-> n]>>
-----------------------------------------------------------------------------
(* response.c, as operators on the response *)

\* listen_point->write: a broken socket takes what it has room for.
Send(r, units) ==
  IF r.room >= Len(units)
    THEN [r EXCEPT !.wire = @ \o units, !.room = @ - Len(units)]
    ELSE [r EXCEPT !.wire = @ \o SubSeq(units, 1, r.room), !.room = 0, !.failed = TRUE]

\* onion_response_set_length.
SetLength(r, n) ==
  IF r.header /\ n # r.sent
    THEN r
    ELSE [r EXCEPT !.length = n % Word, !.set = TRUE]

\* onion_response_flush once the headers are written.  The buffer stays as it is
\* for HEAD, to which nothing is sent, and when the size of a chunk is refused.
FlushSent(r) ==
  LET counted == [r EXCEPT !.sent = (@ + Len(r.buffer)) % Word]
      out == IF r.chunked
               THEN Mark("size", Len(r.buffer)) \o r.buffer \o Mark("crlf", 0)
               ELSE r.buffer
  IN IF r.buffer = <<>> \/ r.skip
       THEN counted
       ELSE [Send(counted, out) EXCEPT !.buffer = IF r.chunked /\ r.room = 0 THEN @ ELSE <<>>]

\* onion_response_write once the headers are written, not for HEAD: the buffer
\* is flushed whenever something more is to go into it.
Blocks(all) == IF all = <<>> THEN 0 ELSE (Len(all) - 1) \div BufferSize
Flushed(r, all) ==
  LET after[i \in 0..Blocks(all)] ==
        IF i = 0 THEN r
        ELSE FlushSent([after[i - 1] EXCEPT
               !.buffer = SubSeq(all, (i - 1) * BufferSize + 1, i * BufferSize)])
  IN after
Put(r, units) ==
  LET all == r.buffer \o units
      flushed == Flushed(r, all)[Blocks(all)]
      rest == SubSeq(all, Blocks(all) * BufferSize + 1, Len(all))
  IN [flushed EXCEPT !.buffer = IF flushed.failed THEN @ ELSE rest]

\* The headers as lines: how the client will find the end of the content.
Announce(r) ==
  LET chunked == request.http11 /\ ~r.set /\ request.keep
  IN [length  |-> IF r.set THEN r.length ELSE None,
      chunked |-> chunked,
      close   |-> ~r.set /\ ~chunked]

\* onion_response_write_headers.  They may still be in the buffer when it
\* returns: sent_bytes starts as many units below zero.
WriteHeaders(r) ==
  LET lines == Put([r EXCEPT !.header = TRUE, !.announced = Announce(r)],
                   Units("header", 0, request.header))
      written == [lines EXCEPT !.sent = (Word - Len(lines.buffer)) % Word]
      chunked == Announce(r).chunked
  IN IF request.head
       THEN [FlushSent(written) EXCEPT !.skip = TRUE]
       ELSE IF chunked THEN [FlushSent(written) EXCEPT !.chunked = TRUE] ELSE written

\* A bug: what was in the buffer is forgotten.
FlushHackLost(r) ==
  IF r.header
    THEN FlushSent(r)
    ELSE IF r.buffer = <<>>
           THEN r
           ELSE WriteHeaders([r EXCEPT !.buffer = <<>>])

\* onion_response_flush: content that waits for the headers is put aside,
\* "fast header hack", and written again behind them.
Flush(r) ==
  LET headed == WriteHeaders([r EXCEPT !.buffer = <<>>])
  IN CASE r.header -> FlushSent(r)
       [] ~r.header /\ r.buffer = <<>> -> r
       [] ~r.header /\ r.buffer # <<>> ->
            IF headed.skip THEN headed ELSE Put(headed, r.buffer)

\* The length, as long as all of the content is still in the buffer.
CompleteLength(r) ==
  IF ~r.header /\ Len(r.buffer) < BufferSize THEN SetLength(r, Len(r.buffer)) ELSE r
-----------------------------------------------------------------------------
Requests ==
  {q \in [head : Heads, http11 : BOOLEAN, keep : BOOLEAN, header : HeaderSizes] :
     q.http11 \/ HTTP10 \/ ~q.keep}

NoHeaders == [length |-> None, chunked |-> FALSE, close |-> FALSE]

\* onion_response_new
New(room) ==
  [buffer |-> <<>>, sent |-> 0, length |-> 0, set |-> FALSE, header |-> FALSE,
   skip |-> FALSE, chunked |-> FALSE, announced |-> NoHeaders,
   wire |-> <<>>, room |-> room, failed |-> FALSE]

Init ==
  /\ request \in Requests
  /\ res \in {New(room) : room \in Rooms}
  /\ body = 0
  /\ claimed = None
  /\ yielded = FALSE
  /\ pending = 0
  /\ pc = "handler"
  /\ status = None

(* What a handler does *)

HandlerSetsLength(n) ==
  /\ pc = "handler"
  /\ Tidy /\ res.header => n # res.sent
  /\ res' = SetLength(res, n)
  /\ claimed' = IF res.header THEN claimed ELSE n
  /\ UNCHANGED <<request, body, yielded, pending, pc, status>>

HandlerWritesHeaders ==
  /\ pc = "handler"
  /\ ~res.header
  /\ Tidy => res.buffer = <<>>
  /\ res' = WriteHeaders(res)
  /\ UNCHANGED <<request, body, claimed, yielded, pending, pc, status>>

HandlerFlushes ==
  /\ pc = "handler"
  /\ res' = Flush(res)
  /\ UNCHANGED <<request, body, claimed, yielded, pending, pc, status>>

\* onion_response_write; to HEAD it answers at once.
HandlerWrites(n) ==
  /\ pc = "handler"
  /\ ~res.skip
  /\ body + n <= MaxBody
  /\ pending' = n
  /\ pc' = "writing"
  /\ UNCHANGED <<request, res, body, claimed, yielded, status>>

\* One turn of its loop: the buffer is filled ...
FillBuffer ==
  /\ pc = "writing"
  /\ Len(res.buffer) + pending > BufferSize
  /\ LET taken == BufferSize - Len(res.buffer)
     IN /\ res' = [res EXCEPT !.buffer = @ \o Units("body", body, taken)]
        /\ body' = body + taken
        /\ pending' = pending - taken
  /\ pc' = "flushing"
  /\ UNCHANGED <<request, claimed, yielded, status>>

\* A bug: what the flush returns is not looked at.
FlushFullDeaf ==
  /\ pc = "flushing"
  /\ res' = Flush(res)
  /\ pc' = "writing"
  /\ UNCHANGED <<request, body, claimed, yielded, pending, status>>

\* ... and flushed.  A flush that fails ends the write; it says so only when the
\* headers were written before.
FlushFull ==
  /\ pc = "flushing"
  /\ LET flushed == Flush(res)
         stop == res.header /\ flushed.failed
     IN /\ res' = flushed
        /\ pending' = IF stop THEN 0 ELSE pending
        /\ pc' = IF stop THEN "handler" ELSE "writing"
  /\ UNCHANGED <<request, body, claimed, yielded, status>>

\* The rest fits.
WriteRest ==
  /\ pc = "writing"
  /\ Len(res.buffer) + pending <= BufferSize
  /\ res' = [res EXCEPT !.buffer = @ \o Units("body", body, pending)]
  /\ body' = body + pending
  /\ pending' = 0
  /\ pc' = "handler"
  /\ UNCHANGED <<request, claimed, yielded, status>>

\* onion_handler_handle, when a handler has answered.
HandlerReturns ==
  /\ pc = "handler"
  /\ ~yielded
  /\ res' = Flush(CompleteLength(res))
  /\ pc' = "returned"
  /\ UNCHANGED <<request, body, claimed, yielded, pending, status>>

\* The same for a handler that returns OCS_YIELD: another thread goes on.
HandlerYields ==
  /\ pc = "handler"
  /\ ~yielded
  /\ YieldsLate => res.header
  /\ res' = Flush(CompleteLength(res))
  /\ yielded' = TRUE
  /\ UNCHANGED <<request, body, claimed, pending, pc, status>>

KeptAlive(r) == request.keep /\ (r.skip \/ r.length = r.sent \/ r.chunked)

\* A bug: the end of the chunks is not written.
FreeUnended ==
  /\ pc = "returned"
  /\ LET r == CompleteLength(res)
         flushed == FlushSent(IF r.header THEN r ELSE WriteHeaders(r))
     IN /\ res' = flushed
        /\ status' = IF KeptAlive(flushed) THEN "keep" ELSE "close"
  /\ pc' = "freed"
  /\ UNCHANGED <<request, body, claimed, yielded, pending>>

\* A bug: the length that was announced is not compared.
FreeKeeps ==
  /\ pc = "returned"
  /\ LET r == CompleteLength(res)
         flushed == FlushSent(IF r.header THEN r ELSE WriteHeaders(r))
     IN res' = IF flushed.chunked THEN Send(flushed, Mark("last", 0)) ELSE flushed
  /\ status' = IF request.keep THEN "keep" ELSE "close"
  /\ pc' = "freed"
  /\ UNCHANGED <<request, body, claimed, yielded, pending>>

\* onion_response_free.  After a write that failed sent_bytes is not followed
\* here, and either answer may be given for a connection that is dead.
Free ==
  /\ pc = "returned" \/ (pc = "handler" /\ yielded)
  /\ LET r == CompleteLength(res)
         flushed == FlushSent(IF r.header THEN r ELSE WriteHeaders(r))
     IN /\ res' = IF flushed.chunked THEN Send(flushed, Mark("last", 0)) ELSE flushed
        /\ \/ status' = IF KeptAlive(flushed) THEN "keep" ELSE "close"
           \/ res'.failed /\ request.keep /\ status' \in {"keep", "close"}
  /\ pc' = "freed"
  /\ UNCHANGED <<request, body, claimed, yielded, pending>>

Freed == pc = "freed" /\ UNCHANGED vars
-----------------------------------------------------------------------------
Write == FillBuffer \/ FlushFull \/ WriteRest

Next ==
  \/ \E n \in Lengths : HandlerSetsLength(n)
  \/ HandlerWritesHeaders \/ HandlerFlushes
  \/ \E n \in WriteSizes : HandlerWrites(n)
  \/ Write
  \/ HandlerReturns \/ HandlerYields
  \/ Free \/ Freed

Spec == Init /\ [][Next]_vars

\* The thread that runs onion_response_write is scheduled.  Every step of Write
\* moves pc, so its fairness can be stated by pc alone.
WriteMoves == pc \in {"writing", "flushing"} /\ pc' \in {"writing", "flushing", "handler"}

FairSpec == Spec /\ WF_pc(WriteMoves)
-----------------------------------------------------------------------------
(* What the client makes of it *)

Whole(n) == Units("body", 0, n)

HeadersFirst ==
  \A i \in 1..Len(res.wire) :
    (res.wire[i].kind = "header") <=> (i <= request.header)

AfterHeaders == SubSeq(res.wire, request.header + 1, Len(res.wire))

\* A reader of chunks: what it waits for, how many units of the chunk are left,
\* and what it has read.
ChunkReader == [waits |-> "size", left |-> 0, got |-> <<>>]

ReadChunked(reader, u) ==
  CASE reader.waits = "size" /\ u.kind = "size" /\ u.v > 0 ->
         [reader EXCEPT !.waits = "data", !.left = u.v]
    [] reader.waits = "data" /\ u.kind = "body" ->
         [reader EXCEPT !.waits = IF reader.left = 1 THEN "crlf" ELSE "data",
                        !.left = @ - 1, !.got = Append(@, u)]
    [] reader.waits = "crlf" /\ u.kind = "crlf" -> [reader EXCEPT !.waits = "size"]
    [] reader.waits = "size" /\ u.kind = "last" -> [reader EXCEPT !.waits = "nothing"]
    [] OTHER -> [reader EXCEPT !.waits = "error"]

Readers(units) ==
  LET after[i \in 0..Len(units)] ==
        IF i = 0 THEN ChunkReader ELSE ReadChunked(after[i - 1], units[i])
  IN after
Chunks == Readers(AfterHeaders)[Len(AfterHeaders)]

\* The client finds the end of the answer, and it is the end of what was sent.
Delimited ==
  /\ HeadersFirst
  /\ Len(res.wire) >= request.header
  /\ CASE request.head -> AfterHeaders = <<>>
       [] ~request.head /\ res.announced.chunked ->
            Chunks.waits = "nothing"
       [] ~request.head /\ res.announced.length # None ->
            Len(AfterHeaders) = res.announced.length
       [] OTHER -> FALSE

Content == IF res.announced.chunked THEN Chunks.got ELSE AfterHeaders
-----------------------------------------------------------------------------
AUnit == [kind : {"header", "body", "size", "crlf", "last"}, v : Nat]
Responses(units) ==
  [buffer : Seq(units), wire : Seq(units),
   sent : 0..Word-1, length : 0..Word-1, room : Nat,
   set : BOOLEAN, header : BOOLEAN, skip : BOOLEAN, chunked : BOOLEAN, failed : BOOLEAN,
   announced : [length : Nat \cup {None}, chunked : BOOLEAN, close : BOOLEAN]]

TypeOK ==
  /\ request \in Requests
  /\ res \in Responses(AUnit) /\ Len(res.buffer) <= BufferSize
  /\ yielded \in BOOLEAN
  /\ body \in 0..MaxBody /\ pending \in 0..MaxBody
  /\ claimed \in Nat \cup {None}
  /\ pc \in {"handler", "writing", "flushing", "returned", "freed"}
  /\ status \in {"keep", "close", None}

\* A connection is kept alive only if the client knows where the answer ended;
\* whatever is left over would be read as the next answer.
KeepAliveDelimited ==
  status = "keep" /\ ~res.failed => Delimited

\* A handler that sets no length, or the right one, is heard in full: the client
\* takes exactly what was written for the content, and nothing for HEAD.
AnswerComplete ==
  pc = "freed" /\ ~res.failed /\ claimed \in {None, body} =>
    IF request.head
      THEN AfterHeaders = <<>>
      ELSE /\ Content = Whole(body)
           /\ res.announced.close \/ Delimited

\* sent_bytes, with what is still in the buffer, counts the content and no unit
\* of the headers, wherever the buffer was flushed in between.
SentBytesExact ==
  ~res.failed /\ ~res.skip /\ res.header =>
    (res.sent + Len(res.buffer)) % Word = body % Word

\* The units of content among these, and that they are the n that a handler has
\* written after the first m, in order.
Contents(units) == {i \in 1..Len(units) : units[i].kind = "body"}
Written(units, m, n) ==
  /\ {units[i].v : i \in Contents(units)} = m + 1..m + n
  /\ \A i, j \in Contents(units) : i < j => units[i].v < units[j].v

\* At every moment the content on the wire and in the buffer is what the handler
\* has written, in order, behind the headers, and sent_bytes is its count; a HEAD
\* request never gets content, not even from a write that was under way when the
\* headers went out (response.c:278-462).
ContentInOrder ==
  /\ TypeOK
  /\ ~res.failed /\ ~res.skip => Written(res.wire \o res.buffer, 0, body)
  /\ request.head => Contents(res.wire) = {}
  /\ SentBytesExact

\* onion_response_write returns, on a socket that breaks too.
WriteReturns == pc = "writing" /\ ~request.head ~> pc = "handler"

\* To HEAD it returns too: "if they try this object will just skip those
\* writtings" (response.c:269).
HeadWriteReturns == pc = "writing" /\ request.head ~> pc = "handler"
-----------------------------------------------------------------------------
(* Why these hold: what a response is like when n units of content are written *)

HeaderUnits == Units("header", 0, request.header)

\* Before the headers everything waits in the buffer.
Unheaded(r, n) ==
  /\ r.wire = <<>> /\ r.sent = 0
  /\ ~r.failed /\ ~r.skip /\ ~r.chunked
  /\ r.buffer = Whole(n)

\* These units are whole chunks, and the first m units of content are in them.
InChunks(units, m) ==
  /\ Readers(units)[Len(units)] = [waits |-> "size", left |-> 0, got |-> Whole(m)]
  /\ \A i \in 1..Len(units) : units[i].kind # "header"
  /\ Written(units, 0, m)

\* Behind them, and as long as the socket works, nothing is lost or repeated.
Intact(r, n) ==
  /\ r.sent + Len(r.buffer) \in {n, n + Word}
  /\ IF r.chunked
       THEN LET m == n - Len(r.buffer)
                after == SubSeq(r.wire, request.header + 1, Len(r.wire))
            IN /\ m \in Nat /\ r.buffer = Units("body", m, Len(r.buffer))
               /\ r.wire = HeaderUnits \o after /\ InChunks(after, m)
       ELSE r.wire \o r.buffer = HeaderUnits \o Whole(n)

Headed(r, n) ==
  /\ r.announced = Announce(r)
  /\ r.skip = request.head
  /\ r.chunked = (~request.head /\ r.announced.chunked)
  /\ request.head => r.wire \in Seq([kind : {"header"}, v : Nat])
  /\ ~r.failed => IF request.head THEN r.wire = HeaderUnits ELSE Intact(r, n)

Shape(r, n) ==
  /\ r \in Responses(AUnit) /\ Len(r.buffer) <= BufferSize
  /\ IF r.header THEN Headed(r, n) ELSE Unheaded(r, n)

\* The length that is announced was set by the handler, or counted at the end.
LengthKnown(r) ==
  r.set => \/ claimed # None /\ r.length = claimed % Word
           \/ pc = "returned" /\ r.length = body

UnderWay ==
  /\ Shape(res, body) /\ LengthKnown(res)
  /\ pc \in {"writing", "flushing"} => body + pending <= MaxBody
  /\ yielded => res.header
  /\ pc = "returned" /\ ~res.header => res.buffer = <<>>
  /\ status = None

ResponseInv ==
  /\ TypeOK
  /\ IF pc = "freed"
       THEN (~HTTP10 => KeepAliveDelimited) /\ AnswerComplete /\ ContentInOrder
       ELSE UnderWay
=============================================================================
