----------------------------- MODULE Websocket -----------------------------
(***************************************************************************)
(* A websocket, from its handshake on (websocket.c).  The client sends    *)
(* frames whose payload arrives in pieces; one thread runs onion_websocket_call,  *)
(* which polls the socket, reads the header of the next frame, answers     *)
(* pings and closes itself, and calls the handler as long as it reads.     *)
(* onion_websocket_read goes on to the next frame when the handler asks    *)
(* for more than the current one has, and reads its header in turn: the    *)
(* calls are nested, as deep as the client sends pings.                    *)
(*                                                                         *)
(* A header arrives whole and is one unit, a byte of payload is another;   *)
(* masking changes neither number nor order of them.                       *)
(***************************************************************************)
EXTENDS Naturals, Sequences, SequencesExt

CONSTANTS
  Lengths,    \* of data frames
  PingLengths,
  ReadSizes,  \* what a handler asks onion_websocket_read for
  WholePings, \* the payload of a ping arrives with its header
  MaxFrames,  \* bound: frames the client sends
  MaxFails    \* bound: how often the socket is read in vain

ASSUME WebsocketAssumption ==
  /\ Lengths \cup PingLengths \cup ReadSizes \subseteq Nat
  /\ WholePings \in BOOLEAN
  /\ {MaxFrames, MaxFails} \subseteq Nat

VARIABLES
  sent,    \* the client's frames: [op, length]
  stream,  \* what has arrived and was not read: [frame, unit], the header is unit 0
  rest,    \* payload of the last frame that is still to arrive
  eof,     \* the client has closed the socket
  opcode,  \* ws->opcode
  left,    \* ws->data_left
  cb,      \* ws->callback # NULL
  pc,
  calls,   \* onion_websocket_read under way: for whom, for how much, what it has,
           \* what its last level has, and what is taken from the number it returns
  before,  \* local last_d_l of onion_websocket_call
  out,     \* the server's frames: [op, payload]
  taken,   \* history: what was read into the handler's buffers
  fails    \* history: how often a piece of payload was read in vain, data_left growing

client == <<sent, rest, eof>>
websocket == <<opcode, left, cb>>
vars == <<sent, stream, rest, eof, opcode, left, cb, pc, calls, before, out, taken, fails>>

Unit(f, i) == [frame |-> f, unit |-> i]
Payload(f) == [i \in 1..sent[f].length |-> Unit(f, i)]
Readable == stream # <<>> \/ eof

Init ==
  /\ sent = <<>> /\ stream = <<>> /\ rest = <<>> /\ eof = FALSE
  /\ opcode = "data" /\ left = 0 /\ cb = FALSE
  /\ pc = "new" /\ calls = <<>> /\ before = 0
  /\ out = <<>> /\ taken = <<>> /\ fails = 0
-----------------------------------------------------------------------------
(* The client *)

Frames ==
  [op : {"data", "pong"}, length : Lengths] \cup [op : {"ping"}, length : PingLengths]
    \cup [op : {"close"}, length : {2}]

ClientSends(frame) ==
  /\ pc # "new"
  /\ ~eof /\ rest = <<>> /\ Len(sent) < MaxFrames
  /\ \A f \in 1..Len(sent) : sent[f].op # "close"
  /\ sent' = Append(sent, frame)
  /\ LET f == Len(sent) + 1
         payload == [i \in 1..frame.length |-> Unit(f, i)]
     IN IF WholePings /\ frame.op = "ping"
          THEN stream' = Append(stream, Unit(f, 0)) \o payload /\ rest' = <<>>
          ELSE stream' = Append(stream, Unit(f, 0)) /\ rest' = payload
  /\ UNCHANGED <<eof, websocket, pc, calls, before, out, taken, fails>>

ClientSendsMore ==
  /\ ~eof /\ rest # <<>>
  /\ stream' = Append(stream, Head(rest))
  /\ rest' = Tail(rest)
  /\ UNCHANGED <<sent, eof, websocket, pc, calls, before, out, taken, fails>>

ClientCloses ==
  /\ ~eof
  /\ eof' = TRUE
  /\ rest' = <<>>
  /\ UNCHANGED <<sent, stream, websocket, pc, calls, before, out, taken, fails>>
-----------------------------------------------------------------------------
(* onion_websocket_new and _free *)

Requests == [upgrade : BOOLEAN, key : BOOLEAN, version : {"none", "8", "13"}]

\* onion_websocket_new.  The handler gets no websocket, and answers as it likes, or
\* the answer switches protocols and the handler sets its callback, or does not.
Handshake(request) ==
  /\ pc = "new"
  /\ LET accepted == request.upgrade /\ request.key /\ request.version = "13"
     IN IF accepted
          THEN pc' = "poll" /\ cb' \in BOOLEAN
          ELSE pc' = "freed" /\ UNCHANGED cb
  /\ UNCHANGED <<client, stream, opcode, left, calls, before, out, taken, fails>>

\* onion_websocket_free, when the request is: a callback that is still set is called
\* for the last time.
Free ==
  /\ pc = "closed"
  /\ pc' = "freed"
  /\ cb' = FALSE
  /\ UNCHANGED <<client, stream, opcode, left, calls, before, out, taken, fails>>
-----------------------------------------------------------------------------
(* onion_websocket_read_packet_header, for onion_websocket_call or for the read *)
(* under way                                                                    *)

Top == Last(calls)

\* The header is read: its caller goes on.
HeaderDone(length) ==
  /\ pc' = IF calls = <<>> THEN "callback" ELSE "payload"
  /\ before' = IF calls = <<>> THEN length ELSE before

\* A header that cannot be read ends onion_websocket_call.  In a read it is -2, which the level
\* above adds to what it has, and takes the callback away when less than 0 is left of that, and
\* when 0 is, if errno, which nobody has cleared, says so.
NoLevel == 3
HeaderFails ==
  IF calls = <<>> THEN pc' = "closed" /\ UNCHANGED <<calls, cb>>
  ELSE /\ pc' = "return"
       /\ calls' = [calls EXCEPT ![Len(calls)].status = 2]
       /\ cb' \in IF Top.last > 2 THEN {cb} ELSE IF Top.last = 2 THEN {cb, FALSE} ELSE {FALSE}

StartRead(for, n) ==
  /\ calls' = Append(calls,
       [for |-> for, want |-> n, payload |-> <<>>, last |-> NoLevel, status |-> 0])
  /\ pc' = "read"

NextHeader(op) ==
  /\ pc = "header"
  /\ stream # <<>>
  /\ Head(stream).unit = 0
  /\ sent[Head(stream).frame].op = op
  /\ stream' = Tail(stream)
  /\ left' = sent[Head(stream).frame].length
  /\ UNCHANGED <<client, cb, out, taken, fails>>

\* Whatever is neither a ping nor a close is for the handler, a pong as well.
HeaderOfData ==
  /\ \E op \in {"data", "pong"} : NextHeader(op) /\ opcode' = op
  /\ HeaderDone(left')
  /\ UNCHANGED calls

\* A bug: the payload of a ping is left to the handler.
HeaderOfPingUnread ==
  /\ NextHeader("ping")
  /\ opcode' = "pong"
  /\ HeaderDone(left')
  /\ UNCHANGED calls

\* "I do answer ping myself": with a read of its own for as much as it has.
HeaderOfPing ==
  /\ NextHeader("ping")
  /\ opcode' = "pong"
  /\ StartRead("ping", left')
  /\ UNCHANGED before

HeaderOfClose ==
  /\ NextHeader("close")
  /\ opcode' = "close"
  /\ pc' = "close"
  /\ UNCHANGED <<calls, before>>

\* The client has gone, or sends nothing before the timeout of the socket.
HeaderUnread ==
  /\ pc = "header"
  /\ stream = <<>>
  /\ HeaderFails
  /\ UNCHANGED <<client, stream, opcode, left, before, out, taken, fails>>

\* Two bytes of status are read, and sent back if both are there.  data_left is
\* not counted down.
CloseStatus ==
  /\ pc = "close"
  /\ LET n == Len(stream)
     IN IF n < 2
          THEN stream' = <<>> /\ UNCHANGED out
          ELSE /\ stream' = SubSeq(stream, 3, n)
               /\ out' = Append(out, [op |-> "close", payload |-> SubSeq(stream, 1, 2)])
  /\ HeaderFails
  /\ UNCHANGED <<client, opcode, left, before, taken, fails>>
-----------------------------------------------------------------------------
(* onion_websocket_read *)

ReadStart ==
  /\ pc = "read"
  /\ pc' = IF left = 0 THEN "header" ELSE "payload"
  /\ UNCHANGED <<client, stream, websocket, calls, before, out, taken, fails>>

Least(i, j) == IF i < j THEN i ELSE j

\* A bug: what is read is not limited to the current frame.
ReadPayloadPast ==
  /\ pc = "payload"
  /\ Top.want > 0 => Readable
  /\ LET r == Least(Top.want, Len(stream))
     IN /\ stream' = SubSeq(stream, r + 1, Len(stream))
        /\ left' = left - r
        /\ calls' = [calls EXCEPT ![Len(calls)] =
                       [Top EXCEPT !.want = 0, !.payload = @ \o SubSeq(stream, 1, r)]]
        /\ pc' = "return"
  /\ UNCHANGED <<client, opcode, cb, before, out, taken, fails>>

\* What is there of the current frame, as much as was asked for.  The read goes on
\* with the next frame only if it got all of this one; when nothing came, errno,
\* which nobody has cleared, decides on the callback.
ReadPayload ==
  /\ pc = "payload"
  /\ LET asked == Least(Top.want, left)
         r == Least(asked, Len(stream))
         more == Top.want > asked /\ r = asked
     IN /\ asked > 0 => Readable
        /\ stream' = SubSeq(stream, r + 1, Len(stream))
        /\ left' = left - r
        /\ calls' = [calls EXCEPT ![Len(calls)] =
                       [Top EXCEPT !.want = @ - asked, !.last = r,
                                   !.payload = @ \o SubSeq(stream, 1, r)]]
        /\ pc' = IF more THEN "read" ELSE "return"
        /\ cb' \in IF r = 0 /\ ~more THEN {cb, FALSE} ELSE {cb}
  /\ UNCHANGED <<client, opcode, before, out, taken, fails>>

\* Nothing came before the timeout, or the connection is broken: the -1 of that is taken from
\* data_left, which grows, and from what was read before.
PayloadFails ==
  /\ pc = "payload" /\ fails < MaxFails
  /\ stream = <<>> /\ Least(Top.want, left) > 0
  /\ left' = left + 1
  /\ calls' = [calls EXCEPT ![Len(calls)].status = 1]
  /\ cb' = FALSE
  /\ pc' = "return"
  /\ fails' = fails + 1
  /\ UNCHANGED <<client, stream, opcode, before, out, taken>>

\* What the read says that it has written, or 0 for less than that
Result(call) == IF Len(call.payload) > call.status THEN Len(call.payload) - call.status ELSE 0

ReturnToHandler ==
  /\ pc = "return"
  /\ Top.for = "handler"
  /\ taken' = taken \o Top.payload
  /\ calls' = Front(calls)
  /\ pc' = "callback"
  /\ UNCHANGED <<client, stream, websocket, before, out, fails>>

\* What onion_websocket_write sends of a length below 0
Garbage == <<Unit(0, 0)>>
\* The answer to a ping has the opcode of the last header that was read, and as much as the
\* read says.
ReturnToPing ==
  /\ pc = "return"
  /\ Top.for = "ping"
  /\ LET payload == SubSeq(Top.payload, 1, Result(Top))
     IN out' = Append(out,
          [op |-> opcode, payload |-> IF Len(Top.payload) < Top.status THEN Garbage ELSE payload])
  /\ calls' = Front(calls)
  /\ pc' = CASE opcode = "close" -> "close"
             [] opcode # "close" /\ Len(calls) = 1 -> "callback"
             [] OTHER -> "payload"
  /\ before' = IF opcode # "close" /\ Len(calls) = 1 THEN left ELSE before
  /\ UNCHANGED <<client, stream, websocket, taken, fails>>
-----------------------------------------------------------------------------
(* onion_websocket_call *)

Poll ==
  /\ pc = "poll"
  /\ Readable
  /\ pc' = CASE ~cb -> "closed"
             [] cb /\ left = 0 -> "header"
             [] OTHER -> "callback"
  /\ before' = left
  /\ UNCHANGED <<client, stream, websocket, calls, out, taken, fails>>

(* The handler *)

HandlerReads(n) ==
  /\ pc = "callback"
  /\ StartRead("handler", n)
  /\ UNCHANGED <<client, stream, websocket, before, out, taken, fails>>

\* onion_websocket_set_callback(ws, NULL)
HandlerStops ==
  /\ pc = "callback"
  /\ cb /\ cb' = FALSE
  /\ UNCHANGED <<client, stream, opcode, left, pc, calls, before, out, taken, fails>>

\* It is called again as long as it has read something and not all; what it
\* returned is then forgotten.
HandlerReturns(more) ==
  /\ pc = "callback"
  /\ pc' = CASE left # 0 /\ left # before /\ cb -> "callback"
             [] ~cb -> "closed"
             [] OTHER -> IF more THEN "poll" ELSE "closed"
  /\ before' = left
  /\ UNCHANGED <<client, stream, websocket, calls, out, taken, fails>>

\* Bytes of payload are read as if they were a header: what follows is not modelled.
Astray == pc = "header" /\ stream # <<>> /\ Head(stream).unit # 0
Closed == (pc = "freed" \/ Astray) /\ UNCHANGED vars
-----------------------------------------------------------------------------
Server ==
  \/ HeaderOfData \/ HeaderOfPing \/ HeaderOfClose \/ HeaderUnread \/ CloseStatus
  \/ ReadStart \/ ReadPayload \/ PayloadFails \/ ReturnToHandler \/ ReturnToPing
  \/ Poll
  \/ (\E n \in ReadSizes : HandlerReads(n)) \/ HandlerStops
  \/ \E more \in BOOLEAN : HandlerReturns(more)

Next ==
  \/ \E frame \in Frames : ClientSends(frame)
  \/ ClientSendsMore \/ ClientCloses
  \/ (\E request \in Requests : Handshake(request)) \/ Free
  \/ Server \/ Closed

Spec == Init /\ [][Next]_vars
-----------------------------------------------------------------------------
Ops == {"data", "ping", "pong", "close"}
Units == [frame : Nat \ {0}, unit : Nat]

TypeOK ==
  /\ sent \in Seq(Frames) /\ stream \in Seq(Units) /\ rest \in Seq(Units)
  /\ eof \in BOOLEAN /\ cb \in BOOLEAN /\ opcode \in Ops
  /\ left \in Nat /\ before \in Nat /\ fails \in Nat
  /\ pc \in {"poll", "header", "close", "read", "payload", "return", "callback", "closed",
             "new", "freed"}
  /\ calls \in Seq([for : {"handler", "ping"}, want : Nat, payload : Seq(Units), last : Nat,
                     status : 0..2])
  /\ out \in Seq([op : Ops, payload : Seq(Units) \cup {Garbage}])
  /\ taken \in Seq(Units)

\* The header of a close frame has been read: what follows is the end, and data_left
\* no longer counts it.
Closing == \E f \in 1..Len(sent) : sent[f].op = "close" /\ Unit(f, 0) \notin Range(stream)

\* Until a close frame has been read, what is left of the current frame is data_left
\* units, and then comes a header.
InStep ==
  pc \in {"poll", "callback", "header", "payload"} /\ ~Closing /\ ~eof =>
    \A f \in 1..Len(sent) :
      /\ Unit(f, 0) \notin Range(stream)
      /\ \A g \in f+1..Len(sent) : Unit(g, 0) \in Range(stream)
      => {u.unit : u \in {v \in Range(stream \o rest) : v.frame = f /\ v.unit > 0}}
           = sent[f].length - left + 1 .. sent[f].length

\* u was sent before v.
Before(u, v) == u.frame < v.frame \/ (u.frame = v.frame /\ u.unit < v.unit)

\* The bytes of the frames that are for the handler.
DataUnits ==
  {u \in UNION {Range(Payload(f)) : f \in 1..Len(sent)} : sent[u.frame].op \in {"data", "pong"}}

\* In front of each byte of s there are those that were sent before it.
InOrder(s) ==
  \A i \in 1..Len(s) :
    /\ s[i] \in DataUnits
    /\ \A u \in DataUnits : Before(u, s[i]) <=> \E j \in 1..i-1 : s[j] = u

\* As long as no piece of payload was read in vain: the stream is never read out of step, and
\* onion_websocket_read puts every byte of the frames that are neither pings nor closes into the
\* handler's buffers, once and in order, and nothing of the frames between them.
HandlerGetsData ==
  TypeOK /\ (fails = 0 => InStep /\ (Closing \/ InOrder(taken)))

\* onion_websocket_read: "returns number of bytes written or <0 if error".  A read that has
\* written something and then fails to go on says less than that.
ReadReturnsWritten ==
  pc = "return" /\ Top.for = "handler" => Result(Top) = Len(Top.payload)

\* A ping is answered by a pong with its payload, before anything that came after it
\* is looked at, and the server sends nothing else of its own but the close; as long as no piece
\* of payload was read in vain, and pings come with their payload, and have one.
Pings == {f \in 1..Len(sent) : sent[f].op = "ping"}
Pong(f) == [op |-> "pong", payload |-> Payload(f)]

PongsInOrder ==
  \A i \in 1..Len(out) : out[i].op # "close" =>
    \E f \in Pings :
      /\ out[i] = Pong(f)
      /\ \A g \in Pings : g < f <=> \E j \in 1..i-1 : out[j] = Pong(g)

PingsAnswered ==
  fails = 0 =>
    /\ PongsInOrder
    /\ pc \in {"poll", "callback"} =>
         \A f \in Pings : Unit(f, 0) \in Range(stream) \/ \E i \in 1..Len(out) : out[i] = Pong(f)
-----------------------------------------------------------------------------
(* Why these hold: an inductive invariant                                  *)

\* What is on its way, arrived or not: whole frames, one behind the other, but for the
\* last one when the client closes the socket in the middle of it.
Wire == stream \o rest

\* Where the frame of the i-th unit ends.
End(i) == i + (sent[Wire[i].frame].length - Wire[i].unit)

InFrame(i) ==
  /\ Wire[i].frame \in 1..Len(sent) /\ Wire[i].unit \in 0..sent[Wire[i].frame].length
  /\ \A j \in i..End(i) :
       j <= Len(Wire) => Wire[j] = Unit(Wire[i].frame, Wire[i].unit + (j - i))
  /\ Wire[i].frame < Len(sent) =>
       End(i) < Len(Wire) /\ Wire[End(i) + 1] = Unit(Wire[i].frame + 1, 0)
  /\ Wire[i].frame = Len(sent) =>
       IF eof /\ sent[Len(sent)].op # "ping" THEN End(i) >= Len(Wire) ELSE End(i) = Len(Wire)
  /\ \A f \in Wire[i].frame + 1..Len(sent) : \E j \in i+1..Len(stream) : stream[j] = Unit(f, 0)

InFrames ==
  /\ \A i \in 1..Len(Wire) : InFrame(i)
  /\ \A i, j \in 1..Len(Wire) : i < j => Before(Wire[i], Wire[j])

Arriving ==
  /\ rest # <<>> => ~eof /\ sent[Len(sent)].op # "ping"
  /\ \A i \in 1..Len(rest) : rest[i].frame = Len(sent) /\ rest[i].unit > 0
  /\ \A f \in 1..Len(sent) : sent[f].op = "close" => f = Len(sent)
  /\ pc = "new" => sent = <<>> /\ taken = <<>> /\ out = <<>>
  /\ pc = "close" => Closing

\* A handler's read and the answer to a ping on top of it are all there can be.
Pinged == calls # <<>> /\ Top.for = "ping"

Stacked ==
  /\ Len(calls) <= 2
  /\ Len(calls) = 2 => calls[1].for = "handler" /\ calls[2].for = "ping"
  /\ pc \in {"read", "payload", "return"} => calls # <<>>
  /\ pc \notin {"read", "payload", "return"} => ~Pinged
  /\ pc \in {"new", "poll", "callback", "closed", "freed"} => calls = <<>>

\* The next unit to read is p.
At(p) ==
  /\ p.frame \in 1..Len(sent)+1 /\ p.unit \in Nat
  /\ Wire # <<>> => Wire[1] = p
  /\ Wire = <<>> /\ p.frame <= Len(sent) =>
       eof /\ p.frame = Len(sent) /\ p.unit > 0 /\ sent[p.frame].op \in {"data", "pong"}
  /\ IF p.unit = 0 THEN left = 0
     ELSE p.frame <= Len(sent) /\ p.unit + left = sent[p.frame].length + 1 /\ left > 0
  /\ p.unit > 0 /\ ~Pinged => sent[p.frame].op \in {"data", "pong"}
  /\ pc = "header" => p.unit = 0

\* What handlers have got, or will when their read returns: all the data before p.
Got == taken \o IF calls # <<>> /\ calls[1].for = "handler" THEN calls[1].payload ELSE <<>>
GotAll(p) ==
  /\ InOrder(Got)
  /\ \A u \in DataUnits : Before(u, p) <=> \E i \in 1..Len(Got) : Got[i] = u

\* The ping that is being answered: its payload is next, or has been read.
Asking(p) ==
  Pinged =>
    /\ opcode = "pong" /\ Top.status = 0
    /\ pc \in {"read", "payload"} =>
         /\ p.unit = 1 /\ p.frame \in Pings
         /\ Top.want = left /\ Top.payload = <<>>
    /\ pc = "return" =>
         /\ p.unit = 0 /\ p.frame - 1 \in Pings
         /\ Top.payload = Payload(p.frame - 1)

AnsweredAll(p) ==
  \A f \in Pings :
    (\E i \in 1..Len(out) : out[i] = Pong(f)) <=>
      f < IF Pinged /\ pc = "return" THEN p.frame - 1 ELSE p.frame

Places ==
  (UNION {{Unit(f, i) : i \in 0..sent[f].length} : f \in 1..Len(sent)})
    \cup {Unit(Len(sent) + 1, 0)}
Open == \E p \in Places : At(p) /\ GotAll(p) /\ Asking(p) /\ AnsweredAll(p)

\* After a close frame nothing but its status can come.
Shut ==
  /\ \A i \in 1..Len(Wire) : Wire[i].unit > 0
  /\ \A f \in Pings : \E i \in 1..Len(out) : out[i] = Pong(f)
  /\ ~Pinged

\* What holds even when the stream is read out of step.
Sound ==
  /\ pc \in {"read", "payload", "return"} => calls # <<>>
  /\ \A i \in 1..Len(Wire) : Wire[i].frame \in 1..Len(sent)

WebsocketInv ==
  /\ TypeOK /\ Sound
  /\ fails = 0 =>
       /\ PongsInOrder
       /\ InFrames /\ Arriving /\ Stacked
       /\ IF Closing THEN Shut ELSE Open
=============================================================================
