-------------------------- MODULE WebsocketProofs --------------------------
(***************************************************************************)
(* The websocket of websocket.c for any number of frames and any lengths   *)
(* of them and of reads: WebsocketInv is inductive.                        *)
(*                                                                         *)
(* First what is on its way, which only the client and the reads change:   *)
(* whole frames (InFrames, Arriving).  Then the place p the server has     *)
(* read to, one lemma per action: reading a header or a piece of payload   *)
(* moves p, everything else leaves it, and what handlers have got and      *)
(* pings were answered is what lies before p.  At the end the header of a  *)
(* close frame, after which nothing is read in step any more.              *)
(***************************************************************************)
EXTENDS Websocket, TLAPS

\* What the theorems suppose of the client: a ping arrives with its payload, and has one.
\* Otherwise the answer is a read that stops short, or goes on with the next frame.
Answerable == WholePings /\ 0 \notin PingLengths

\* The types, for what the proofs do with sequences.
LEMMA Lists ==
  ASSUME TypeOK
  PROVE  /\ Len(sent) \in Nat /\ Len(stream) \in Nat /\ Len(rest) \in Nat /\ Len(out) \in Nat
         /\ Len(calls) \in Nat /\ Len(taken) \in Nat /\ left \in Nat
         /\ \A i \in 1..Len(stream) : stream[i] \in Units
         /\ \A i \in 1..Len(rest) : rest[i] \in Units
BY DEF TypeOK

\* The frames that were sent.
LEMMA FrameOf ==
  ASSUME TypeOK, NEW f \in 1..Len(sent)
  PROVE  /\ sent[f].length \in Nat /\ sent[f].op \in Ops
         /\ sent[f].op = "ping" => sent[f].length \in PingLengths
         /\ Payload(f) \in Seq(Units) /\ Len(Payload(f)) = sent[f].length
         /\ \A i \in 1..sent[f].length : Payload(f)[i] = Unit(f, i)
<1>1. /\ sent[f].length \in Nat /\ sent[f].op \in Ops
      /\ sent[f].op = "ping" => sent[f].length \in PingLengths
  BY WebsocketAssumption DEF TypeOK, Frames, Ops
<1>2. \A i \in 1..sent[f].length : Unit(f, i) \in Units
  BY <1>1, Lists DEF Unit, Units
<1> QED
  BY <1>1, <1>2 DEF Payload

\* A unit is a frame and a number.
LEMMA UnitOf ==
  /\ \A f, i : Unit(f, i).frame = f /\ Unit(f, i).unit = i
  /\ \A u \in Units : u.frame \in Nat \ {0} /\ u.unit \in Nat /\ u = Unit(u.frame, u.unit)
BY DEF Unit, Units

\* One list and then another.
LEMMA Joined ==
  ASSUME NEW S, NEW s \in Seq(S), NEW t \in Seq(S)
  PROVE  /\ s \o t \in Seq(S) /\ Len(s \o t) = Len(s) + Len(t)
         /\ Len(s) \in Nat /\ Len(t) \in Nat /\ Len(s \o t) \in Nat
         /\ \A i \in 1..Len(s \o t) : (s \o t)[i] \in S
         /\ \A i \in 1..Len(s) : (s \o t)[i] = s[i]
         /\ \A i \in 1..Len(t) : (s \o t)[Len(s) + i] = t[i]
         /\ \A i \in 1..Len(s \o t) : i > Len(s) =>
              i - Len(s) \in 1..Len(t) /\ (s \o t)[i] = t[i - Len(s)]
         /\ s \o t = <<>> <=> Len(s \o t) = 0
OBVIOUS

\* Wire is stream, then rest.
WireIs ==
  /\ Wire \in Seq(Units) /\ Len(Wire) = Len(stream) + Len(rest) /\ Len(Wire) \in Nat
  /\ Len(stream) \in Nat /\ Len(rest) \in Nat
  /\ \A i \in 1..Len(Wire) : Wire[i] \in Units
  /\ \A i \in 1..Len(stream) : Wire[i] = stream[i]
  /\ \A i \in 1..Len(rest) : Wire[Len(stream) + i] = rest[i]
  /\ \A i \in 1..Len(Wire) : i > Len(stream) =>
       i - Len(stream) \in 1..Len(rest) /\ Wire[i] = rest[i - Len(stream)]
  /\ Wire = <<>> <=> Len(Wire) = 0

\* Of this state, and of the next.
LEMMA WireAt == (TypeOK => WireIs) /\ (TypeOK' => WireIs')
<1>1. TypeOK => stream \in Seq(Units) /\ rest \in Seq(Units)
  BY DEF TypeOK
<1>2. TypeOK' => stream' \in Seq(Units) /\ rest' \in Seq(Units)
  BY DEF TypeOK
<1>3. (stream \in Seq(Units) /\ rest \in Seq(Units)) => WireIs
  BY ONLY Joined DEF WireIs, Wire
<1>4. (stream' \in Seq(Units) /\ rest' \in Seq(Units)) => WireIs'
  BY ONLY Joined DEF WireIs, Wire
<1> QED
  BY ONLY <1>1, <1>2, <1>3, <1>4

\* The bytes of the data frames, one by one.
LEMMA DataUnit ==
  ASSUME TypeOK, NEW u
  PROVE  u \in DataUnits <=>
           /\ u \in Units /\ u.frame \in 1..Len(sent) /\ u.unit \in 1..sent[u.frame].length
           /\ sent[u.frame].op \in {"data", "pong"}
<1>1. ASSUME u \in DataUnits
      PROVE  /\ u \in Units /\ u.frame \in 1..Len(sent) /\ u.unit \in 1..sent[u.frame].length
             /\ sent[u.frame].op \in {"data", "pong"}
  <2>1. PICK f \in 1..Len(sent) : u \in Range(Payload(f))
    BY <1>1 DEF DataUnits
  <2>2. PICK i \in 1..sent[f].length : u = Unit(f, i)
    <3>1. PICK i \in DOMAIN Payload(f) : u = Payload(f)[i]
      BY <2>1 DEF Range
    <3>2. i \in 1..sent[f].length
      BY <3>1 DEF Payload
    <3> QED
      BY <3>1, <3>2, FrameOf
  <2> QED
    BY <1>1, <2>2, UnitOf, FrameOf, Lists DEF DataUnits, Unit, Units
<1>2. ASSUME u \in Units, u.frame \in 1..Len(sent), u.unit \in 1..sent[u.frame].length,
             sent[u.frame].op \in {"data", "pong"}
      PROVE  u \in DataUnits
  <2>1. u = Payload(u.frame)[u.unit] /\ u.unit \in DOMAIN Payload(u.frame)
    BY <1>2, FrameOf, UnitOf
  <2> QED
    BY <1>2, <2>1 DEF DataUnits, Range
<1> QED
  BY <1>1, <1>2
-----------------------------------------------------------------------------
(* Reading: r units leave the front of the stream *)

\* r units have left the front of the stream.
Dropped(r) ==
  /\ r \in 0..Len(stream) /\ Len(stream') = Len(stream) - r
  /\ \A i \in 1..Len(stream') : stream'[i] = stream[i + r]
  /\ UNCHANGED <<sent, rest, eof>>

\* What read and Tail do.
LEMMA Drops ==
  ASSUME TypeOK, UNCHANGED <<sent, rest, eof>>
  PROVE  /\ \A r \in 0..Len(stream) :
              stream' = SubSeq(stream, r + 1, Len(stream)) => Dropped(r)
         /\ stream # <<>> /\ stream' = Tail(stream) => Dropped(1)
         /\ stream' = <<>> => Dropped(Len(stream))
<1>1. Len(stream) \in Nat /\ stream \in Seq(Units)
  BY DEF TypeOK
<1>2. ASSUME NEW r \in 0..Len(stream), stream' = SubSeq(stream, r + 1, Len(stream))
      PROVE  Dropped(r)
  BY <1>1, <1>2 DEF Dropped
<1>3. ASSUME stream # <<>>, stream' = Tail(stream) PROVE Dropped(1)
  BY <1>1, <1>3 DEF Dropped
<1>4. ASSUME stream' = <<>> PROVE Dropped(Len(stream))
  BY <1>1, <1>4 DEF Dropped
<1> QED
  BY <1>2, <1>3, <1>4

\* They leave the front of the wire.
LEMMA DropWire ==
  ASSUME TypeOK, TypeOK', NEW r, Dropped(r)
  PROVE  /\ Len(Wire') = Len(Wire) - r /\ r \in Nat /\ r <= Len(Wire)
         /\ \A i \in 1..Len(Wire') : i + r \in 1..Len(Wire) /\ Wire'[i] = Wire[i + r]
<1>1. /\ Len(Wire') = Len(stream') + Len(rest') /\ Len(Wire) = Len(stream) + Len(rest)
      /\ Len(rest') = Len(rest) /\ Len(rest) \in Nat /\ Len(stream') = Len(stream) - r
      /\ r \in Nat /\ r <= Len(stream) /\ Len(stream) \in Nat
  BY WireAt, Lists DEF Dropped, WireIs
<1>2. ASSUME NEW i \in 1..Len(Wire') PROVE i + r \in 1..Len(Wire) /\ Wire'[i] = Wire[i + r]
  <2>1. i + r \in 1..Len(Wire)
    BY <1>1
  <2>2. CASE i <= Len(stream')
    <3>1. i \in 1..Len(stream') /\ i + r \in 1..Len(stream)
      BY <1>1, <2>2
    <3> QED
      BY <2>1, <3>1, WireAt DEF Dropped, WireIs
  <2>3. CASE i > Len(stream')
    <3>1. i + r > Len(stream) /\ i - Len(stream') = (i + r) - Len(stream)
      BY <1>1, <2>3
    <3>2. Wire'[i] = rest'[i - Len(stream')]
      BY <2>3, WireAt DEF WireIs
    <3>3. Wire[i + r] = rest[(i + r) - Len(stream)]
      BY <2>1, <3>1, WireAt DEF WireIs
    <3> QED
      BY <2>1, <3>1, <3>2, <3>3 DEF Dropped
  <2> QED
    BY <1>1, <2>2, <2>3
<1> QED
  BY <1>1, <1>2

\* What is behind them is whole frames as before.
LEMMA DropInFrames ==
  ASSUME TypeOK, TypeOK', InFrames, NEW r, Dropped(r)
  PROVE  InFrames'
<1>1. /\ Len(Wire') = Len(Wire) - r /\ Len(Wire) \in Nat /\ Len(stream) \in Nat
      /\ Len(sent) \in Nat /\ r \in Nat /\ r <= Len(stream) /\ Len(stream') = Len(stream) - r
      /\ sent' = sent /\ eof' = eof
  BY DropWire, WireAt, Lists DEF Dropped, WireIs
<1>2. \A i \in 1..Len(Wire') : i + r \in 1..Len(Wire) /\ Wire'[i] = Wire[i + r]
  BY DropWire
<1>3. ASSUME NEW i \in 1..Len(Wire') PROVE InFrame(i)'
  <2>1. InFrame(i + r)
    BY <1>2 DEF InFrames
  <2>2. /\ Wire[i + r].frame \in 1..Len(sent) /\ Wire[i + r].unit \in Nat
        /\ sent[Wire[i + r].frame].length \in Nat
    BY <2>1, FrameOf DEF InFrame
  <2>3. End(i)' \in Int /\ End(i + r) \in Int /\ End(i)' + r = End(i + r) /\ End(i)' >= i
    <3> DEFINE n == sent[Wire[i + r].frame].length
               m == Wire[i + r].unit
    <3>1. n \in Nat /\ m \in Nat /\ m <= n /\ i \in Nat /\ r \in Nat
      BY <1>1, <2>1, <2>2 DEF InFrame
    <3>2. End(i + r) = (i + r) + (n - m) /\ End(i)' = i + (n - m)
      BY <1>1, <1>2 DEF End
    <3> HIDE DEF n, m
    <3> QED
      BY ONLY <3>1, <3>2
  <2>4. Wire'[i].frame \in 1..Len(sent') /\ Wire'[i].unit \in 0..sent'[Wire'[i].frame].length
    BY <1>1, <1>2, <2>1 DEF InFrame
  <2>5. ASSUME NEW j \in i..End(i)', j <= Len(Wire')
        PROVE  Wire'[j] = Unit(Wire'[i].frame, Wire'[i].unit + (j - i))
    <3>1. j + r \in i + r..End(i + r) /\ j + r <= Len(Wire)
      BY <1>1, <2>3, <2>5
    <3>2. Wire[j + r] = Unit(Wire[i + r].frame, Wire[i + r].unit + ((j + r) - (i + r)))
      BY <2>1, <3>1 DEF InFrame
    <3>3. j \in 1..Len(Wire') /\ (j + r) - (i + r) = j - i
      BY <1>1, <2>3, <2>5
    <3> QED
      BY <1>2, <3>2, <3>3
  <2>6. ASSUME Wire'[i].frame < Len(sent')
        PROVE  End(i)' < Len(Wire') /\ Wire'[End(i)' + 1] = Unit(Wire'[i].frame + 1, 0)
    <3>1. End(i + r) < Len(Wire) /\ Wire[End(i + r) + 1] = Unit(Wire[i + r].frame + 1, 0)
      BY <1>1, <1>2, <2>1, <2>6 DEF InFrame
    <3>2. /\ End(i)' < Len(Wire') /\ End(i)' + 1 \in 1..Len(Wire')
          /\ (End(i)' + 1) + r = End(i + r) + 1
      BY <1>1, <2>3, <3>1
    <3> QED
      BY <1>2, <3>1, <3>2
  <2>7. Wire'[i].frame = Len(sent') =>
          IF eof' /\ sent'[Len(sent')].op # "ping"
            THEN End(i)' >= Len(Wire') ELSE End(i)' = Len(Wire')
    <3>1. Wire[i + r].frame = Len(sent) =>
            IF eof /\ sent[Len(sent)].op # "ping"
              THEN End(i + r) >= Len(Wire) ELSE End(i + r) = Len(Wire)
      BY ONLY <2>1 DEF InFrame
    <3>2. /\ End(i)' + r = End(i + r) /\ End(i)' \in Int /\ Len(Wire') = Len(Wire) - r
          /\ Len(Wire) \in Nat /\ Wire'[i] = Wire[i + r]
      BY <1>1, <1>2, <2>3
    <3>3. CASE eof /\ sent[Len(sent)].op # "ping"
      BY <1>1, <3>1, <3>2, <3>3
    <3>4. CASE ~(eof /\ sent[Len(sent)].op # "ping")
      <4>1. Wire[i + r].frame = Len(sent) => End(i + r) = Len(Wire)
        BY <3>1, <3>4
      <4>2. ASSUME Wire[i + r].frame = Len(sent) PROVE End(i)' = Len(Wire')
        <5>1. End(i)' + r = Len(Wire)
          BY <3>2, <4>1, <4>2
        <5> QED
          BY ONLY <1>1, <3>2, <5>1
      <4> QED
        BY <1>1, <3>2, <3>4, <4>2
    <3> QED
      BY <3>3, <3>4
  <2>8. ASSUME NEW f \in Wire'[i].frame + 1..Len(sent')
        PROVE  \E j \in i+1..Len(stream') : stream'[j] = Unit(f, 0)
    <3>1. PICK j \in i+r+1..Len(stream) : stream[j] = Unit(f, 0)
      BY <1>1, <1>2, <2>1, <2>8 DEF InFrame
    <3>2. j - r \in i+1..Len(stream') /\ (j - r) + r = j /\ j - r \in 1..Len(stream')
      BY <1>1
    <3> QED
      BY <3>1, <3>2 DEF Dropped
  <2> QED
    BY ONLY <2>4, <2>5, <2>6, <2>7, <2>8 DEF InFrame
<1>4. ASSUME NEW i \in 1..Len(Wire'), NEW j \in 1..Len(Wire'), i < j
      PROVE  Before(Wire'[i], Wire'[j])
  <2>1. i + r < j + r /\ i + r \in 1..Len(Wire) /\ j + r \in 1..Len(Wire)
    BY <1>1, <1>2, <1>4
  <2>2. Before(Wire[i + r], Wire[j + r])
    BY <2>1 DEF InFrames
  <2> QED
    BY <1>2, <2>2
<1> QED
  BY <1>3, <1>4 DEF InFrames

\* A header that is read was the first unit of the stream.
LEMMA DropClosing ==
  ASSUME TypeOK, TypeOK', NEW r, Dropped(r)
  PROVE  /\ Closing => Closing'
         /\ (\A i \in 1..r : stream[i].unit # 0 \/ sent[stream[i].frame].op # "close") =>
              (Closing' => Closing)
<1>1. /\ sent' = sent /\ Len(stream') = Len(stream) - r /\ Len(stream) \in Nat
      /\ r \in Nat /\ r <= Len(stream)
      /\ \A i \in 1..Len(stream') : stream'[i] = stream[i + r]
      /\ DOMAIN stream = 1..Len(stream) /\ Len(sent) \in Nat
  BY Lists DEF Dropped, TypeOK
<1>2. DOMAIN stream' = 1..Len(stream')
  BY DEF TypeOK
<1>3. ASSUME NEW f, Unit(f, 0) \in Range(stream') PROVE Unit(f, 0) \in Range(stream)
  <2>1. PICK i \in 1..Len(stream') : stream'[i] = Unit(f, 0)
    BY <1>2, <1>3 DEF Range
  <2>2. i + r \in 1..Len(stream) /\ stream[i + r] = Unit(f, 0)
    BY <1>1, <2>1
  <2> QED
    BY <1>1, <2>2 DEF Range
<1>4. Closing => Closing'
  BY <1>1, <1>3 DEF Closing
<1>5. ASSUME \A i \in 1..r : stream[i].unit # 0 \/ sent[stream[i].frame].op # "close", Closing'
      PROVE  Closing
  <2>1. PICK f \in 1..Len(sent) : sent[f].op = "close" /\ Unit(f, 0) \notin Range(stream')
    BY <1>1, <1>5 DEF Closing
  <2>2. ASSUME Unit(f, 0) \in Range(stream) PROVE FALSE
    <3>1. PICK i \in 1..Len(stream) : stream[i] = Unit(f, 0)
      BY <1>1, <2>2 DEF Range
    <3>2. i > r
      BY <1>1, <1>5, <2>1, <3>1, UnitOf
    <3>3. i - r \in 1..Len(stream') /\ (i - r) + r = i
      BY <1>1, <3>2
    <3>4. stream'[i - r] = Unit(f, 0)
      BY <1>1, <3>1, <3>3
    <3> QED
      BY <1>2, <2>1, <3>3, <3>4 DEF Range
  <2> QED
    BY <2>1, <2>2 DEF Closing
<1> QED
  BY <1>4, <1>5
-----------------------------------------------------------------------------
(* The types *)

\* A read under way.
Call ==
  [for : {"handler", "ping"}, want : Nat, payload : Seq(Units), last : Nat, status : 0..2]

\* A piece of a list.
LEMMA Piece ==
  ASSUME NEW S, NEW s \in Seq(S), NEW i \in 1..Len(s) + 1, NEW j \in 0..Len(s)
  PROVE  /\ SubSeq(s, i, j) \in Seq(S)
         /\ i <= j + 1 => Len(SubSeq(s, i, j)) = j - i + 1
         /\ \A k \in 1..j - i + 1 : SubSeq(s, i, j)[k] = s[k + i - 1]
OBVIOUS

\* What the call on top is, and what is left of the stack without it.
LEMMA TopOf ==
  ASSUME TypeOK, calls # <<>>
  PROVE  /\ Top \in Call /\ Top = calls[Len(calls)] /\ Len(calls) \in Nat \ {0}
         /\ Front(calls) \in Seq(Call) /\ Len(Front(calls)) = Len(calls) - 1
         /\ \A i \in 1..Len(calls)-1 : Front(calls)[i] = calls[i]
<1>1. calls \in Seq(Call) /\ Len(calls) \in Nat \ {0}
  BY DEF TypeOK, Call
<1>2. Top = calls[Len(calls)] /\ Front(calls) = SubSeq(calls, 1, Len(calls) - 1)
  BY DEF Top, Last, Front
<1>3. Top \in Call
  BY <1>1, <1>2
<1> DEFINE n == Len(calls) - 1
<1>4. 1 \in 1..Len(calls) + 1 /\ n \in 0..Len(calls) /\ n - 1 + 1 = n /\ 1 <= n + 1
  BY <1>1
<1>5. /\ SubSeq(calls, 1, n) \in Seq(Call) /\ Len(SubSeq(calls, 1, n)) = n
      /\ \A i \in 1..n : SubSeq(calls, 1, n)[i] = calls[i + 1 - 1]
  <2> HIDE DEF n
  <2> QED
    BY ONLY <1>1, <1>4, Piece
<1>6. \A i \in 1..n : i + 1 - 1 = i
  BY <1>1
<1> QED
  BY <1>1, <1>2, <1>3, <1>5, <1>6

\* The first unit of the stream is one of a frame that was sent.
LEMMA FirstSent ==
  ASSUME TypeOK, InFrames, stream # <<>>
  PROVE  /\ Head(stream) = stream[1] /\ Wire[1] = stream[1] /\ 1 \in 1..Len(stream)
         /\ 1 \in 1..Len(Wire) /\ InFrame(1) /\ Head(stream) \in Units
         /\ Head(stream).frame \in 1..Len(sent)
<1>1. Len(stream) \in Nat \ {0} /\ Head(stream) = stream[1] /\ stream[1] \in Units
  BY DEF TypeOK
<1>2. Wire[1] = stream[1] /\ 1 \in 1..Len(Wire)
  BY <1>1, WireAt DEF WireIs
<1>3. InFrame(1)
  BY ONLY <1>2, InFrames DEF InFrames
<1>4. Wire[1].frame \in 1..Len(sent)
  BY ONLY <1>3 DEF InFrame
<1> QED
  BY ONLY <1>1, <1>2, <1>3, <1>4

\* What is known of it even when the stream is read out of step.
LEMMA FirstFrame ==
  ASSUME TypeOK, Sound, stream # <<>>
  PROVE  Head(stream).frame \in 1..Len(sent)
<1>1. Len(stream) \in Nat \ {0} /\ Head(stream) = stream[1]
  BY DEF TypeOK
<1>2. Wire[1] = stream[1] /\ 1 \in 1..Len(Wire)
  BY <1>1, WireAt DEF WireIs
<1> QED
  BY <1>1, <1>2 DEF Sound

\* A read that fails keeps what it has, and whose it is.
LEMMA CallsOf ==
  ASSUME TypeOK, calls # <<>>, NEW k \in 0..2, calls' = [calls EXCEPT ![Len(calls)].status = k]
  PROVE  /\ calls' \in Seq(Call) /\ Len(calls') = Len(calls) /\ calls' # <<>>
         /\ \A i \in 1..Len(calls) :
              calls'[i].for = calls[i].for /\ calls'[i].payload = calls[i].payload
         /\ Top'.for = Top.for
<1>1. /\ Top \in Call /\ Top = calls[Len(calls)] /\ Len(calls) \in Nat \ {0}
      /\ calls \in Seq(Call)
  BY TopOf DEF TypeOK, Call
<1> DEFINE top == [Top EXCEPT !.status = k]
<1>2. top \in Call /\ top.for = Top.for /\ top.payload = Top.payload
  BY <1>1 DEF Call
<1>3. calls' = [calls EXCEPT ![Len(calls)] = top]
  BY <1>1
<1> HIDE DEF top
<1>4. /\ calls' \in Seq(Call) /\ Len(calls') = Len(calls) /\ calls' # <<>>
      /\ calls'[Len(calls)] = top /\ \A i \in 1..Len(calls) - 1 : calls'[i] = calls[i]
  BY ONLY <1>1, <1>2, <1>3
<1>5. Top' = top
  BY <1>4 DEF Top, Last
<1>6. ASSUME NEW i \in 1..Len(calls)
      PROVE  calls'[i].for = calls[i].for /\ calls'[i].payload = calls[i].payload
  <2>1. i = Len(calls) \/ i \in 1..Len(calls) - 1
    BY <1>1
  <2> QED
    BY <1>1, <1>2, <1>4, <2>1
<1> QED
  BY <1>2, <1>4, <1>5, <1>6

\* The types, after any step: what is read of the stream are units of frames that were sent.
LEMMA TypeStep ==
  ASSUME TypeOK, Sound, [Next]_vars
  PROVE  TypeOK'
<1> USE Lists DEF client, websocket
<1>1. ASSUME NEW frame \in Frames, ClientSends(frame) PROVE TypeOK'
  <2>1. Len(sent) + 1 \in Nat \ {0} /\ frame.length \in Nat
    BY <1>1, WebsocketAssumption DEF Frames
  <2> DEFINE payload == [i \in 1..frame.length |-> Unit(Len(sent) + 1, i)]
             header == Unit(Len(sent) + 1, 0)
  <2>2. payload \in Seq(Units) /\ header \in Units
    <3>1. header \in Units
      BY <2>1 DEF Unit, Units
    <3>2. \A i \in 1..frame.length : Unit(Len(sent) + 1, i) \in Units
      BY <2>1 DEF Unit, Units
    <3> QED
      BY <2>1, <3>1, <3>2
  <2>3. \/ stream' = Append(stream, header) \o payload /\ rest' = <<>>
        \/ stream' = Append(stream, header) /\ rest' = payload
    BY <1>1 DEF ClientSends
  <2> HIDE DEF payload, header
  <2>4. stream' \in Seq(Units) /\ rest' \in Seq(Units)
    <3>1. Append(stream, header) \in Seq(Units)
      BY <2>2 DEF TypeOK
    <3> QED
      <4>1. Append(stream, header) \o payload \in Seq(Units) /\ <<>> \in Seq(Units)
        BY ONLY <2>2, <3>1, Joined
      <4> QED
        BY ONLY <2>2, <2>3, <3>1, <4>1
  <2>5. sent' \in Seq(Frames)
    BY <1>1 DEF ClientSends, TypeOK
  <2> QED
    BY <1>1, <2>4, <2>5 DEF ClientSends, TypeOK
<1>2. CASE ClientSendsMore
  BY <1>2 DEF ClientSendsMore, TypeOK
<1>3. CASE ClientCloses
  BY <1>3 DEF ClientCloses, TypeOK
<1>4. ASSUME NEW request \in Requests, Handshake(request) PROVE TypeOK'
  BY <1>4 DEF Handshake, TypeOK
<1>5. CASE Free
  BY <1>5 DEF Free, TypeOK
<1>6. ASSUME NEW op \in Ops, NextHeader(op)
      PROVE  stream' \in Seq(Units) /\ left' \in Nat
  <2>1. stream # <<>> /\ stream' = Tail(stream) /\ left' = sent[Head(stream).frame].length
    BY <1>6 DEF NextHeader
  <2>2. left' \in Nat
    BY <2>1, FirstFrame, FrameOf
  <2> QED
    BY <2>1, <2>2 DEF TypeOK
<1>7. CASE HeaderOfData
  <2>1. PICK op \in {"data", "pong"} : NextHeader(op) /\ opcode' = op
    BY <1>7 DEF HeaderOfData
  <2>2. stream' \in Seq(Units) /\ left' \in Nat /\ op \in Ops
    BY <1>6, <2>1 DEF Ops
  <2> QED
    BY <1>7, <2>1, <2>2 DEF HeaderOfData, NextHeader, HeaderDone, TypeOK
<1>8. CASE HeaderOfPing
  BY <1>6, <1>8 DEF HeaderOfPing, NextHeader, StartRead, NoLevel, TypeOK, Ops
<1>9. CASE HeaderOfClose
  BY <1>6, <1>9 DEF HeaderOfClose, NextHeader, TypeOK, Ops
<1>10. ASSUME HeaderFails
       PROVE  cb' \in BOOLEAN /\ pc' \in {"closed", "return"} /\ calls' \in Seq(Call)
  <2>1. CASE calls = <<>>
    BY <1>10, <2>1 DEF HeaderFails, TypeOK, Call
  <2>2. CASE calls # <<>>
    <3>1. calls' \in Seq(Call)
      BY <1>10, <2>2, CallsOf DEF HeaderFails
    <3> QED
      BY <1>10, <2>2, <3>1 DEF HeaderFails, TypeOK
  <2> QED
    BY <2>1, <2>2
<1>21. CASE HeaderUnread
  BY <1>10, <1>21 DEF HeaderUnread, TypeOK, Call
<1>22. CASE PayloadFails
  <2>1. calls # <<>>
    BY <1>22 DEF PayloadFails, Sound
  <2>2. calls' \in Seq(Call) /\ left + 1 \in Nat /\ fails + 1 \in Nat
    BY <1>22, <2>1, CallsOf DEF PayloadFails, TypeOK
  <2> QED
    BY <1>22, <2>2 DEF PayloadFails, TypeOK, Call
<1>11. CASE CloseStatus
  <2>1. cb' \in BOOLEAN /\ pc' \in {"closed", "return"} /\ calls' \in Seq(Call)
    BY <1>10, <1>11 DEF CloseStatus
  <2>2. CASE Len(stream) < 2
    BY <1>11, <2>1, <2>2 DEF CloseStatus, TypeOK, Call
  <2>3. CASE ~(Len(stream) < 2)
    <3>1. SubSeq(stream, 1, 2) \in Seq(Units) /\ SubSeq(stream, 3, Len(stream)) \in Seq(Units)
      BY <2>3, Piece DEF TypeOK
    <3>2. [op |-> "close", payload |-> SubSeq(stream, 1, 2)]
            \in [op : Ops, payload : Seq(Units) \cup {Garbage}]
      BY <3>1 DEF Ops
    <3>3. out' = Append(out, [op |-> "close", payload |-> SubSeq(stream, 1, 2)])
      BY <1>11, <2>3 DEF CloseStatus
    <3>4. out' \in Seq([op : Ops, payload : Seq(Units) \cup {Garbage}])
      BY <3>2, <3>3 DEF TypeOK
    <3> QED
      BY <1>11, <2>1, <2>3, <3>1, <3>4 DEF CloseStatus, TypeOK, Call
  <2> QED
    BY <2>2, <2>3
<1>12. CASE ReadStart
  BY <1>12 DEF ReadStart, TypeOK
<1>13. CASE ReadPayload
  <2>1. /\ calls # <<>> /\ calls \in Seq(Call) /\ Len(calls) \in 1..Len(calls) /\ Top \in Call
        /\ calls[Len(calls)] = Top
    <3>1. calls # <<>> /\ calls \in Seq(Call)
      BY <1>13 DEF ReadPayload, Sound, TypeOK, Call
    <3> QED
      BY <3>1, TopOf
  <2> DEFINE asked == Least(Top.want, left)
             r == Least(asked, Len(stream))
             more == Top.want > asked /\ r = asked
             top == [Top EXCEPT !.want = @ - asked, !.last = r,
                               !.payload = @ \o SubSeq(stream, 1, r)]
  <2>2. /\ asked \in Nat /\ r \in 0..Len(stream) /\ r <= left /\ Top.want - asked \in Nat
        /\ Top.payload \in Seq(Units)
    BY <2>1, SMTT(30) DEF Least, Call
  <2>3. /\ stream' = SubSeq(stream, r + 1, Len(stream)) /\ left' = left - r
        /\ calls' = [calls EXCEPT ![Len(calls)] = top]
        /\ pc' \in {"read", "return"} /\ cb' \in BOOLEAN
        /\ UNCHANGED <<sent, rest, eof, opcode, before, out, taken, fails>>
    <3>1. /\ stream' = SubSeq(stream, r + 1, Len(stream)) /\ left' = left - r
          /\ pc' = IF more THEN "read" ELSE "return"
          /\ cb' \in IF r = 0 /\ ~more THEN {cb, FALSE} ELSE {cb}
          /\ UNCHANGED <<sent, rest, eof, opcode, before, out, taken, fails>>
      BY <1>13 DEF ReadPayload
    <3>3. calls' = [calls EXCEPT ![Len(calls)] = top]
      BY <1>13 DEF ReadPayload
    <3>2. pc' \in {"read", "return"} /\ cb' \in BOOLEAN
      BY ONLY <3>1, TypeOK DEF TypeOK
    <3> HIDE DEF asked, r, more, top
    <3> QED
      BY ONLY <3>1, <3>2, <3>3
  <2> HIDE DEF asked, r
  <2>4. SubSeq(stream, 1, r) \in Seq(Units) /\ stream' \in Seq(Units) /\ left' \in Nat
    <3>1. stream \in Seq(Units) /\ 1 \in 1..Len(stream) + 1 /\ Len(stream) \in 0..Len(stream)
          /\ r + 1 \in 1..Len(stream) + 1 /\ left - r \in Nat
      BY <2>2, Lists DEF TypeOK
    <3>2. SubSeq(stream, 1, r) \in Seq(Units) /\ SubSeq(stream, r + 1, Len(stream)) \in Seq(Units)
      BY ONLY <2>2, <3>1, Piece
    <3> QED
      BY <2>3, <3>1, <3>2
  <2>5. top \in Call
    <3>1. Top.payload \o SubSeq(stream, 1, r) \in Seq(Units)
      BY ONLY <2>2, <2>4, Joined
    <3>2. r \in Nat
      BY <2>2, Lists
    <3> QED
      BY ONLY <2>1, <2>2, <3>1, <3>2 DEF Call
  <2> HIDE DEF top
  <2>6. calls' \in Seq(Call)
    BY ONLY <2>1, <2>3, <2>5
  <2> QED
    BY ONLY <2>3, <2>4, <2>6, TypeOK DEF TypeOK, Call
<1>14. CASE ReturnToHandler
  <2>1. calls # <<>>
    BY <1>14 DEF ReturnToHandler, Sound
  <2>2. Top.payload \in Seq(Units) /\ Front(calls) \in Seq(Call)
    BY <2>1, TopOf DEF Call
  <2> QED
    BY <1>14, <2>2 DEF ReturnToHandler, TypeOK, Call
<1>15. CASE ReturnToPing
  <2>1. calls # <<>>
    BY <1>15 DEF ReturnToPing, Sound
  <2>2. Top.payload \in Seq(Units) /\ Front(calls) \in Seq(Call)
    BY <2>1, TopOf DEF Call
  <2> DEFINE answer == IF Len(Top.payload) < Top.status THEN Garbage
                       ELSE SubSeq(Top.payload, 1, Result(Top))
  <2>6. answer \in Seq(Units) \cup {Garbage}
    <3>1. Top \in Call
      BY <2>1, TopOf
    <3>2. Result(Top) \in 0..Len(Top.payload) /\ 1 \in 1..Len(Top.payload) + 1
      BY <3>1 DEF Result, Call
    <3>3. SubSeq(Top.payload, 1, Result(Top)) \in Seq(Units)
      BY ONLY <2>2, <3>2, Piece
    <3> QED
      BY <3>3
  <2>7. out' = Append(out, [op |-> opcode, payload |-> answer])
    BY <1>15 DEF ReturnToPing
  <2> HIDE DEF answer
  <2>3. [op |-> opcode, payload |-> answer] \in [op : Ops, payload : Seq(Units) \cup {Garbage}]
    BY <2>6 DEF TypeOK
  <2>4. out' \in Seq([op : Ops, payload : Seq(Units) \cup {Garbage}])
    BY <2>3, <2>7 DEF TypeOK
  <2>5. pc' \in {"close", "callback", "payload"} /\ before' \in Nat
    BY <1>15 DEF ReturnToPing, TypeOK
  <2> QED
    BY <1>15, <2>2, <2>4, <2>5 DEF ReturnToPing, TypeOK, Call
<1>16. CASE Poll
  BY <1>16 DEF Poll, TypeOK
<1>17. ASSUME NEW n \in ReadSizes, HandlerReads(n) PROVE TypeOK'
  BY <1>17, WebsocketAssumption DEF HandlerReads, StartRead, NoLevel, TypeOK
<1>18. CASE HandlerStops
  BY <1>18 DEF HandlerStops, TypeOK
<1>19. ASSUME NEW more \in BOOLEAN, HandlerReturns(more) PROVE TypeOK'
  BY <1>19 DEF HandlerReturns, TypeOK
<1>20. CASE UNCHANGED vars
  BY <1>20 DEF vars, TypeOK
<1> QED
  BY ONLY <1>1, <1>2, <1>3, <1>4, <1>5, <1>7, <1>8, <1>9, <1>11, <1>12, <1>13, <1>14,
     <1>15, <1>16, <1>17, <1>18, <1>19, <1>20, <1>21, <1>22, [Next]_vars DEF Next, Server, Closed
-----------------------------------------------------------------------------
(* Frames, whatever the step *)

\* Nothing has arrived, and nothing was read.
Still == UNCHANGED <<sent, stream, rest, eof>>

\* What the server does to the stream: nothing, or it reads from its front.
LEMMA ServerReads ==
  ASSUME TypeOK, Sound, [Next]_vars
  PROVE  \/ \E frame \in Frames : ClientSends(frame)
         \/ ClientSendsMore \/ ClientCloses
         \/ Still \/ \E r \in 0..Len(stream) : Dropped(r)
<1> USE DEF Still, client, websocket
<1>1. ASSUME NEW request \in Requests, Handshake(request) PROVE Still
  BY <1>1 DEF Handshake
<1>2. ASSUME Free \/ HeaderUnread \/ ReadStart \/ ReturnToHandler \/ ReturnToPing \/ Poll
               \/ PayloadFails \/ HandlerStops \/ UNCHANGED vars
      PROVE  Still
  BY <1>2 DEF Free, HeaderUnread, ReadStart, ReturnToHandler, ReturnToPing, Poll,
               PayloadFails, HandlerStops, vars
<1>3. ASSUME NEW n \in ReadSizes, HandlerReads(n) PROVE Still
  BY <1>3 DEF HandlerReads
<1>4. ASSUME NEW more \in BOOLEAN, HandlerReturns(more) PROVE Still
  BY <1>4 DEF HandlerReturns
<1>5. ASSUME HeaderOfData \/ HeaderOfPing \/ HeaderOfClose
      PROVE  \E r \in 0..Len(stream) : Dropped(r)
  <2>1. stream # <<>> /\ stream' = Tail(stream) /\ UNCHANGED <<sent, rest, eof>>
    BY <1>5 DEF HeaderOfData, HeaderOfPing, HeaderOfClose, NextHeader
  <2> QED
    BY <2>1, Drops DEF Dropped
<1>6. ASSUME CloseStatus PROVE \E r \in 0..Len(stream) : Dropped(r)
  <2>1. UNCHANGED <<sent, rest, eof>>
    BY <1>6 DEF CloseStatus
  <2>2. CASE Len(stream) < 2
    <3>1. stream' = <<>>
      BY <1>6, <2>2 DEF CloseStatus
    <3> QED
      BY <2>1, <3>1, Drops DEF Dropped
  <2>3. CASE ~(Len(stream) < 2)
    <3>1. stream' = SubSeq(stream, 2 + 1, Len(stream)) /\ 2 \in 0..Len(stream)
      BY <1>6, <2>3, Lists DEF CloseStatus
    <3> QED
      BY <2>1, <3>1, Drops
  <2> QED
    BY <2>2, <2>3
<1>7. ASSUME ReadPayload PROVE \E r \in 0..Len(stream) : Dropped(r)
  <2> DEFINE r == Least(Least(Top.want, left), Len(stream))
  <2>1. stream' = SubSeq(stream, r + 1, Len(stream)) /\ UNCHANGED <<sent, rest, eof>>
    BY <1>7 DEF ReadPayload
  <2>2. r \in 0..Len(stream)
    <3>1. Top \in Call
      BY <1>7, TopOf DEF ReadPayload, Sound
    <3> QED
      BY <3>1, Lists DEF Call, Least
  <2> QED
    BY <2>1, <2>2, Drops
<1> QED
  BY ONLY <1>1, <1>2, <1>3, <1>4, <1>5, <1>6, <1>7, [Next]_vars DEF Next, Server, Closed

\* Nothing that is said of what was sent and is on its way changes with it.
LEMMA StillSame ==
  ASSUME Still
  PROVE  /\ Wire' = Wire /\ (Closing' <=> Closing) /\ (InFrames' <=> InFrames)
         /\ Pings' = Pings /\ DataUnits' = DataUnits /\ Places' = Places
         /\ \A f : Pong(f)' = Pong(f) /\ Payload(f)' = Payload(f)
<1>1. sent' = sent /\ stream' = stream /\ rest' = rest /\ eof' = eof
  BY DEF Still
<1>2. Wire' = Wire
  BY <1>1 DEF Wire
<1>3. Closing' <=> Closing
  BY <1>1 DEF Closing
<1>4. InFrames' <=> InFrames
  BY <1>1 DEF InFrames, InFrame, Wire, End
<1>5. Pings' = Pings
  BY <1>1 DEF Pings
<1>6. DataUnits' = DataUnits
  BY <1>1 DEF DataUnits, Payload
<1>7. Places' = Places
  BY <1>1 DEF Places
<1>8. \A f : Pong(f)' = Pong(f) /\ Payload(f)' = Payload(f)
  BY <1>1 DEF Pong, Payload
<1> QED
  BY <1>2, <1>3, <1>4, <1>5, <1>6, <1>7, <1>8

\* When the client sends a frame, its header goes behind what is on its way, and then its payload.
LEMMA SendsWire ==
  ASSUME TypeOK, TypeOK', NEW frame \in Frames, ClientSends(frame)
  PROVE  /\ sent' = Append(sent, frame) /\ Len(sent') = Len(sent) + 1 /\ Len(sent) \in Nat
         /\ \A f \in 1..Len(sent) : sent'[f] = sent[f]
         /\ sent'[Len(sent) + 1] = frame /\ frame.length \in Nat
         /\ ~eof /\ ~eof' /\ rest = <<>> /\ Wire = stream /\ Len(stream) < Len(stream')
         /\ Len(Wire) \in Nat /\ Len(Wire') = Len(Wire) + 1 + frame.length
         /\ \A i \in 1..Len(Wire) : Wire'[i] = Wire[i] /\ stream'[i] = stream[i]
         /\ \A k \in 0..frame.length : Wire'[Len(Wire) + 1 + k] = Unit(Len(sent) + 1, k)
         /\ stream'[Len(Wire) + 1] = Unit(Len(sent) + 1, 0)
<1>1. /\ sent' = Append(sent, frame) /\ Len(sent') = Len(sent) + 1 /\ Len(sent) \in Nat
      /\ \A f \in 1..Len(sent) : sent'[f] = sent[f]
      /\ sent'[Len(sent) + 1] = frame
      /\ ~eof /\ ~eof' /\ rest = <<>>
  BY DEF ClientSends, TypeOK, client
<1>2. frame.length \in Nat
  BY WebsocketAssumption DEF Frames
<1> DEFINE payload == [i \in 1..frame.length |-> Unit(Len(sent) + 1, i)]
           header == Unit(Len(sent) + 1, 0)
           all == Append(stream, header) \o payload
<1>3. \/ stream' = all /\ rest' = <<>>
      \/ stream' = Append(stream, header) /\ rest' = payload
  BY DEF ClientSends
<1>4. /\ header \in Units /\ payload \in Seq(Units) /\ Len(payload) = frame.length
      /\ \A k \in 1..frame.length : payload[k] = Unit(Len(sent) + 1, k)
  <2>1. \A k \in 0..frame.length : Unit(Len(sent) + 1, k) \in Units
    BY <1>1, <1>2 DEF Unit, Units
  <2> QED
    BY <1>2, <2>1
<1>5. stream \in Seq(Units) /\ Len(stream) \in Nat /\ Wire = stream
  <2>1. stream \in Seq(Units) /\ Len(stream) \in Nat
    BY DEF TypeOK
  <2> QED
    BY <1>1, <2>1 DEF Wire
<1> HIDE DEF payload, header
<1>6. /\ Append(stream, header) \in Seq(Units) /\ Len(Append(stream, header)) = Len(stream) + 1
      /\ \A i \in 1..Len(stream) : Append(stream, header)[i] = stream[i]
      /\ Append(stream, header)[Len(stream) + 1] = header
  BY ONLY <1>4, <1>5
<1>7. /\ all \in Seq(Units) /\ Len(all) = Len(stream) + 1 + frame.length
      /\ \A i \in 1..Len(stream) + 1 : all[i] = Append(stream, header)[i]
      /\ \A k \in 1..frame.length : all[Len(stream) + 1 + k] = payload[k]
  <2> DEFINE a == Append(stream, header)
  <2>1. a \in Seq(Units) /\ Len(a) = Len(stream) + 1
    BY <1>6
  <2> HIDE DEF a
  <2>3. payload \in Seq(Units)
    BY <1>4
  <2>2. /\ a \o payload \in Seq(Units) /\ Len(a \o payload) = Len(a) + Len(payload)
        /\ \A i \in 1..Len(a) : (a \o payload)[i] = a[i]
        /\ \A k \in 1..Len(payload) : (a \o payload)[Len(a) + k] = payload[k]
    BY ONLY <2>1, <2>3
  <2> QED
    BY ONLY <1>4, <2>1, <2>2 DEF a
<1> HIDE DEF all
<1>8. Wire' = all
  <2>1. CASE stream' = all /\ rest' = <<>>
    BY <1>7, <2>1 DEF Wire
  <2>2. CASE stream' = Append(stream, header) /\ rest' = payload
    BY <2>2 DEF Wire, all
  <2> QED
    BY <1>3, <2>1, <2>2
<1>9. \A i \in 1..Len(stream) + 1 : stream'[i] = Append(stream, header)[i]
  BY <1>3, <1>7
<1>10. Len(stream) < Len(stream')
  BY <1>2, <1>3, <1>5, <1>6, <1>7
<1>11. \A i \in 1..Len(Wire) : Wire'[i] = Wire[i] /\ stream'[i] = stream[i]
  BY <1>5, <1>6, <1>7, <1>8, <1>9
<1>12. stream'[Len(Wire) + 1] = header /\ Wire'[Len(Wire) + 1] = header
  BY <1>5, <1>6, <1>7, <1>8, <1>9
<1>13. ASSUME NEW k \in 0..frame.length PROVE Wire'[Len(Wire) + 1 + k] = Unit(Len(sent) + 1, k)
  <2>1. CASE k = 0
    BY <1>5, <1>12, <2>1 DEF header
  <2>2. CASE k # 0
    <3>1. k \in 1..frame.length
      BY <1>2, <2>2
    <3> QED
      BY <1>4, <1>5, <1>7, <1>8, <3>1
  <2> QED
    BY <2>1, <2>2
<1> QED
  BY <1>1, <1>2, <1>5, <1>7, <1>8, <1>10, <1>11, <1>12, <1>13 DEF header

\* When more of its payload arrives, nothing is new.
LEMMA MoreWire ==
  ASSUME TypeOK, TypeOK', ClientSendsMore
  PROVE  /\ Wire' = Wire /\ sent' = sent /\ eof' = eof /\ rest # <<>>
         /\ Len(stream') = Len(stream) + 1 /\ Len(stream) \in Nat
         /\ \A i \in 1..Len(stream) : stream'[i] = stream[i]
         /\ stream'[Len(stream) + 1] = rest[1] /\ 1 \in 1..Len(rest)
         /\ Len(rest') = Len(rest) - 1 /\ \A i \in 1..Len(rest') : rest'[i] = rest[i + 1]
<1>1. /\ sent' = sent /\ eof' = eof /\ rest # <<>>
      /\ stream' = Append(stream, Head(rest)) /\ rest' = Tail(rest)
  BY DEF ClientSendsMore
<1>2. /\ stream \in Seq(Units) /\ rest \in Seq(Units)
      /\ Len(stream) \in Nat /\ Len(rest) \in Nat
  BY DEF TypeOK
<1>3. /\ Len(stream') = Len(stream) + 1 /\ stream'[Len(stream) + 1] = rest[1]
      /\ \A i \in 1..Len(stream) : stream'[i] = stream[i]
      /\ 1 \in 1..Len(rest)
  BY <1>1, <1>2
<1>4. Len(rest') = Len(rest) - 1 /\ \A i \in 1..Len(rest') : rest'[i] = rest[i + 1]
  BY <1>1, <1>2
<1>5. Append(stream, Head(rest)) \o Tail(rest) = stream \o rest
  BY <1>1, <1>2
<1> QED
  BY <1>1, <1>2, <1>3, <1>4, <1>5 DEF Wire

\* The units on their way are told apart by their places.
LEMMA OnceEach ==
  ASSUME TypeOK, InFrames, NEW i \in 1..Len(Wire), NEW j \in 1..Len(Wire), Wire[i] = Wire[j]
  PROVE  i = j
<1>1. Wire[i] \in Units /\ Wire[j] \in Units /\ i \in Nat /\ j \in Nat
  BY WireAt DEF WireIs
<1>2. ~Before(Wire[i], Wire[j]) /\ ~Before(Wire[j], Wire[i])
  BY <1>1, UnitOf DEF Before
<1> QED
  BY <1>1, <1>2 DEF InFrames

\* Where a unit's frame ends.
LEMMA EndOf ==
  ASSUME TypeOK, InFrames, NEW i \in 1..Len(Wire)
  PROVE  /\ InFrame(i) /\ Wire[i] \in Units /\ Wire[i].frame \in 1..Len(sent)
         /\ Wire[i].frame \in Nat \ {0} /\ Wire[i].unit \in Nat
         /\ sent[Wire[i].frame].length \in Nat
         /\ Wire[i].unit <= sent[Wire[i].frame].length
         /\ End(i) = i + (sent[Wire[i].frame].length - Wire[i].unit)
         /\ End(i) \in Nat /\ End(i) >= i /\ i \in Nat
<1>1. InFrame(i) /\ Wire[i] \in Units /\ i \in Nat
  BY WireAt DEF InFrames, WireIs
<1>2. /\ Wire[i].frame \in 1..Len(sent) /\ Wire[i].unit \in 0..sent[Wire[i].frame].length
      /\ Wire[i].frame \in Nat \ {0} /\ Wire[i].unit \in Nat
  BY <1>1, UnitOf DEF InFrame
<1>3. sent[Wire[i].frame].length \in Nat
  BY <1>2, FrameOf
<1>4. End(i) = i + (sent[Wire[i].frame].length - Wire[i].unit)
  BY DEF End
<1>5. Wire[i].unit <= sent[Wire[i].frame].length
  BY <1>2, <1>3
<1>6. End(i) \in Nat /\ End(i) >= i
  BY <1>1, <1>2, <1>3, <1>4, <1>5
<1> QED
  BY <1>1, <1>2, <1>3, <1>4, <1>5, <1>6

\* A new frame joins those on their way.
LEMMA SendsInFrames ==
  ASSUME TypeOK, TypeOK', InFrames, NEW frame \in Frames, ClientSends(frame)
  PROVE  InFrames'
<1> DEFINE N == Len(Wire)
           F == Len(sent) + 1
           L == frame.length
<1>1. /\ Len(sent') = F /\ F \in Nat \ {0} /\ sent'[F] = frame /\ L \in Nat
      /\ \A f \in 1..Len(sent) : sent'[f] = sent[f]
      /\ ~eof /\ ~eof' /\ Len(stream) < Len(stream') /\ Len(stream) = N
      /\ N \in Nat /\ Len(Wire') = N + 1 + L /\ Len(stream) \in Nat /\ Len(stream') \in Nat
      /\ Len(sent) = F - 1
  BY SendsWire, Lists, WireAt DEF WireIs
<1>2. \A i \in 1..N : Wire'[i] = Wire[i] /\ stream'[i] = stream[i]
  BY SendsWire
<1>3. \A k \in 0..L : Wire'[N + 1 + k] = Unit(F, k)
  BY SendsWire
<1>4. stream'[N + 1] = Unit(F, 0) /\ Wire'[N + 1] = Unit(F, 0)
  <2>1. Wire'[N + 1 + 0] = Unit(F, 0) /\ N + 1 + 0 = N + 1
    BY <1>1, <1>3
  <2> QED
    BY <2>1, SendsWire
<1> HIDE DEF N, F, L
<1>5. ASSUME NEW i \in 1..N PROVE InFrame(i)'
  <2>1. /\ i \in 1..Len(Wire) /\ Wire'[i] = Wire[i] /\ InFrame(i) /\ Wire[i].frame \in 1..F-1
        /\ Wire[i].frame \in Nat /\ End(i)' = End(i) /\ End(i) \in Nat /\ End(i) >= i
        /\ i \in Nat /\ sent'[Wire[i].frame] = sent[Wire[i].frame]
    <3>1. i \in 1..Len(Wire)
      BY DEF N
    <3>2. Wire'[i] = Wire[i] /\ Wire[i].frame \in 1..F-1 /\ Wire[i].frame \in 1..Len(sent)
      BY <1>1, <1>2, <3>1, EndOf
    <3>3. sent'[Wire[i].frame] = sent[Wire[i].frame]
      BY <1>1, <3>2
    <3>4. End(i)' = End(i)
      BY <3>2, <3>3 DEF End
    <3> QED
      BY <3>1, <3>2, <3>3, <3>4, EndOf
  <2>2. Wire[i].frame < Len(sent) => End(i) < N /\ Wire[End(i) + 1] = Unit(Wire[i].frame + 1, 0)
    BY <2>1 DEF InFrame, N
  <2>3. Wire[i].frame = Len(sent) => End(i) = N
    BY <1>1, <2>1 DEF InFrame, N
  <2>4. End(i) <= N
    BY <1>1, <2>1, <2>2, <2>3
  <2>5. Wire'[i].frame \in 1..Len(sent') /\ Wire'[i].unit \in 0..sent'[Wire'[i].frame].length
    BY <1>1, <2>1 DEF InFrame
  <2>6. ASSUME NEW j \in i..End(i)', j <= Len(Wire')
        PROVE  Wire'[j] = Unit(Wire'[i].frame, Wire'[i].unit + (j - i))
    <3>1. j \in i..End(i) /\ j \in 1..N /\ j <= Len(Wire)
      BY <1>1, <2>1, <2>4, <2>6 DEF N
    <3> QED
      BY <1>2, <2>1, <3>1 DEF InFrame
  <2>7. ASSUME Wire'[i].frame < Len(sent')
        PROVE  End(i)' < Len(Wire') /\ Wire'[End(i)' + 1] = Unit(Wire'[i].frame + 1, 0)
    <3>1. CASE Wire[i].frame < Len(sent)
      <4>1. End(i) + 1 \in 1..N
        BY <1>1, <2>1, <2>2, <3>1
      <4> QED
        BY <1>1, <1>2, <2>1, <2>2, <3>1, <4>1
    <3>2. CASE Wire[i].frame = Len(sent)
      <4>1. End(i) = N /\ Wire[i].frame + 1 = F
        BY <1>1, <2>3, <3>2
      <4> QED
        BY <1>1, <1>4, <2>1, <4>1
    <3> QED
      BY <1>1, <2>1, <3>1, <3>2
  <2>8. Wire'[i].frame # Len(sent')
    BY <1>1, <2>1
  <2>9. ASSUME NEW g \in Wire'[i].frame + 1..Len(sent')
        PROVE  \E j \in i+1..Len(stream') : stream'[j] = Unit(g, 0)
    <3>1. CASE g = F
      <4>1. N + 1 \in i+1..Len(stream')
        BY <1>1, <2>1
      <4> QED
        BY <1>4, <3>1, <4>1
    <3>2. CASE g # F
      <4>1. PICK j \in i+1..Len(stream) : stream[j] = Unit(g, 0)
        BY <1>1, <2>1, <2>9, <3>2 DEF InFrame
      <4>2. j \in 1..N /\ j \in i+1..Len(stream')
        BY <1>1, <2>1
      <4> QED
        BY <1>2, <4>1, <4>2
    <3> QED
      BY <3>1, <3>2
  <2> QED
    BY ONLY <2>5, <2>6, <2>7, <2>8, <2>9 DEF InFrame
<1>6. ASSUME NEW i \in 1..Len(Wire'), i \notin 1..N
      PROVE  i - N - 1 \in 0..L /\ N + 1 + (i - N - 1) = i /\ Wire'[i] = Unit(F, i - N - 1)
  <2>1. i - N - 1 \in 0..L /\ N + 1 + (i - N - 1) = i
    BY <1>1, <1>6
  <2> QED
    BY <1>3, <2>1
<1>7. ASSUME NEW i \in 1..Len(Wire'), i \notin 1..N PROVE InFrame(i)'
  <2> DEFINE k == i - N - 1
  <2>1. /\ Wire'[i] = Unit(F, k) /\ Wire'[i].frame = F /\ Wire'[i].unit = k
        /\ i \in Nat /\ k \in Nat /\ k \in 0..L /\ i = N + 1 + k
    BY <1>1, <1>6, <1>7, UnitOf
  <2> HIDE DEF k
  <2>2. End(i)' = N + 1 + L /\ End(i)' = Len(Wire')
    <3>1. End(i)' = i + (sent'[F].length - k)
      BY <2>1 DEF End
    <3>2. sent'[F].length = L
      BY <1>1 DEF L
    <3> QED
      BY ONLY <1>1, <2>1, <3>1, <3>2
  <2>3. Wire'[i].frame \in 1..Len(sent') /\ Wire'[i].unit \in 0..sent'[Wire'[i].frame].length
    BY <1>1, <2>1 DEF L
  <2>4. ASSUME NEW j \in i..End(i)'
        PROVE  Wire'[j] = Unit(Wire'[i].frame, Wire'[i].unit + (j - i))
    <3>1. k + (j - i) \in 0..L /\ N + 1 + (k + (j - i)) = j
      <4>1. /\ k \in Nat /\ i = N + 1 + k /\ N \in Nat /\ L \in Nat
            /\ End(i)' = N + 1 + L /\ j \in i..End(i)'
        BY <1>1, <2>1, <2>2, WireAt DEF WireIs, L
      <4> HIDE DEF L, N
      <4>2. /\ k \in Nat /\ i = N + 1 + k /\ N \in Nat /\ L \in Nat
            /\ j \in i..N + 1 + L
        BY <4>1
      <4> QED
        BY ONLY <4>2
    <3> QED
      BY <1>3, <2>1, <3>1
  <2>5. Wire'[i].frame = Len(sent') /\ Wire'[i].frame + 1..Len(sent') = {}
    BY <1>1, <2>1
  <2>6. ~(Wire'[i].frame < Len(sent'))
    BY <1>1, <2>1
  <2> QED
    BY ONLY <1>1, <2>2, <2>3, <2>4, <2>5, <2>6 DEF InFrame
<1>8. ASSUME NEW i \in 1..Len(Wire'), NEW j \in 1..Len(Wire'), i < j
      PROVE  Before(Wire'[i], Wire'[j])
  <2>1. CASE j \in 1..N
    <3>1. i \in 1..N
      BY <1>1, <1>8, <2>1
    <3> QED
      BY <1>2, <1>8, <2>1, <3>1 DEF InFrames, N
  <2>2. CASE j \notin 1..N /\ i \in 1..N
    <3>1. Wire'[j].frame = F
      BY <1>6, <2>2, UnitOf
    <3>2. Wire'[i].frame \in 1..F-1
      BY <1>1, <1>2, <2>2, EndOf DEF N
    <3> QED
      BY <1>1, <3>1, <3>2 DEF Before
  <2>3. CASE j \notin 1..N /\ i \notin 1..N
    <3>1. /\ Wire'[j].frame = F /\ Wire'[i].frame = F
          /\ Wire'[j].unit = j - N - 1 /\ Wire'[i].unit = i - N - 1
      BY <1>6, <2>3, UnitOf
    <3>2. i - N - 1 < j - N - 1
      BY <1>1, <1>8
    <3> QED
      BY <3>1, <3>2 DEF Before
  <2> QED
    BY <2>1, <2>2, <2>3
<1> QED
  BY <1>5, <1>7, <1>8 DEF InFrames

\* More of the payload of the last one arrives.
LEMMA MoreInFrames ==
  ASSUME TypeOK, TypeOK', InFrames, ClientSendsMore
  PROVE  InFrames'
<1>1. /\ Wire' = Wire /\ sent' = sent /\ eof' = eof
      /\ Len(stream') = Len(stream) + 1 /\ Len(stream) \in Nat
      /\ \A i \in 1..Len(stream) : stream'[i] = stream[i]
  BY MoreWire
<1>2. ASSUME NEW i \in 1..Len(Wire') PROVE InFrame(i)'
  <2>1. InFrame(i) /\ End(i)' = End(i) /\ i \in Nat
    BY <1>1, EndOf DEF End
  <2>2. ASSUME NEW f \in Wire[i].frame + 1..Len(sent)
        PROVE  \E j \in i+1..Len(stream') : stream'[j] = Unit(f, 0)
    <3>1. PICK j \in i+1..Len(stream) : stream[j] = Unit(f, 0)
      BY <2>1 DEF InFrame
    <3>2. j \in 1..Len(stream) /\ j \in i+1..Len(stream')
      BY <1>1, <2>1
    <3> QED
      BY <1>1, <3>1, <3>2
  <2>3. /\ Wire[i].frame \in 1..Len(sent) /\ Wire[i].unit \in 0..sent[Wire[i].frame].length
        /\ \A j \in i..End(i) :
             j <= Len(Wire) => Wire[j] = Unit(Wire[i].frame, Wire[i].unit + (j - i))
        /\ Wire[i].frame < Len(sent) =>
             End(i) < Len(Wire) /\ Wire[End(i) + 1] = Unit(Wire[i].frame + 1, 0)
        /\ Wire[i].frame = Len(sent) =>
             IF eof /\ sent[Len(sent)].op # "ping"
               THEN End(i) >= Len(Wire) ELSE End(i) = Len(Wire)
    BY <2>1 DEF InFrame
  <2> QED
    BY ONLY <1>1, <2>1, <2>2, <2>3 DEF InFrame
<1>3. \A i, j \in 1..Len(Wire') : i < j => Before(Wire'[i], Wire'[j])
  BY <1>1 DEF InFrames
<1> QED
  BY <1>2, <1>3 DEF InFrames

\* The client closes the socket: what has not arrived never does.
LEMMA ClosesWire ==
  ASSUME TypeOK, TypeOK', ClientCloses
  PROVE  /\ sent' = sent /\ stream' = stream /\ rest' = <<>> /\ ~eof /\ eof'
         /\ Wire' = stream /\ Len(stream) \in Nat /\ Len(Wire) = Len(stream) + Len(rest)
         /\ Len(rest) \in Nat /\ \A i \in 1..Len(stream) : Wire[i] = stream[i]
<1>1. sent' = sent /\ stream' = stream /\ rest' = <<>> /\ ~eof /\ eof'
  BY DEF ClientCloses
<1>2. Wire' = stream
  BY <1>1 DEF Wire, TypeOK
<1> QED
  BY <1>1, <1>2, WireAt DEF WireIs

\* What has arrived by then is still whole frames, but for the last one.
LEMMA ClosesInFrames ==
  ASSUME TypeOK, TypeOK', InFrames, Arriving, ClientCloses
  PROVE  InFrames'
<1>1. /\ sent' = sent /\ stream' = stream /\ ~eof /\ eof'
      /\ Wire' = stream /\ Len(stream) \in Nat /\ Len(Wire) = Len(stream) + Len(rest)
      /\ Len(rest) \in Nat /\ \A i \in 1..Len(stream) : Wire[i] = stream[i]
      /\ Len(sent) \in Nat
  BY ClosesWire, Lists
<1>2. ASSUME NEW i \in 1..Len(Wire') PROVE InFrame(i)'
  <2>1. i \in 1..Len(Wire) /\ i \in 1..Len(stream) /\ Wire'[i] = Wire[i]
    BY <1>1
  <2>2. /\ InFrame(i) /\ End(i)' = End(i) /\ End(i) \in Nat /\ End(i) >= i /\ i \in Nat
        /\ Wire[i].frame \in 1..Len(sent) /\ Wire[i].frame \in Nat \ {0}
    BY <1>1, <2>1, EndOf DEF End
  <2>3. Wire'[i].frame \in 1..Len(sent') /\ Wire'[i].unit \in 0..sent'[Wire'[i].frame].length
    BY <1>1, <2>1, <2>2 DEF InFrame
  <2>4. ASSUME NEW j \in i..End(i)', j <= Len(Wire')
        PROVE  Wire'[j] = Unit(Wire'[i].frame, Wire'[i].unit + (j - i))
    <3>1. j \in i..End(i) /\ j <= Len(Wire) /\ j \in 1..Len(stream)
      BY <1>1, <2>2, <2>4
    <3>2. Wire[j] = Unit(Wire[i].frame, Wire[i].unit + (j - i))
      BY <2>2, <3>1 DEF InFrame
    <3> QED
      BY <1>1, <2>1, <3>1, <3>2
  <2>5. ASSUME Wire'[i].frame < Len(sent')
        PROVE  End(i)' < Len(Wire') /\ Wire'[End(i)' + 1] = Unit(Wire'[i].frame + 1, 0)
    <3> DEFINE f == Wire[i].frame + 1
    <3>1. End(i) < Len(Wire) /\ Wire[End(i) + 1] = Unit(f, 0)
      BY <1>1, <2>1, <2>2, <2>5 DEF InFrame
    <3>2. f \in Wire[i].frame + 1..Len(sent)
      BY <1>1, <2>1, <2>2, <2>5
    <3>3. PICK j \in i+1..Len(stream) : stream[j] = Unit(f, 0)
      BY <2>2, <3>2 DEF InFrame
    <3>4. j \in 1..Len(Wire) /\ j \in 1..Len(stream) /\ End(i) + 1 \in 1..Len(Wire)
      BY <1>1, <2>2, <3>1
    <3>5. j = End(i) + 1
      BY <1>1, <3>1, <3>3, <3>4, OnceEach
    <3>6. End(i) + 1 \in 1..Len(stream)
      BY <3>4, <3>5
    <3> QED
      BY <1>1, <2>1, <2>2, <3>1, <3>6
  <2>6. Wire'[i].frame = Len(sent') =>
          IF eof' /\ sent'[Len(sent')].op # "ping"
            THEN End(i)' >= Len(Wire') ELSE End(i)' = Len(Wire')
    <3>1. Wire[i].frame = Len(sent) => End(i) = Len(Wire)
      BY <1>1, <2>2 DEF InFrame
    <3>2. CASE rest = <<>>
      BY <1>1, <2>1, <2>2, <3>1, <3>2
    <3>3. CASE rest # <<>>
      BY <1>1, <2>1, <2>2, <3>1, <3>3 DEF Arriving
    <3> QED
      BY <3>2, <3>3
  <2>7. \A f \in Wire'[i].frame + 1..Len(sent') :
          \E j \in i+1..Len(stream') : stream'[j] = Unit(f, 0)
    BY <1>1, <2>1, <2>2 DEF InFrame
  <2> QED
    BY ONLY <2>3, <2>4, <2>5, <2>6, <2>7 DEF InFrame
<1>3. \A i, j \in 1..Len(Wire') : i < j => Before(Wire'[i], Wire'[j])
  BY <1>1 DEF InFrames
<1> QED
  BY <1>2, <1>3 DEF InFrames

\* Whole frames, after any step.
LEMMA InFramesStep ==
  ASSUME TypeOK, TypeOK', Sound, InFrames, Arriving, Stacked, [Next]_vars
  PROVE  InFrames'
BY ServerReads, StillSame, DropInFrames, SendsInFrames, MoreInFrames, ClosesInFrames
-----------------------------------------------------------------------------
(* The place the server has read to *)

\* Places are units.
LEMMA PlaceOf ==
  ASSUME TypeOK
  PROVE  /\ \A p \in Places : p \in Units /\ p.frame \in Nat \ {0} /\ p.unit \in Nat
         /\ \A f \in 1..Len(sent) : \A i \in 0..sent[f].length : Unit(f, i) \in Places
         /\ Unit(Len(sent) + 1, 0) \in Places
<1> DEFINE Of(f) == {Unit(f, i) : i \in 0..sent[f].length}
           all == {Of(f) : f \in 1..Len(sent)}
           last == Unit(Len(sent) + 1, 0)
<1>0. Places = (UNION all) \cup {last}
  BY DEF Places
<1>2. \A f \in 1..Len(sent) : Of(f) \in all
  OBVIOUS
<1>3. \A P \in all : \E f \in 1..Len(sent) : P = Of(f)
  OBVIOUS
<1>4. \A f : \A i \in 0..sent[f].length : Unit(f, i) \in Of(f)
  OBVIOUS
<1>5. \A f : \A u \in Of(f) : \E i \in 0..sent[f].length : u = Unit(f, i)
  OBVIOUS
<1> HIDE DEF Of, all, last
<1>1. \A p : p \in Places <=> p = last \/ \E P \in all : p \in P
  BY ONLY <1>0
<1>6. ASSUME NEW p \in Places PROVE p \in Units /\ p.frame \in Nat \ {0} /\ p.unit \in Nat
  <2>1. p \in Units
    <3>1. CASE p = last
      BY <3>1, Lists DEF last, Unit, Units
    <3>2. CASE p # last
      <4>1. PICK f \in 1..Len(sent) : p \in Of(f)
        BY <1>1, <1>3, <1>6, <3>2
      <4>2. PICK i \in 0..sent[f].length : p = Unit(f, i)
        BY <1>5, <4>1
      <4> QED
        BY <4>2, FrameOf, Lists DEF Unit, Units
    <3> QED
      BY <3>1, <3>2
  <2> QED
    BY <2>1, UnitOf
<1>7. \A f \in 1..Len(sent) : \A i \in 0..sent[f].length : Unit(f, i) \in Places
  BY <1>1, <1>2, <1>4
<1>8. last \in Places
  BY <1>1
<1> QED
  BY <1>6, <1>7, <1>8 DEF last

\* The places of the next state.
LEMMA PlaceOfNext ==
  ASSUME TypeOK'
  PROVE  /\ \A f \in 1..Len(sent') : \A i \in 0..sent'[f].length : Unit(f, i) \in Places'
         /\ Unit(Len(sent') + 1, 0) \in Places'
<1> DEFINE Of(f) == {Unit(f, i) : i \in 0..sent'[f].length}
           all == {Of(f) : f \in 1..Len(sent')}
           last == Unit(Len(sent') + 1, 0)
<1>0. Places' = (UNION all) \cup {last}
  BY DEF Places
<1>2. \A f \in 1..Len(sent') : Of(f) \in all
  OBVIOUS
<1>3. \A f : \A i \in 0..sent'[f].length : Unit(f, i) \in Of(f)
  OBVIOUS
<1> HIDE DEF Of, all, last
<1>1. \A p : p \in Places' <=> p = last \/ \E P \in all : p \in P
  BY ONLY <1>0
<1>4. last \in Places'
  BY ONLY <1>1
<1>5. \A f \in 1..Len(sent') : \A i \in 0..sent'[f].length : Unit(f, i) \in Places'
  BY ONLY <1>1, <1>2, <1>3
<1> QED
  BY <1>4, <1>5 DEF last

\* At p, the rest of its frame is as long as data_left says, and has arrived if it is a ping's.
LEMMA AtFrame ==
  ASSUME TypeOK, InFrames, Arriving, NEW p \in Places, At(p), Wire # <<>>
  PROVE  /\ 1 \in 1..Len(Wire) /\ Len(Wire) \in Nat \ {0} /\ Wire[1] = p
         /\ p.frame \in 1..Len(sent) /\ p.frame \in Nat \ {0} /\ p.unit \in Nat
         /\ sent[p.frame].length \in Nat
         /\ p.unit > 0 =>
              /\ End(1) = left /\ left \in Nat \ {0}
              /\ \A i \in 1..left :
                   i <= Len(Wire) => Wire[i] = Unit(p.frame, p.unit + (i - 1))
         /\ p.frame < Len(sent) =>
              End(1) < Len(Wire) /\ Wire[End(1) + 1] = Unit(p.frame + 1, 0)
         /\ p.frame = Len(sent) =>
              IF eof /\ sent[Len(sent)].op # "ping"
                THEN End(1) >= Len(Wire) ELSE End(1) = Len(Wire)
         /\ sent[p.frame].op = "ping" => End(1) <= Len(stream)
         /\ End(1) \in Nat \ {0} /\ End(1) = 1 + (sent[p.frame].length - p.unit)
<1>1. /\ 1 \in 1..Len(Wire) /\ Len(Wire) \in Nat \ {0} /\ Wire[1] = p
      /\ Len(Wire) = Len(stream) + Len(rest) /\ Len(stream) \in Nat /\ Len(rest) \in Nat
  BY WireAt DEF WireIs, At
<1>2. /\ InFrame(1) /\ p.frame \in 1..Len(sent) /\ p.frame \in Nat \ {0} /\ p.unit \in Nat
      /\ sent[p.frame].length \in Nat /\ End(1) = 1 + (sent[p.frame].length - p.unit)
      /\ End(1) \in Nat /\ End(1) >= 1
  BY <1>1, EndOf
<1>3. ASSUME p.unit > 0
      PROVE  /\ End(1) = left /\ left \in Nat \ {0}
             /\ \A i \in 1..left : i <= Len(Wire) => Wire[i] = Unit(p.frame, p.unit + (i - 1))
  <2> DEFINE n == sent[p.frame].length
  <2>1. p.unit + left = n + 1 /\ left > 0
    BY <1>3 DEF At
  <2>2. End(1) = 1 + (n - p.unit) /\ n \in Nat /\ p.unit \in Nat /\ left \in Nat
    BY <1>2, Lists
  <2> HIDE DEF n
  <2>3. End(1) = left /\ left \in Nat \ {0}
    BY ONLY <2>1, <2>2
  <2> QED
    BY <1>1, <1>2, <2>3 DEF InFrame
<1>4. /\ p.frame < Len(sent) => End(1) < Len(Wire) /\ Wire[End(1) + 1] = Unit(p.frame + 1, 0)
      /\ p.frame = Len(sent) =>
           IF eof /\ sent[Len(sent)].op # "ping"
             THEN End(1) >= Len(Wire) ELSE End(1) = Len(Wire)
  BY <1>1, <1>2 DEF InFrame
<1>5. ASSUME sent[p.frame].op = "ping" PROVE End(1) <= Len(stream)
  <2>1. CASE p.frame = Len(sent)
    <3>1. rest = <<>> /\ End(1) = Len(Wire)
      BY <1>4, <1>5, <2>1 DEF Arriving
    <3> QED
      BY <1>1, <3>1
  <2>2. CASE p.frame # Len(sent)
    <3>1. p.frame < Len(sent) /\ p.frame + 1 \in p.frame + 1..Len(sent)
      BY <1>2, <2>2, Lists
    <3>2. PICK j \in 1+1..Len(stream) : stream[j] = Unit(p.frame + 1, 0)
      BY <1>1, <1>2, <3>1 DEF InFrame
    <3>3. j \in 1..Len(Wire) /\ End(1) + 1 \in 1..Len(Wire) /\ Wire[j] = stream[j]
      BY <1>1, <1>2, <1>4, <3>1, WireAt DEF WireIs
    <3>4. j = End(1) + 1
      BY <1>4, <3>1, <3>2, <3>3, OnceEach
    <3> QED
      BY <1>1, <1>2, <3>4
  <2> QED
    BY <2>1, <2>2
<1> QED
  BY <1>1, <1>2, <1>3, <1>4, <1>5

\* What a read takes.
LEMMA ReadsPiece ==
  ASSUME TypeOK, TypeOK', Stacked, ReadPayload
  PROVE  LET asked == Least(Top.want, left)
             r == Least(asked, Len(stream))
         IN  /\ r \in 0..Len(stream) /\ r <= left /\ r <= asked /\ Dropped(r) /\ left' = left - r
             /\ r \in Nat /\ asked \in Nat /\ Top.want \in Nat /\ left \in Nat
             /\ pc' = IF Top.want > asked /\ r = asked THEN "read" ELSE "return"
             /\ Len(calls') = Len(calls) /\ Len(calls) \in Nat \ {0}
             /\ calls' # <<>> /\ calls # <<>> /\ Top' = calls'[Len(calls)]
             /\ Top = calls[Len(calls)]
             /\ Top'.for = Top.for /\ Top'.status = Top.status
             /\ Top'.want = Top.want - asked
             /\ Top'.payload = Top.payload \o SubSeq(stream, 1, r)
             /\ \A i \in 1..Len(calls) - 1 : calls'[i] = calls[i]
             /\ pc = "payload" /\ UNCHANGED <<opcode, before, out, taken>>
<1> DEFINE asked == Least(Top.want, left)
           r == Least(asked, Len(stream))
           top == [Top EXCEPT !.want = @ - asked, !.last = r,
                              !.payload = @ \o SubSeq(stream, 1, r)]
<1>1. pc = "payload" /\ calls # <<>>
  BY DEF ReadPayload, Stacked
<1>2. /\ Top \in Call /\ Top = calls[Len(calls)] /\ Len(calls) \in Nat \ {0}
      /\ calls \in Seq(Call)
  BY <1>1, TopOf DEF TypeOK, Call
<1>3. /\ r \in 0..Len(stream) /\ r <= left /\ r <= asked
      /\ r \in Nat /\ asked \in Nat /\ Top.want \in Nat /\ left \in Nat
  BY <1>2, Lists DEF Least, Call
<1>4. /\ stream' = SubSeq(stream, r + 1, Len(stream)) /\ left' = left - r
      /\ pc' = IF Top.want > asked /\ r = asked THEN "read" ELSE "return"
      /\ UNCHANGED <<sent, rest, eof, opcode, before, out, taken>>
  BY DEF ReadPayload, client
<1>5. calls' = [calls EXCEPT ![Len(calls)] = top]
  BY DEF ReadPayload
<1> HIDE DEF asked, r
<1>6. Dropped(r)
  BY <1>3, <1>4, Drops
<1>7. top.for = Top.for /\ top.status = Top.status /\ top.want = Top.want - asked
      /\ top.payload = Top.payload \o SubSeq(stream, 1, r)
  BY <1>2 DEF Call
<1> HIDE DEF top
<1>8. /\ Len(calls') = Len(calls) /\ calls'[Len(calls)] = top /\ calls' # <<>>
      /\ \A i \in 1..Len(calls) - 1 : calls'[i] = calls[i]
  BY <1>2, <1>5
<1>9. Top' = top
  BY <1>8 DEF Top, Last
<1> QED
  BY <1>1, <1>2, <1>3, <1>4, <1>6, <1>7, <1>8, <1>9 DEF asked, r

\* What a read takes is payload of the frame at p.
LEMMA PieceAt ==
  ASSUME TypeOK, InFrames, Arriving, NEW p \in Places, At(p),
         NEW r \in 0..Len(stream), r <= left
  PROVE  /\ \A i \in 1..r : stream[i] = Unit(p.frame, p.unit + (i - 1))
         /\ r > 0 => /\ p.unit > 0 /\ Wire # <<>> /\ p.frame \in 1..Len(sent)
                     /\ p.unit + r <= sent[p.frame].length + 1
<1> SUFFICES ASSUME r > 0
    PROVE  /\ \A i \in 1..r : stream[i] = Unit(p.frame, p.unit + (i - 1))
           /\ p.unit > 0 /\ Wire # <<>> /\ p.frame \in 1..Len(sent)
           /\ p.unit + r <= sent[p.frame].length + 1
  OBVIOUS
<1>1. /\ Len(Wire) = Len(stream) + Len(rest) /\ Len(stream) \in Nat /\ Len(rest) \in Nat
      /\ \A i \in 1..Len(stream) : Wire[i] = stream[i]
      /\ Wire = <<>> <=> Len(Wire) = 0
  BY WireAt DEF WireIs
<1>2. Wire # <<>> /\ left > 0 /\ left \in Nat /\ p.unit \in Nat
  BY <1>1, Lists, PlaceOf
<1>3. p.unit > 0 /\ p.unit + left = sent[p.frame].length + 1
  BY <1>2 DEF At
<1>4. /\ \A i \in 1..left : i <= Len(Wire) => Wire[i] = Unit(p.frame, p.unit + (i - 1))
      /\ p.frame \in 1..Len(sent) /\ sent[p.frame].length \in Nat
  BY <1>2, <1>3, AtFrame
<1>5. ASSUME NEW i \in 1..r PROVE stream[i] = Unit(p.frame, p.unit + (i - 1))
  <2>1. i \in 1..left /\ i <= Len(Wire) /\ i \in 1..Len(stream)
    BY <1>1, <1>2
  <2> QED
    BY <1>1, <1>4, <2>1
<1>6. p.unit + r <= sent[p.frame].length + 1
  BY ONLY <1>2, <1>3, <1>4, r \in 0..Len(stream), r <= left, <1>1
<1> QED
  BY <1>2, <1>3, <1>4, <1>5, <1>6

\* Before the header of a close frame has been read, only reading it changes that; and then
\* nothing does.
LEMMA ClosingStep ==
  ASSUME TypeOK, TypeOK', Sound, InFrames, Arriving, Stacked, [Next]_vars
  PROVE  /\ Closing => Closing' /\ ~\E frame \in Frames : ClientSends(frame)
         /\ HeaderOfClose => Closing'
         /\ ~Closing /\ Closing' /\ (\E p \in Places : At(p)) => HeaderOfClose
<1> USE Lists
<1>1. ASSUME NEW frame \in Frames, ClientSends(frame) PROVE ~Closing /\ ~Closing'
  <2>1. \A f \in 1..Len(sent) : sent[f].op # "close"
    BY <1>1 DEF ClientSends
  <2>2. ASSUME NEW f \in 1..Len(sent'), sent'[f].op = "close" PROVE Unit(f, 0) \in Range(stream')
    <3>1. f = Len(sent) + 1
      BY <1>1, <2>1, <2>2, SendsWire, SMTT(30)
    <3>2. stream'[Len(Wire) + 1] = Unit(f, 0) /\ Len(Wire) + 1 \in 1..Len(stream')
      BY <1>1, <3>1, SendsWire, WireAt DEF WireIs
    <3> QED
      BY <3>2 DEF Range, TypeOK
  <2> QED
    BY <2>1, <2>2 DEF Closing
<1>2. ASSUME ClientSendsMore PROVE Closing' <=> Closing
  <2>1. /\ sent' = sent /\ Len(stream') = Len(stream) + 1 /\ Len(stream) \in Nat
        /\ \A i \in 1..Len(stream) : stream'[i] = stream[i]
        /\ stream'[Len(stream) + 1] = rest[1] /\ rest[1].unit > 0
    BY <1>2, MoreWire DEF Arriving
  <2>2. DOMAIN stream = 1..Len(stream) /\ DOMAIN stream' = 1..Len(stream')
    BY DEF TypeOK
  <2>3. ASSUME NEW f PROVE Unit(f, 0) \in Range(stream) <=> Unit(f, 0) \in Range(stream')
    <3>1. ASSUME NEW i \in 1..Len(stream'), stream'[i] = Unit(f, 0)
          PROVE  i \in 1..Len(stream) /\ stream[i] = Unit(f, 0)
      <4>1. i # Len(stream) + 1
        BY <2>1, <3>1, UnitOf
      <4> QED
        BY <2>1, <3>1, <4>1
    <3>2. ASSUME NEW i \in 1..Len(stream), stream[i] = Unit(f, 0)
          PROVE  i \in 1..Len(stream') /\ stream'[i] = Unit(f, 0)
      BY <2>1, <3>2
    <3> QED
      BY <2>2, <3>1, <3>2 DEF Range
  <2> QED
    BY <2>1, <2>3 DEF Closing
<1>3. ASSUME ClientCloses PROVE Closing' <=> Closing
  BY <1>3, ClosesWire DEF Closing
<1>4. ASSUME Still PROVE Closing' <=> Closing
  BY <1>4, StillSame
<1>5. ASSUME NEW r, Dropped(r), Closing PROVE Closing'
  BY <1>5, DropClosing
<1>6. ASSUME HeaderOfClose PROVE Closing'
  <2> DEFINE f == Head(stream).frame
  <2>1. /\ stream # <<>> /\ stream' = Tail(stream) /\ sent' = sent
        /\ Head(stream).unit = 0 /\ sent[f].op = "close"
    BY <1>6 DEF HeaderOfClose, NextHeader, client
  <2>2. f \in 1..Len(sent) /\ stream[1] = Unit(f, 0) /\ 1 \in 1..Len(Wire) /\ Wire[1] = stream[1]
    BY <2>1, FirstSent, UnitOf
  <2>3. /\ Len(stream') = Len(stream) - 1 /\ \A i \in 1..Len(stream') : stream'[i] = stream[i + 1]
        /\ Len(stream) \in Nat \ {0} /\ DOMAIN stream' = 1..Len(stream')
    BY <2>1 DEF TypeOK
  <2>4. ASSUME Unit(f, 0) \in Range(stream') PROVE FALSE
    <3>1. PICK i \in 1..Len(stream') : stream'[i] = Unit(f, 0)
      BY <2>3, <2>4 DEF Range
    <3>2. i + 1 \in 1..Len(stream) /\ stream[i + 1] = Unit(f, 0)
      BY <2>3, <3>1
    <3>3. i + 1 \in 1..Len(Wire) /\ Wire[i + 1] = Wire[1] /\ i \in Nat \ {0}
      BY <2>2, <2>3, <3>2, WireAt DEF WireIs
    <3> QED
      BY <2>2, <3>3, OnceEach
  <2> QED
    BY <2>1, <2>2, <2>4 DEF Closing
<1>7. ASSUME HeaderOfData \/ HeaderOfPing, Closing' PROVE Closing
  <2>1. /\ stream # <<>> /\ stream' = Tail(stream) /\ UNCHANGED <<sent, rest, eof>>
        /\ sent[Head(stream).frame].op # "close"
    BY <1>7 DEF HeaderOfData, HeaderOfPing, NextHeader, client
  <2>2. Dropped(1) /\ \A i \in 1..1 : sent[stream[i].frame].op # "close"
    BY <2>1, Drops, FirstSent
  <2> QED
    BY <1>7, <2>2, DropClosing
<1>8. ASSUME CloseStatus PROVE Closing
  BY <1>8 DEF CloseStatus, Arriving
<1>9. ASSUME ReadPayload, Closing', NEW p \in Places, At(p) PROVE Closing
  <2>1. PICK r \in 0..Len(stream) : r <= left /\ Dropped(r) /\ r \in Nat
    BY <1>9, ReadsPiece
  <2>2. /\ \A i \in 1..r : stream[i] = Unit(p.frame, p.unit + (i - 1))
        /\ p.unit \in Nat
        /\ r > 0 => p.unit > 0
    BY <1>9, <2>1, PieceAt, PlaceOf
  <2>3. \A i \in 1..r : stream[i].unit # 0
    BY <2>1, <2>2, UnitOf
  <2> QED
    BY <1>9, <2>1, <2>3, DropClosing
<1>10. ASSUME Still \/ \E r \in 0..Len(stream) : Dropped(r)
       PROVE  Closing => Closing'
  BY <1>4, <1>5, <1>10
<1>11. ASSUME ~Closing, Closing', NEW p \in Places, At(p) PROVE HeaderOfClose
  <2>1. ~Still /\ ~ClientSendsMore /\ ~ClientCloses /\ ~HeaderOfData /\ ~HeaderOfPing
        /\ ~CloseStatus /\ ~ReadPayload
        /\ \A frame \in Frames : ~ClientSends(frame)
    BY <1>1, <1>2, <1>3, <1>4, <1>7, <1>8, <1>9, <1>11
  <2> USE DEF Still, client, websocket
  <2>2. /\ ~(\E request \in Requests : Handshake(request)) /\ ~Free /\ ~HeaderUnread /\ ~ReadStart
        /\ ~ReturnToHandler /\ ~ReturnToPing /\ ~Poll /\ ~HandlerStops /\ ~UNCHANGED vars
        /\ ~PayloadFails /\ ~(\E n \in ReadSizes : HandlerReads(n))
        /\ ~(\E more \in BOOLEAN : HandlerReturns(more))
    BY ONLY <2>1 DEF Handshake, Free, HeaderUnread, ReadStart, ReturnToHandler, ReturnToPing, Poll,
       PayloadFails, HandlerStops, vars, HandlerReads, HandlerReturns, Still
  <2> QED
    BY ONLY <2>1, <2>2, [Next]_vars DEF Next, Server, Closed
<1> QED
  BY <1>1, <1>2, <1>3, <1>6, <1>10, <1>11, ServerReads

\* Nothing has happened before the handshake, and nothing undoes it.
LEMMA NewStep ==
  ASSUME [Next]_vars, pc' = "new"
  PROVE  pc = "new" /\ UNCHANGED <<sent, taken, out>>
<1> USE DEF client, websocket
<1>1. ASSUME NEW frame \in Frames, ClientSends(frame) PROVE FALSE
  BY <1>1 DEF ClientSends
<1>2. CASE ClientSendsMore \/ ClientCloses \/ HandlerStops \/ UNCHANGED vars
  BY <1>2 DEF ClientSendsMore, ClientCloses, HandlerStops, vars
<1>3. ASSUME NEW request \in Requests, Handshake(request) PROVE FALSE
  BY <1>3 DEF Handshake
<1>4. ASSUME Free \/ HeaderUnread \/ ReadStart \/ ReturnToHandler \/ ReturnToPing \/ Poll
               \/ HeaderOfData \/ HeaderOfPing \/ HeaderOfClose \/ CloseStatus \/ ReadPayload
               \/ PayloadFails
      PROVE  FALSE
  BY <1>4 DEF Free, HeaderUnread, ReadStart, ReturnToHandler, ReturnToPing, Poll, HeaderOfData,
     HeaderOfPing, HeaderOfClose, CloseStatus, ReadPayload, PayloadFails,
     HeaderDone, HeaderFails, StartRead
<1>5. ASSUME NEW n \in ReadSizes, HandlerReads(n) PROVE FALSE
  BY <1>5 DEF HandlerReads, StartRead
<1>6. ASSUME NEW more \in BOOLEAN, HandlerReturns(more) PROVE FALSE
  BY <1>6 DEF HandlerReturns
<1> QED
  BY ONLY <1>1, <1>2, <1>3, <1>4, <1>5, <1>6, [Next]_vars DEF Next, Server, Closed

\* The status of a close frame is read after its header, or after a ping's answer that took
\* its opcode from that header.
LEMMA CloseStep ==
  ASSUME [Next]_vars, pc' = "close"
  PROVE  pc = "close" \/ HeaderOfClose \/ (ReturnToPing /\ opcode = "close")
<1>1. ASSUME NEW frame \in Frames, ClientSends(frame) PROVE pc = "close"
  BY <1>1 DEF ClientSends
<1>2. CASE ClientSendsMore \/ ClientCloses \/ HandlerStops \/ UNCHANGED vars
  BY <1>2 DEF ClientSendsMore, ClientCloses, HandlerStops, vars
<1>3. ASSUME NEW request \in Requests, Handshake(request) PROVE FALSE
  BY <1>3 DEF Handshake
<1>4. ASSUME Free \/ HeaderUnread \/ ReadStart \/ ReturnToHandler \/ Poll
               \/ HeaderOfData \/ HeaderOfPing \/ CloseStatus \/ ReadPayload
               \/ PayloadFails
      PROVE  FALSE
  BY <1>4 DEF Free, HeaderUnread, ReadStart, ReturnToHandler, Poll, HeaderOfData,
     HeaderOfPing, CloseStatus, ReadPayload, PayloadFails,
     HeaderDone, HeaderFails, StartRead
<1>5. ASSUME NEW n \in ReadSizes, HandlerReads(n) PROVE FALSE
  BY <1>5 DEF HandlerReads, StartRead
<1>6. ASSUME NEW more \in BOOLEAN, HandlerReturns(more) PROVE FALSE
  BY <1>6 DEF HandlerReturns
<1>7. ASSUME ReturnToPing PROVE opcode = "close"
  BY <1>7 DEF ReturnToPing
<1> QED
  BY ONLY <1>1, <1>2, <1>3, <1>4, <1>5, <1>6, <1>7, [Next]_vars DEF Next, Server, Closed

\* What has arrived and what has not, when the step ends.
LEMMA ArrivingStep ==
  ASSUME Answerable, TypeOK, TypeOK', Sound, InFrames, Arriving, Stacked, [Next]_vars,
         Closing => Shut, ~Closing => Open
  PROVE  Arriving'
<1> USE Lists
<1>1. ASSUME pc' = "new" PROVE sent' = <<>> /\ taken' = <<>> /\ out' = <<>>
  BY <1>1, NewStep DEF Arriving
<1>2. ASSUME pc' = "close" PROVE Closing'
  <2>1. ~(ReturnToPing /\ opcode = "close")
    <3>1. ASSUME ReturnToPing PROVE pc = "return" /\ Pinged
      BY <3>1 DEF ReturnToPing, Stacked, Pinged
    <3>2. CASE Closing
      BY <3>1, <3>2 DEF Shut
    <3>3. CASE ~Closing
      <4>1. PICK p \in Places : Asking(p)
        BY <3>3 DEF Open
      <4> QED
        BY <3>1, <4>1 DEF Asking
    <3> QED
      BY <3>2, <3>3
  <2> QED
    BY <1>2, <2>1, CloseStep, ClosingStep DEF Arriving
<1>3. ASSUME UNCHANGED <<sent, rest, eof>> PROVE Arriving'
  BY <1>1, <1>2, <1>3 DEF Arriving
<1>4. ASSUME NEW frame \in Frames, ClientSends(frame) PROVE Arriving'
  <2>1. /\ Len(sent') = Len(sent) + 1 /\ \A f \in 1..Len(sent) : sent'[f] = sent[f]
        /\ sent'[Len(sent) + 1] = frame /\ ~eof'
    BY <1>4, SendsWire
  <2> DEFINE payload == [i \in 1..frame.length |-> Unit(Len(sent) + 1, i)]
  <2>2. /\ rest' = <<>> \/ (rest' = payload /\ ~(WholePings /\ frame.op = "ping"))
        /\ \A f \in 1..Len(sent) : sent[f].op # "close"
    BY <1>4 DEF ClientSends
  <2>3. /\ Len(payload) = frame.length /\ frame.length \in Nat
        /\ \A i \in 1..frame.length :
             payload[i].frame = Len(sent) + 1 /\ payload[i].unit = i
    BY <1>4, SendsWire, UnitOf
  <2> HIDE DEF payload
  <2>4. \A i \in 1..Len(rest') : rest'[i].frame = Len(sent') /\ rest'[i].unit > 0
    BY <2>1, <2>2, <2>3
  <2>5. rest' # <<>> => ~eof' /\ sent'[Len(sent')].op # "ping"
    BY <2>1, <2>2 DEF Answerable
  <2>6. \A f \in 1..Len(sent') : sent'[f].op = "close" => f = Len(sent')
    BY <2>1, <2>2
  <2> QED
    BY <1>1, <1>2, <2>4, <2>5, <2>6 DEF Arriving
<1>5. ASSUME ClientSendsMore PROVE Arriving'
  <2>1. /\ sent' = sent /\ eof' = eof /\ rest # <<>>
        /\ Len(rest') = Len(rest) - 1 /\ \A i \in 1..Len(rest') : rest'[i] = rest[i + 1]
    BY <1>5, MoreWire
  <2>2. \A i \in 1..Len(rest') : i + 1 \in 1..Len(rest)
    BY <2>1
  <2> QED
    BY <1>1, <1>2, <2>1, <2>2 DEF Arriving
<1>6. ASSUME ClientCloses PROVE Arriving'
  BY <1>1, <1>2, <1>6, ClosesWire DEF Arriving
<1> QED
  BY <1>3, <1>4, <1>5, <1>6, ServerReads DEF Still, Dropped
-----------------------------------------------------------------------------
(* The calls *)

\* Whose they are.
LEMMA Stack ==
  ASSUME TypeOK, Stacked
  PROVE  /\ Len(calls) \in {0, 1, 2} /\ (calls = <<>> <=> Len(calls) = 0)
         /\ calls # <<>> => /\ Top = calls[Len(calls)] /\ Top.for \in {"handler", "ping"}
                            /\ Top.payload \in Seq(Units) /\ Top.want \in Nat
         /\ Pinged => calls # <<>> /\ Top.for = "ping" /\ pc \in {"read", "payload", "return"}
         /\ calls # <<>> /\ ~Pinged => Len(calls) = 1 /\ Top.for = "handler" /\ calls[1] = Top
         /\ Len(calls) = 2 => calls[1].for = "handler" /\ Pinged
         /\ calls # <<>> => calls[1].payload \in Seq(Units)
<1> DEFINE n == Len(calls)
<1>0. calls \in Seq(Call) /\ n \in Nat /\ n <= 2
  BY DEF Stacked, TypeOK, Call
<1>1. n \in {0, 1, 2} /\ (calls = <<>> <=> n = 0)
  <2>1. calls = <<>> <=> n = 0
    BY <1>0
  <2> HIDE DEF n
  <2>2. n \in {0, 1, 2}
    BY ONLY <1>0
  <2> QED
    BY <2>1, <2>2
<1>2. ASSUME calls # <<>>
      PROVE  /\ Top = calls[Len(calls)] /\ Top.for \in {"handler", "ping"}
             /\ Top.payload \in Seq(Units) /\ Top.want \in Nat /\ calls[1].payload \in Seq(Units)
  <2>1. Top \in Call /\ Top = calls[Len(calls)]
    BY <1>2, TopOf
  <2>2. calls[1] \in Call
    BY <1>0, <1>1, <1>2
  <2> QED
    BY <2>1, <2>2 DEF Call
<1>3. Len(calls) = 2 => calls[1].for = "handler" /\ Pinged
  BY <1>1, <1>2 DEF Stacked, Pinged
<1>4. calls # <<>> /\ ~Pinged => Len(calls) = 1 /\ Top.for = "handler" /\ calls[1] = Top
  BY <1>1, <1>2, <1>3 DEF Pinged
<1>5. Pinged => calls # <<>> /\ Top.for = "ping" /\ pc \in {"read", "payload", "return"}
  BY DEF Pinged, Stacked
<1> QED
  BY <1>1, <1>2, <1>3, <1>4, <1>5

\* A call more.
LEMMA Pushes ==
  ASSUME TypeOK, Stacked, ~Pinged, NEW for, NEW n, StartRead(for, n)
  PROVE  /\ calls' # <<>> /\ Len(calls') = Len(calls) + 1 /\ pc' = "read"
         /\ Top' = [for |-> for, want |-> n, payload |-> <<>>, last |-> NoLevel, status |-> 0]
         /\ calls'[Len(calls) + 1] = Top'
         /\ calls # <<>> => calls'[1] = calls[1]
<1> DEFINE new == [for |-> for, want |-> n, payload |-> <<>>, last |-> NoLevel, status |-> 0]
<1>1. calls' = Append(calls, new) /\ pc' = "read"
  BY DEF StartRead
<1> HIDE DEF new
<1>2. calls \in Seq(Call) /\ Len(calls) \in Nat
  BY DEF TypeOK, Call
<1>3. /\ calls' # <<>> /\ Len(calls') = Len(calls) + 1 /\ calls'[Len(calls) + 1] = new
      /\ \A i \in 1..Len(calls) : calls'[i] = calls[i]
  BY ONLY <1>1, <1>2
<1>4. calls # <<>> => 1 \in 1..Len(calls)
  BY <1>2
<1> QED
  BY <1>1, <1>3, <1>4 DEF Top, Last, new

\* A call less.
LEMMA Pops ==
  ASSUME TypeOK, Stacked, calls # <<>>, calls' = Front(calls)
  PROVE  /\ Len(calls) = 1 => calls' = <<>> /\ Len(calls') = 0
         /\ Len(calls) = 2 => /\ calls' # <<>> /\ Len(calls') = 1 /\ calls'[1] = calls[1]
                              /\ Top' = calls[1] /\ calls[1].for = "handler"
<1>1. /\ Front(calls) \in Seq(Call) /\ Len(Front(calls)) = Len(calls) - 1
      /\ \A i \in 1..Len(calls)-1 : Front(calls)[i] = calls[i]
  BY TopOf
<1>2. CASE Len(calls) = 1
  BY <1>1, <1>2
<1>3. CASE Len(calls) = 2
  <2>1. calls' # <<>> /\ Len(calls') = 1 /\ calls'[1] = calls[1]
    BY <1>1, <1>3
  <2> QED
    BY <1>3, <2>1 DEF Top, Last, Stacked
<1> QED
  BY <1>2, <1>3

\* A header that cannot be read.
LEMMA FailsKeeps ==
  ASSUME TypeOK, Stacked, ~Pinged, HeaderFails
  PROVE  /\ Len(calls') = Len(calls) /\ ~Pinged' /\ pc' \in {"closed", "return"}
         /\ calls = <<>> => calls' = <<>> /\ pc' = "closed"
         /\ calls # <<>> => /\ calls' # <<>> /\ pc' = "return"
                            /\ calls'[1].for = calls[1].for
                            /\ calls'[1].payload = calls[1].payload
<1>1. CASE calls = <<>>
  BY <1>1 DEF HeaderFails, Pinged
<1>2. CASE calls # <<>>
  <2>1. pc' = "return" /\ calls' = [calls EXCEPT ![Len(calls)].status = 2]
    BY <1>2 DEF HeaderFails
  <2>2. /\ Len(calls') = Len(calls) /\ calls' # <<>> /\ Top'.for = Top.for
        /\ \A i \in 1..Len(calls) :
             calls'[i].for = calls[i].for /\ calls'[i].payload = calls[i].payload
    BY <1>2, <2>1, CallsOf
  <2>3. 1 \in 1..Len(calls)
    BY <1>2, Stack
  <2> QED
    BY <1>2, <2>1, <2>2, <2>3 DEF Pinged
<1> QED
  BY <1>1, <1>2

\* Who reads, after any step.
LEMMA StackedStep ==
  ASSUME TypeOK, TypeOK', Sound, InFrames, Arriving, Stacked, ~PayloadFails, [Next]_vars,
         Closing => Shut, ~Closing => Open
  PROVE  Stacked'
<1> USE DEF client, websocket
<1>1. ASSUME UNCHANGED calls, UNCHANGED pc PROVE Stacked'
  BY <1>1 DEF Stacked, Pinged, Top
<1>2. ASSUME UNCHANGED calls, ~Pinged,
             calls = <<>> \/ pc' \notin {"new", "poll", "callback", "closed", "freed"},
             calls # <<>> \/ pc' \notin {"read", "payload", "return"}
      PROVE  Stacked'
  BY <1>2 DEF Stacked, Pinged, Top
<1>3. pc \in {"new", "poll", "callback", "closed", "freed"} => calls = <<>> /\ ~Pinged
  BY DEF Stacked, Pinged
<1>4. pc \in {"header", "close"} => ~Pinged
  BY DEF Stacked
<1>5. ASSUME NEW frame \in Frames, ClientSends(frame) PROVE Stacked'
  BY <1>1, <1>5 DEF ClientSends
<1>6. CASE ClientSendsMore \/ ClientCloses \/ HandlerStops \/ UNCHANGED vars
  BY <1>1, <1>6 DEF ClientSendsMore, ClientCloses, HandlerStops, vars
<1>7. ASSUME NEW request \in Requests, Handshake(request) PROVE Stacked'
  BY <1>2, <1>3, <1>7 DEF Handshake
<1>8. CASE Free
  BY <1>2, <1>3, <1>8 DEF Free
<1>9. CASE HeaderOfData
  BY <1>2, <1>4, <1>9 DEF HeaderOfData, NextHeader, HeaderDone
<1>10. CASE HeaderOfPing
  <2>1. ~Pinged /\ pc = "header" /\ StartRead("ping", left')
    BY <1>4, <1>10 DEF HeaderOfPing, NextHeader
  <2> DEFINE call == [for |-> "ping", want |-> left', payload |-> <<>>,
                      last |-> NoLevel, status |-> 0]
  <2>3. /\ calls' # <<>> /\ Len(calls') = Len(calls) + 1 /\ pc' = "read"
        /\ calls'[Len(calls) + 1] = call
        /\ calls # <<>> => calls'[1] = calls[1]
    BY <2>1, Pushes
  <2>2. /\ calls' # <<>> /\ Len(calls') = Len(calls) + 1 /\ pc' = "read"
        /\ calls'[Len(calls) + 1].for = "ping"
        /\ calls # <<>> => calls'[1] = calls[1]
    BY <2>3
  <2> QED
    BY <2>1, <2>2, Stack DEF Stacked
<1>11. CASE HeaderOfClose
  BY <1>2, <1>4, <1>11 DEF HeaderOfClose, NextHeader
<1>21. ASSUME HeaderFails, ~Pinged PROVE Stacked'
  <2>1. /\ Len(calls') = Len(calls) /\ ~Pinged' /\ pc' \in {"closed", "return"}
        /\ calls = <<>> => calls' = <<>> /\ pc' = "closed"
        /\ calls # <<>> => calls' # <<>> /\ pc' = "return"
    BY <1>21, FailsKeeps
  <2>2. Len(calls) <= 1
    BY <1>21, Stack
  <2> QED
    BY <2>1, <2>2 DEF Stacked
<1>12. CASE HeaderUnread
  BY <1>4, <1>12, <1>21 DEF HeaderUnread
<1>13. CASE CloseStatus
  BY <1>4, <1>13, <1>21 DEF CloseStatus
<1>14. CASE ReadStart
  <2>1. /\ pc = "read" /\ calls # <<>> /\ UNCHANGED calls
        /\ pc' = IF left = 0 THEN "header" ELSE "payload"
    BY <1>14 DEF ReadStart, Stacked
  <2>2. CASE Pinged
    <3>1. left # 0
      <4>1. PICK p \in Places : At(p) /\ Asking(p)
        BY <2>2 DEF Shut, Open
      <4>2. p.unit = 1
        BY <2>1, <2>2, <4>1 DEF Asking
      <4> QED
        BY <4>1, <4>2, Lists DEF At
    <3> QED
      BY <2>1, <3>1 DEF Stacked, Pinged, Top
  <2>3. CASE ~Pinged
    BY <1>2, <2>1, <2>3
  <2> QED
    BY <2>2, <2>3
<1>15. CASE ReadPayload
  <2>1. /\ Len(calls') = Len(calls) /\ Len(calls) \in Nat \ {0} /\ calls' # <<>> /\ calls # <<>>
        /\ Top' = calls'[Len(calls)] /\ Top = calls[Len(calls)] /\ Top'.for = Top.for
        /\ \A i \in 1..Len(calls) - 1 : calls'[i] = calls[i]
        /\ pc' \in {"read", "return"}
    BY <1>15, ReadsPiece
  <2> QED
    BY <2>1 DEF Stacked
<1>16. CASE ReturnToHandler
  <2>1. calls # <<>> /\ ~Pinged /\ calls' = Front(calls) /\ pc' = "callback"
    BY <1>16 DEF ReturnToHandler, Stacked, Pinged
  <2>2. calls' = <<>> /\ Len(calls') = 0
    BY <2>1, Stack, Pops
  <2> QED
    BY <2>1, <2>2 DEF Stacked, Pinged
<1>17. CASE ReturnToPing
  <2>1. calls # <<>> /\ calls' = Front(calls)
    BY <1>17 DEF ReturnToPing, Stacked
  <2>2. /\ pc' \in {"close", "callback", "payload"}
        /\ (pc' = "callback" <=> opcode # "close" /\ Len(calls) = 1)
        /\ (pc' = "payload" => Len(calls) # 1)
    BY <1>17 DEF ReturnToPing
  <2>3. CASE Len(calls) = 1
    <3>1. calls' = <<>> /\ Len(calls') = 0
      BY <2>1, <2>3, Pops
    <3> QED
      BY <2>2, <2>3, <3>1 DEF Stacked, Pinged
  <2>4. CASE Len(calls) = 2
    <3>1. /\ calls' # <<>> /\ Len(calls') = 1 /\ Top' = calls[1] /\ calls[1].for = "handler"
      BY <2>1, <2>4, Pops
    <3> QED
      BY <2>2, <2>4, <3>1 DEF Stacked, Pinged
  <2> QED
    BY <2>1, <2>3, <2>4, Stack
<1>18. CASE Poll
  BY <1>2, <1>3, <1>18 DEF Poll
<1>19. ASSUME NEW n \in ReadSizes, HandlerReads(n) PROVE Stacked'
  <2>1. calls = <<>> /\ ~Pinged /\ StartRead("handler", n)
    BY <1>3, <1>19 DEF HandlerReads
  <2>2. /\ calls' # <<>> /\ Len(calls') = Len(calls) + 1 /\ pc' = "read"
        /\ Len(calls) = 0
    BY <2>1, Pushes, Stack
  <2> QED
    BY <2>2 DEF Stacked
<1>20. ASSUME NEW more \in BOOLEAN, HandlerReturns(more) PROVE Stacked'
  BY <1>2, <1>3, <1>20 DEF HandlerReturns
<1> QED
  BY ONLY <1>5, <1>6, <1>7, <1>8, <1>9, <1>10, <1>11, <1>12, <1>13, <1>14, <1>15, <1>16, <1>17,
     <1>18, <1>19, <1>20, ~PayloadFails, [Next]_vars DEF Next, Server, Closed
-----------------------------------------------------------------------------
(* Until a close frame has been read: steps that leave the stream alone *)

\* Pings have payload, and so are told apart by it.
LEMMA PongOnce ==
  ASSUME Answerable, TypeOK, NEW f \in Pings, NEW g \in Pings, Pong(f) = Pong(g)
  PROVE  f = g
<1>1. f \in 1..Len(sent) /\ g \in 1..Len(sent) /\ sent[f].op = "ping" /\ sent[g].op = "ping"
  BY DEF Pings
<1>2. sent[f].length > 0 /\ sent[g].length > 0 /\ sent[f].length \in Nat /\ sent[g].length \in Nat
  <2>1. /\ sent[f].length \in Nat /\ sent[f].length # 0
        /\ sent[g].length \in Nat /\ sent[g].length # 0
    BY <1>1, FrameOf DEF Answerable
  <2> QED
    BY <2>1
<1>3. Payload(f) = Payload(g)
  BY DEF Pong
<1>4. Payload(f)[1] = Unit(f, 1) /\ Payload(g)[1] = Unit(g, 1)
  BY <1>1, <1>2, FrameOf
<1> QED
  BY <1>3, <1>4, UnitOf

\* Where p is does not change with a step that leaves the stream and data_left alone.
LEMMA AtStill ==
  ASSUME Still, left' = left, NEW p, At(p), Pinged => Pinged' \/ ~(p.unit > 0),
         pc' = "header" => p.unit = 0
  PROVE  At(p)'
<1>1. Wire' = Wire /\ sent' = sent /\ eof' = eof
  BY StillSame DEF Still
<1> QED
  BY <1>1 DEF At

\* Nor what the handler has, if that is the same,
LEMMA GotStill ==
  ASSUME Still, Got' = Got, NEW p, GotAll(p)
  PROVE  GotAll(p)'
<1>1. DataUnits' = DataUnits
  BY StillSame
<1> QED
  BY <1>1 DEF GotAll, InOrder

\* nor what pings are answered.
LEMMA AnsweredStill ==
  ASSUME Still, out' = out, NEW p, AnsweredAll(p),
         Pinged /\ pc = "return" <=> Pinged' /\ pc' = "return"
  PROVE  AnsweredAll(p)'
<1>1. Pings' = Pings /\ \A f : Pong(f)' = Pong(f)
  BY StillSame
<1> QED
  BY <1>1 DEF AnsweredAll

\* The handler's read under way, when there is none for a ping.
LEMMA GotOf ==
  ASSUME TypeOK, Stacked
  PROVE  /\ Got \in Seq(Units)
         /\ calls = <<>> => Got = taken
         /\ calls # <<>> /\ ~Pinged => Got = taken \o Top.payload
         /\ Pinged => Got = IF Len(calls) = 2 THEN taken \o calls[1].payload ELSE taken
<1>1. taken \in Seq(Units) /\ taken \o <<>> = taken
  BY DEF TypeOK
<1>2. \A s \in Seq(Units) : taken \o s \in Seq(Units)
  BY <1>1
<1>3. calls = <<>> => Got = taken
  BY <1>1 DEF Got
<1>4. calls # <<>> /\ ~Pinged => Got = taken \o Top.payload
  BY Stack DEF Got
<1>5. Pinged => Got = IF Len(calls) = 2 THEN taken \o calls[1].payload ELSE taken
  <2>1. CASE Len(calls) = 2
    BY <2>1, Stack DEF Got
  <2>2. ASSUME Len(calls) # 2, Pinged PROVE calls # <<>> /\ calls[1].for = "ping"
    BY <2>2, Stack
  <2> QED
    BY <1>1, <2>1, <2>2 DEF Got
<1>6. Got \in Seq(Units)
  BY <1>1, <1>2, <1>3, <1>4, <1>5, Stack
<1> QED
  BY <1>3, <1>4, <1>5, <1>6

\* Steps that leave the calls alone, too.
LEMMA QuietOpen ==
  ASSUME TypeOK, Stacked, Still, UNCHANGED <<left, opcode, calls, out, taken>>,
         NEW p \in Places, At(p), GotAll(p), Asking(p), AnsweredAll(p),
         pc' = "header" => pc = "header" \/ left = 0,
         Pinged => pc' = pc \/ (pc = "read" /\ pc' = "payload")
  PROVE  Open'
<1>1. p \in Places' /\ (Pinged' <=> Pinged) /\ Got' = Got /\ Top' = Top
  BY StillSame DEF Pinged, Top, Got
<1>2. left = 0 => p.unit = 0
  BY Lists DEF At
<1>3. At(p)'
  BY <1>1, <1>2, AtStill DEF At
<1>4. GotAll(p)'
  BY <1>1, GotStill
<1>5. Asking(p)'
  BY <1>1, StillSame DEF Asking
<1>6. AnsweredAll(p)'
  BY <1>1, AnsweredStill
<1> QED
  BY <1>1, <1>3, <1>4, <1>5, <1>6 DEF Open

\* The handler reads.
LEMMA HandlerReadsOpen ==
  ASSUME TypeOK, TypeOK', Stacked, Stacked', NEW n \in ReadSizes, HandlerReads(n),
         NEW p \in Places, At(p), GotAll(p), Asking(p), AnsweredAll(p)
  PROVE  Open'
<1>1. /\ calls = <<>> /\ ~Pinged /\ StartRead("handler", n) /\ Still
      /\ UNCHANGED <<left, out, taken>>
  BY DEF HandlerReads, Stacked, Pinged, Still, client, websocket
<1> DEFINE call == [for |-> "handler", want |-> n, payload |-> <<>>,
                    last |-> NoLevel, status |-> 0]
<1>2. calls' # <<>> /\ Top' = call /\ pc' = "read"
  BY <1>1, Pushes
<1>3. ~Pinged' /\ Top'.payload = <<>>
  BY <1>2 DEF Pinged
<1>4. Got' = Got
  <2>1. (calls # <<>> /\ ~Pinged => Got = taken \o Top.payload)'
    <3>1. (TypeOK /\ Stacked => (calls # <<>> /\ ~Pinged => Got = taken \o Top.payload))'
      BY GotOf, PTL
    <3> QED
      BY <3>1
  <2>2. taken \o <<>> = taken
    BY DEF TypeOK
  <2> QED
    BY <1>1, <1>2, <1>3, <2>1, <2>2, GotOf
<1> QED
  BY <1>1, <1>2, <1>3, <1>4, AtStill, GotStill, AnsweredStill, StillSame DEF Open, Asking

\* The same, of the next state.
LEMMA GotOfNext ==
  ASSUME TypeOK', Stacked'
  PROVE  /\ (calls = <<>> => Got = taken)'
         /\ (calls # <<>> /\ ~Pinged => Got = taken \o Top.payload)'
         /\ (Pinged => Got = IF Len(calls) = 2 THEN taken \o calls[1].payload ELSE taken)'
<1>1. (TypeOK /\ Stacked =>
         /\ calls = <<>> => Got = taken
         /\ calls # <<>> /\ ~Pinged => Got = taken \o Top.payload
         /\ Pinged => Got = IF Len(calls) = 2 THEN taken \o calls[1].payload ELSE taken)'
  BY GotOf, PTL
<1> QED
  BY <1>1

\* A header cannot be read: what is to be read next is still a header.
LEMMA HeaderUnreadOpen ==
  ASSUME TypeOK, TypeOK', Stacked, Stacked', HeaderUnread,
         NEW p \in Places, At(p), GotAll(p), Asking(p), AnsweredAll(p)
  PROVE  Open'
<1>1. /\ HeaderFails /\ pc = "header" /\ Still /\ UNCHANGED <<left, out, taken>>
  BY DEF HeaderUnread, Still, client
<1>2. ~Pinged /\ p.unit = 0
  BY <1>1 DEF Stacked, At
<1>3. /\ Len(calls') = Len(calls) /\ ~Pinged' /\ pc' # "header"
      /\ calls = <<>> => calls' = <<>>
      /\ calls # <<>> => /\ calls' # <<>>
                         /\ calls'[1].for = calls[1].for /\ calls'[1].payload = calls[1].payload
  BY <1>1, <1>2, FailsKeeps
<1>4. Got' = Got
  BY <1>1, <1>3 DEF Got
<1>5. At(p)'
  BY <1>1, <1>2, <1>3, AtStill
<1>6. GotAll(p)'
  BY <1>1, <1>4, GotStill
<1>7. AnsweredAll(p)'
  BY <1>1, <1>2, <1>3, AnsweredStill
<1> QED
  BY <1>1, <1>3, <1>5, <1>6, <1>7, StillSame DEF Open, Asking

\* The handler's read returns.
LEMMA ReturnToHandlerOpen ==
  ASSUME TypeOK, TypeOK', Stacked, Stacked', ReturnToHandler,
         NEW p \in Places, At(p), GotAll(p), Asking(p), AnsweredAll(p)
  PROVE  Open'
<1>1. /\ pc = "return" /\ Top.for = "handler" /\ taken' = taken \o Top.payload
      /\ calls' = Front(calls) /\ pc' = "callback" /\ calls # <<>> /\ ~Pinged
      /\ UNCHANGED <<left, out>> /\ Still
  BY DEF ReturnToHandler, Stacked, Pinged, Still, client, websocket
<1>2. calls' = <<>>
  BY <1>1, Stack, Pops
<1>3. ~Pinged' /\ Got' = Got
  BY <1>1, <1>2, GotOf, GotOfNext DEF Pinged
<1> QED
  BY <1>1, <1>3, AtStill, GotStill, AnsweredStill, StillSame DEF Open, Asking

\* The answer to a ping is sent.
LEMMA ReturnToPingOpen ==
  ASSUME Answerable, TypeOK, TypeOK', Stacked, Stacked', PongsInOrder, ReturnToPing,
         NEW p \in Places, At(p), GotAll(p), Asking(p), AnsweredAll(p)
  PROVE  PongsInOrder' /\ Open'
<1> DEFINE f == p.frame - 1
<1>1. /\ pc = "return" /\ Top.for = "ping" /\ calls' = Front(calls) /\ calls # <<>> /\ Pinged
      /\ UNCHANGED <<left, taken>> /\ Still
  BY DEF ReturnToPing, Stacked, Pinged, Still, client, websocket
<1>2. /\ opcode = "pong" /\ p.unit = 0 /\ f \in Pings /\ Top.payload = Payload(f)
      /\ Top.status = 0
  BY <1>1 DEF Asking
<1>13. out' = Append(out, Pong(f))
  <2>1. Top.payload \in Seq(Units) /\ Len(Top.payload) \in Nat
    BY <1>1, Stack
  <2>2. Result(Top) = Len(Top.payload) /\ ~(Len(Top.payload) < Top.status)
    BY <1>2, <2>1 DEF Result
  <2>3. SubSeq(Top.payload, 1, Len(Top.payload)) = Top.payload
    BY <2>1
  <2> QED
    BY <1>2, <2>2, <2>3 DEF ReturnToPing, Pong
<1>3. pc' = IF Len(calls) = 1 THEN "callback" ELSE "payload"
  BY <1>2 DEF ReturnToPing
<1>4. /\ Len(out') = Len(out) + 1 /\ Len(out) \in Nat /\ out'[Len(out) + 1] = Pong(f)
      /\ \A i \in 1..Len(out) : out'[i] = out[i]
  BY <1>13 DEF TypeOK
<1>5. /\ Pings' = Pings /\ \A g : Pong(g)' = Pong(g)
  BY <1>1, StillSame
<1>6. /\ p.frame \in Nat \ {0} /\ Pings \subseteq Nat /\ Len(sent) \in Nat
  BY PlaceOf, Lists DEF Pings
<1>7. ASSUME NEW g \in Pings
      PROVE  (\E i \in 1..Len(out) : out[i] = Pong(g)) <=> g < f
  BY <1>1, <1>7 DEF AnsweredAll
<1>8. ASSUME NEW g \in Pings
      PROVE  (\E i \in 1..Len(out') : out'[i] = Pong(g)) <=> g < p.frame
  <2>1. (\E i \in 1..Len(out') : out'[i] = Pong(g)) <=>
          (\E i \in 1..Len(out) : out[i] = Pong(g)) \/ Pong(f) = Pong(g)
    <3>1. ASSUME NEW i \in 1..Len(out'), out'[i] = Pong(g), Pong(f) # Pong(g)
          PROVE  i \in 1..Len(out) /\ out[i] = Pong(g)
      <4>1. i # Len(out) + 1
        BY <1>4, <3>1
      <4>2. i \in 1..Len(out)
        BY <1>4, <4>1
      <4> QED
        BY <1>4, <3>1, <4>2
    <3>2. ASSUME NEW i \in 1..Len(out), out[i] = Pong(g)
          PROVE  i \in 1..Len(out') /\ out'[i] = Pong(g)
      BY <1>4, <3>2
    <3>3. ASSUME Pong(f) = Pong(g)
          PROVE  Len(out) + 1 \in 1..Len(out') /\ out'[Len(out) + 1] = Pong(g)
      BY <1>4, <3>3
    <3> QED
      BY <3>1, <3>2, <3>3
  <2>2. Pong(f) = Pong(g) <=> f = g
    BY <1>2, PongOnce
  <2>3. g < p.frame <=> g < f \/ f = g
    BY <1>6
  <2> QED
    BY <1>7, <2>1, <2>2, <2>3
<1> HIDE DEF f
<1>9. PongsInOrder'
  <2>1. ASSUME NEW i \in 1..Len(out'), out'[i].op # "close"
        PROVE  \E h \in Pings : /\ out'[i] = Pong(h)
                                /\ \A g \in Pings : g < h <=> \E j \in 1..i-1 : out'[j] = Pong(g)
    <3>1. CASE i \in 1..Len(out)
      <4>1. PICK h \in Pings : /\ out[i] = Pong(h)
                               /\ \A g \in Pings : g < h <=> \E j \in 1..i-1 : out[j] = Pong(g)
        BY <1>4, <2>1, <3>1 DEF PongsInOrder
      <4>2. \A j \in 1..i-1 : out'[j] = out[j]
        BY <1>4, <3>1
      <4> QED
        BY <1>4, <3>1, <4>1, <4>2
    <3>2. CASE i = Len(out) + 1
      <4>1. i - 1 = Len(out)
        BY <1>4, <3>2
      <4>2. \A j \in 1..i-1 : out'[j] = out[j]
        BY <1>4, <4>1
      <4> QED
        BY <1>2, <1>4, <1>7, <3>2, <4>1, <4>2
    <3> QED
      BY <1>4, <3>1, <3>2
  <2> QED
    BY <1>5, <2>1 DEF PongsInOrder
<1>10. ~Pinged' /\ Got' = Got
  <2>1. CASE Len(calls) = 1
    BY <1>1, <2>1, Pops, GotOf, GotOfNext DEF Pinged
  <2>2. CASE Len(calls) = 2
    <3>1. calls' # <<>> /\ Top' = calls[1] /\ calls[1].for = "handler"
      BY <1>1, <2>2, Pops
    <3> QED
      BY <1>1, <2>2, <3>1, GotOf, GotOfNext DEF Pinged
  <2> QED
    BY <1>1, <2>1, <2>2, Stack
<1>11. At(p)'
  BY <1>1, <1>2, <1>3, AtStill
<1>12. AnsweredAll(p)'
  BY <1>5, <1>8, <1>10 DEF AnsweredAll
<1> QED
  BY <1>1, <1>9, <1>10, <1>11, <1>12, GotStill, StillSame DEF Open, Asking
-----------------------------------------------------------------------------
(* Headers *)

\* Which data comes before the header of a frame, its payload and its end.
LEMMA BeforeFrame ==
  ASSUME TypeOK, NEW u \in DataUnits, NEW f \in 1..Len(sent)
  PROVE  /\ Before(u, Unit(f, 1)) <=> Before(u, Unit(f, 0))
         /\ Before(u, Unit(f, sent[f].length + 1)) <=> Before(u, Unit(f + 1, 0))
         /\ sent[f].op \notin {"data", "pong"} =>
              \A i \in Nat : /\ Before(u, Unit(f, i)) <=> Before(u, Unit(f, 0))
                             /\ Before(u, Unit(f, i)) <=> Before(u, Unit(f + 1, 0))
<1>1. /\ u \in Units /\ u.frame \in 1..Len(sent) /\ u.unit \in 1..sent[u.frame].length
      /\ sent[u.frame].op \in {"data", "pong"} /\ u.frame \in Nat /\ u.unit \in Nat \ {0}
  BY DataUnit, UnitOf, FrameOf
<1>2. f \in Nat /\ sent[f].length \in Nat /\ u.frame = f => u.unit <= sent[f].length
  BY <1>1, FrameOf, Lists
<1> DEFINE n == sent[f].length
<1>3. n \in Nat /\ f \in Nat
  BY FrameOf, Lists
<1>4. u.frame = f => u.unit <= n /\ sent[f].op \in {"data", "pong"}
  BY <1>1, <1>3
<1> HIDE DEF n
<1>5. \A i : Before(u, Unit(f, i)) <=> u.frame < f \/ (u.frame = f /\ u.unit < i)
  BY UnitOf DEF Before
<1>6. Before(u, Unit(f + 1, 0)) <=> u.frame < f + 1 \/ (u.frame = f + 1 /\ u.unit < 0)
  BY UnitOf DEF Before
<1>7. Before(u, Unit(f, 1)) <=> Before(u, Unit(f, 0))
  BY ONLY <1>1, <1>3, <1>5
<1>8. Before(u, Unit(f, n + 1)) <=> Before(u, Unit(f + 1, 0))
  BY ONLY <1>1, <1>3, <1>4, <1>5, <1>6
<1>9. ASSUME sent[f].op \notin {"data", "pong"}, NEW i \in Nat
      PROVE  /\ Before(u, Unit(f, i)) <=> Before(u, Unit(f, 0))
             /\ Before(u, Unit(f, i)) <=> Before(u, Unit(f + 1, 0))
  <2>1. u.frame # f
    BY <1>4, <1>9
  <2> QED
    BY ONLY <1>1, <1>3, <1>5, <1>6, <2>1
<1> QED
  BY <1>7, <1>8, <1>9 DEF n

\* The place behind a header.
Behind(f) == IF sent[f].length = 0 THEN Unit(f + 1, 0) ELSE Unit(f, 1)

\* Reading a header moves p behind it, and data_left is what follows.
LEMMA NextHeaderAt ==
  ASSUME TypeOK, TypeOK', InFrames, Arriving, NEW op, NextHeader(op), NEW p \in Places, At(p),
         op = "ping" => 0 \notin PingLengths
  PROVE  LET q == Behind(p.frame)
         IN  /\ p.frame \in 1..Len(sent) /\ p.unit = 0 /\ p = Unit(p.frame, 0)
             /\ p.frame \in Nat \ {0}
             /\ sent[p.frame].op = op /\ Dropped(1) /\ left' = sent[p.frame].length
             /\ stream # <<>> /\ stream[1] = p /\ stream' = Tail(stream)
             /\ op = "ping" => sent[p.frame].length > 0 /\ q = Unit(p.frame, 1)
             /\ q \in Places' /\ q \in Units /\ q.frame \in 1..Len(sent')+1 /\ q.unit \in Nat
             /\ Wire' # <<>> => Wire'[1] = q
             /\ Wire' = <<>> /\ q.frame <= Len(sent') =>
                  eof' /\ q.frame = Len(sent') /\ q.unit > 0 /\ op # "ping"
             /\ q.unit > 0 => q.frame = p.frame
             /\ IF q.unit = 0 THEN left' = 0
                ELSE /\ q.frame <= Len(sent') /\ left' > 0
                     /\ q.unit + left' = sent'[q.frame].length + 1
<1> DEFINE f == p.frame
           n == sent[f].length
           q == Behind(f)
<1>1. /\ stream # <<>> /\ Head(stream).unit = 0 /\ sent[Head(stream).frame].op = op
      /\ stream' = Tail(stream) /\ left' = sent[Head(stream).frame].length
      /\ UNCHANGED <<sent, rest, eof>>
  BY DEF NextHeader, client
<1>2. Dropped(1)
  BY <1>1, Drops
<1>3. /\ Wire # <<>> /\ Len(Wire) \in Nat \ {0} /\ Wire[1] = p /\ stream[1] = p
      /\ Head(stream) = p /\ f \in 1..Len(sent) /\ f \in Nat \ {0} /\ p.unit = 0
      /\ p = Unit(f, 0) /\ n \in Nat /\ Len(sent) \in Nat
      /\ End(1) = 1 + (n - p.unit) /\ End(1) = 1 + n
      /\ f < Len(sent) => End(1) < Len(Wire) /\ Wire[End(1) + 1] = Unit(f + 1, 0)
      /\ f = Len(sent) =>
           IF eof /\ sent[Len(sent)].op # "ping"
             THEN End(1) >= Len(Wire) ELSE End(1) = Len(Wire)
  <2>1. Wire # <<>> /\ Wire[1] = stream[1] /\ Head(stream) = stream[1]
    BY <1>1, FirstSent, WireAt DEF WireIs
  <2>2. p = stream[1] /\ p.unit = 0
    BY <1>1, <2>1 DEF At
  <2>3. p = Unit(f, 0)
    BY <2>2, PlaceOf, UnitOf
  <2>4. /\ Len(Wire) \in Nat \ {0} /\ f \in 1..Len(sent) /\ f \in Nat \ {0} /\ n \in Nat
        /\ End(1) = 1 + (n - p.unit)
        /\ f < Len(sent) => End(1) < Len(Wire) /\ Wire[End(1) + 1] = Unit(f + 1, 0)
        /\ f = Len(sent) =>
             IF eof /\ sent[Len(sent)].op # "ping"
               THEN End(1) >= Len(Wire) ELSE End(1) = Len(Wire)
    BY <2>1, AtFrame
  <2> QED
    BY <2>1, <2>2, <2>3, <2>4, Lists
<1>4. /\ Len(Wire') = Len(Wire) - 1 /\ \A i \in 1..Len(Wire') : Wire'[i] = Wire[i + 1]
      /\ Wire' = <<>> <=> Len(Wire') = 0
  BY <1>2, DropWire, WireAt DEF WireIs
<1>5. sent' = sent /\ left' = n /\ sent[f].op = op /\ eof' = eof
  BY <1>1, <1>3
<1>6. op = "ping" => n > 0
  BY <1>3, <1>5, FrameOf
<1>7. ASSUME n > 0, Len(Wire) > 1 PROVE Wire[2] = Unit(f, 1)
  <2>1. 2 \in 1..End(1) /\ 2 <= Len(Wire) /\ 1 \in 1..Len(Wire)
    BY <1>3, <1>7
  <2>2. Wire[2] = Unit(Wire[1].frame, Wire[1].unit + (2 - 1))
    BY <2>1, EndOf DEF InFrame
  <2> QED
    BY <1>3, <2>2
<1>8. ASSUME n = 0, Len(Wire) > 1 PROVE f < Len(sent) /\ Wire[2] = Unit(f + 1, 0)
  BY <1>3, <1>8
<1>9. ASSUME n > 0, Len(Wire) = 1 PROVE f = Len(sent) /\ eof /\ op # "ping"
  BY <1>3, <1>5, <1>9
<1>10. ASSUME n = 0, Len(Wire) = 1 PROVE f = Len(sent)
  BY <1>3, <1>10
<1>11. CASE n > 0
  <2>1. q = Unit(f, 1) /\ q.frame = f /\ q.unit = 1
    BY <1>11, UnitOf DEF Behind
  <2>2. q \in Places' /\ q \in Units
    <3>1. 1 \in 0..sent'[f].length /\ f \in 1..Len(sent')
      BY <1>3, <1>5, <1>11
    <3> QED
      BY <1>3, <2>1, <3>1, PlaceOfNext DEF Unit, Units
  <2>3. Wire' # <<>> => Wire'[1] = q
    BY <1>3, <1>4, <1>7, <1>11, <2>1
  <2>4. Wire' = <<>> => eof' /\ f = Len(sent') /\ op # "ping"
    BY <1>3, <1>4, <1>5, <1>9, <1>11
  <2> HIDE DEF q
  <2> QED
    BY <1>1, <1>2, <1>3, <1>5, <1>6, <1>11, <2>1, <2>2, <2>3, <2>4 DEF q
<1>12. CASE n = 0
  <2>1. q = Unit(f + 1, 0) /\ q.frame = f + 1 /\ q.unit = 0
    BY <1>12, UnitOf DEF Behind
  <2>2. ASSUME f < Len(sent) PROVE Unit(f + 1, 0) \in Places'
    <3>1. f + 1 \in 1..Len(sent') /\ 0 \in 0..sent'[f + 1].length
      BY <1>3, <1>5, <2>2, FrameOf
    <3> QED
      BY <3>1, PlaceOfNext
  <2>3. q \in Places' /\ q \in Units
    <3>1. f < Len(sent) \/ f = Len(sent)
      BY <1>3
    <3> QED
      BY <1>3, <1>5, <2>1, <2>2, <3>1, PlaceOfNext DEF Unit, Units
  <2>4. Wire' # <<>> => Wire'[1] = q
    BY <1>3, <1>4, <1>8, <1>12, <2>1
  <2>5. Wire' = <<>> => f = Len(sent')
    BY <1>3, <1>4, <1>5, <1>10, <1>12
  <2> HIDE DEF q
  <2> QED
    BY <1>1, <1>2, <1>3, <1>5, <1>6, <1>12, <2>1, <2>3, <2>4, <2>5 DEF q
<1> QED
  BY <1>3, <1>11, <1>12

\* The same frames when only the stream is read.
LEMMA DroppedSame ==
  ASSUME NEW r, Dropped(r)
  PROVE  Pings' = Pings /\ DataUnits' = DataUnits /\ \A f : Pong(f)' = Pong(f)
BY DEF Dropped, Pings, DataUnits, Pong, Payload

\* A header that is read: the same data was before it as is now.
LEMMA HeaderGot ==
  ASSUME TypeOK, NEW r, Dropped(r), Got' = Got, NEW p, GotAll(p), p.frame \in 1..Len(sent),
         p = Unit(p.frame, 0)
  PROVE  GotAll(Behind(p.frame))'
<1>1. /\ DataUnits' = DataUnits /\ sent' = sent
  BY DroppedSame DEF Dropped
<1>2. sent[p.frame].length = 0 => sent[p.frame].length + 1 = 1
  OBVIOUS
<1>3. ASSUME NEW u \in DataUnits
      PROVE  Before(u, Behind(p.frame)) <=> Before(u, p)
  BY <1>2, BeforeFrame DEF Behind
<1>4. Behind(p.frame)' = Behind(p.frame)
  BY <1>1 DEF Behind
<1> QED
  BY <1>1, <1>3, <1>4 DEF GotAll, InOrder

\* What is to be shown of the new place.
LEMMA NowOpen ==
  ASSUME NEW q, q \in Places', At(q)', GotAll(q)', Asking(q)', AnsweredAll(q)'
  PROVE  Open'
BY DEF Open

\* The header of a data frame is read.
LEMMA HeaderOfDataOpen ==
  ASSUME Answerable, TypeOK, TypeOK', InFrames, Arriving, Stacked, HeaderOfData,
         NEW p \in Places, At(p), GotAll(p), Asking(p), AnsweredAll(p)
  PROVE  Open'
<1> DEFINE f == p.frame
<1>1. PICK op \in {"data", "pong"} :
        /\ NextHeader(op) /\ UNCHANGED <<calls, out, taken>> /\ pc = "header"
        /\ pc' \in {"callback", "payload"}
  BY DEF HeaderOfData, HeaderDone, NextHeader
<1>2. PICK q : q = Behind(f)
  OBVIOUS
<1>3. /\ f \in 1..Len(sent) /\ f \in Nat \ {0} /\ p = Unit(f, 0)
      /\ sent[f].op \in {"data", "pong"} /\ Dropped(1)
      /\ q \in Places' /\ q.frame \in 1..Len(sent')+1 /\ q.unit \in Nat
      /\ Wire' # <<>> => Wire'[1] = q
      /\ Wire' = <<>> /\ q.frame <= Len(sent') => eof' /\ q.frame = Len(sent') /\ q.unit > 0
      /\ q.unit > 0 => q.frame = f
      /\ IF q.unit = 0 THEN left' = 0
         ELSE /\ q.frame <= Len(sent') /\ left' > 0
              /\ q.unit + left' = sent'[q.frame].length + 1
  BY <1>1, <1>2, NextHeaderAt DEF Answerable
<1>4. ~Pinged /\ ~Pinged' /\ Got' = Got /\ sent' = sent
  BY <1>1, <1>3 DEF Stacked, Pinged, Top, Got, Dropped
<1>5. GotAll(q)'
  BY <1>2, <1>3, <1>4, HeaderGot DEF Behind
<1>6. At(q)'
  BY <1>1, <1>3, <1>4 DEF At
<1>7. AnsweredAll(q)'
  <2>1. ASSUME NEW g \in Pings PROVE g < q.frame <=> g < f
    <3>1. g \in Nat /\ g # f /\ q.frame \in {f, f + 1}
      BY <1>2, <1>3, Lists, UnitOf DEF Pings, Behind
    <3> QED
      BY <1>3, <3>1
  <2>2. Pings' = Pings /\ \A g : Pong(g)' = Pong(g)
    BY <1>3, DroppedSame
  <2> QED
    BY <1>1, <1>4, <2>1, <2>2 DEF AnsweredAll
<1> QED
  BY <1>3, <1>4, <1>5, <1>6, <1>7, NowOpen DEF Asking

\* The header of a ping is read: its payload is asked for, and is next.
LEMMA HeaderOfPingOpen ==
  ASSUME Answerable, TypeOK, TypeOK', InFrames, Arriving, Stacked, Stacked', HeaderOfPing,
         NEW p \in Places, At(p), GotAll(p), Asking(p), AnsweredAll(p)
  PROVE  Open'
<1> DEFINE f == p.frame
<1>1. /\ NextHeader("ping") /\ UNCHANGED <<out, taken>> /\ pc = "header" /\ opcode' = "pong"
      /\ StartRead("ping", left') /\ ~Pinged
  BY DEF HeaderOfPing, NextHeader, Stacked
<1>2. PICK q : q = Behind(f)
  OBVIOUS
<1>3. /\ f \in 1..Len(sent) /\ f \in Nat \ {0} /\ p = Unit(f, 0)
      /\ sent[f].op = "ping" /\ Dropped(1)
      /\ q \in Places' /\ q.frame \in 1..Len(sent')+1 /\ q.unit \in Nat
      /\ Wire' # <<>> => Wire'[1] = q
      /\ Wire' = <<>> /\ q.frame <= Len(sent') => FALSE
      /\ q = Unit(f, 1)
      /\ IF q.unit = 0 THEN left' = 0
         ELSE /\ q.frame <= Len(sent') /\ left' > 0
              /\ q.unit + left' = sent'[q.frame].length + 1
  BY <1>1, <1>2, NextHeaderAt DEF Answerable
<1>4. sent' = sent /\ q.frame = f /\ q.unit = 1
  BY <1>3, UnitOf DEF Dropped
<1> DEFINE call == [for |-> "ping", want |-> left', payload |-> <<>>,
                    last |-> NoLevel, status |-> 0]
<1>5. /\ calls' # <<>> /\ Len(calls') = Len(calls) + 1 /\ pc' = "read"
      /\ Top' = call
      /\ calls # <<>> => calls'[1] = calls[1]
  <2>1. /\ calls' # <<>> /\ Len(calls') = Len(calls) + 1 /\ pc' = "read" /\ Top' = call
        /\ calls # <<>> => calls'[1] = calls[1]
    BY <1>1, Pushes
  <2> QED
    BY <2>1
<1>6. Pinged' /\ Top'.want = left' /\ Top'.payload = <<>>
  BY <1>5 DEF Pinged
<1>7. Got' = Got
  <2>1. CASE calls = <<>>
    BY <1>1, <1>5, <1>6, <2>1, Stack, GotOf, GotOfNext
  <2>2. CASE calls # <<>>
    <3>1. Len(calls) = 1 /\ calls[1] = Top /\ Got = taken \o Top.payload
      BY <1>1, <2>2, Stack, GotOf
    <3>2. Got' = taken' \o calls'[1].payload
      BY <1>5, <1>6, <3>1, GotOfNext
    <3> QED
      BY <1>1, <1>5, <2>2, <3>1, <3>2
  <2> QED
    BY <2>1, <2>2
<1>8. GotAll(q)'
  BY <1>2, <1>3, <1>4, <1>7, HeaderGot DEF Behind
<1>9. At(q)'
  BY <1>3, <1>4, <1>5, <1>6 DEF At
<1>10. Pings' = Pings /\ \A g : Pong(g)' = Pong(g)
  BY <1>3, DroppedSame
<1>11. AnsweredAll(q)'
  BY <1>1, <1>4, <1>5, <1>10 DEF AnsweredAll
<1>12. Asking(q)'
  BY <1>1, <1>3, <1>4, <1>5, <1>6, <1>10 DEF Asking, Pings
<1> QED
  BY <1>3, <1>8, <1>9, <1>11, <1>12, NowOpen

\* After the header of a close frame there is nothing but its payload.
LEMMA HeaderOfCloseShut ==
  ASSUME Answerable, TypeOK, TypeOK', InFrames, Arriving, Stacked, HeaderOfClose,
         NEW p \in Places, At(p), GotAll(p), Asking(p), AnsweredAll(p)
  PROVE  Shut'
<1> DEFINE f == p.frame
<1>1. /\ NextHeader("close") /\ UNCHANGED <<calls, out, taken>> /\ pc = "header" /\ pc' = "close"
  BY DEF HeaderOfClose, NextHeader
<1>2. /\ f \in 1..Len(sent) /\ f \in Nat \ {0} /\ p = Unit(f, 0)
      /\ sent[f].op = "close" /\ Dropped(1)
      /\ stream # <<>> /\ stream[1] = p /\ p.unit = 0
  BY <1>1, NextHeaderAt
<1>3. f = Len(sent) /\ Wire[1] = p /\ 1 \in 1..Len(Wire)
  BY <1>2, FirstSent DEF Arriving
<1>4. ASSUME NEW i \in 1..Len(Wire') PROVE Wire'[i].unit > 0
  <2>1. i + 1 \in 1..Len(Wire) /\ Wire'[i] = Wire[i + 1] /\ 1 < i + 1
    BY <1>2, DropWire
  <2>2. Before(Wire[1], Wire[i + 1])
    BY <1>3, <2>1 DEF InFrames
  <2>3. Wire[i + 1].frame \in 1..Len(sent) /\ Wire[i + 1].unit \in Nat /\ Len(sent) \in Nat
    BY <2>1, EndOf, Lists
  <2> QED
    BY <1>2, <1>3, <2>1, <2>2, <2>3 DEF Before
<1>5. ~Pinged /\ ~Pinged'
  BY <1>1 DEF Stacked, Pinged, Top
<1>6. \A g \in Pings : \E i \in 1..Len(out) : out[i] = Pong(g)
  <2>1. ASSUME NEW g \in Pings PROVE g < f
    BY <1>2, <1>3, Lists DEF Pings
  <2> QED
    BY <1>5, <2>1 DEF AnsweredAll
<1>7. Pings' = Pings /\ \A g : Pong(g)' = Pong(g)
  BY <1>2, DroppedSame
<1> QED
  BY <1>1, <1>4, <1>5, <1>6, <1>7 DEF Shut
-----------------------------------------------------------------------------
(* Payload *)

\* s has all the data before p, and t goes on with r units of frame f from unit n on.
HasAll(s, p) ==
  /\ InOrder(s)
  /\ \A u \in DataUnits : Before(u, p) <=> \E i \in 1..Len(s) : s[i] = u
\* t is s with r units of frame f behind it, from the n-th on.
GoesOn(s, t, f, n, r) ==
  /\ Len(t) = Len(s) + r
  /\ \A i \in 1..Len(s) : t[i] = s[i]
  /\ \A i \in 1..r : t[Len(s) + i] = Unit(f, n + (i - 1))

\* A handler that gets the next piece of a data frame has got all the data before its end.
LEMMA GotMore ==
  ASSUME TypeOK, NEW f \in 1..Len(sent), sent[f].op \in {"data", "pong"},
         NEW n \in Nat \ {0}, NEW r \in Nat,
         n + r <= sent[f].length + 1,
         NEW s \in Seq(Units), NEW t \in Seq(Units), GoesOn(s, t, f, n, r), HasAll(s, Unit(f, n))
  PROVE  HasAll(t, Unit(f, n + r))
<1> USE DEF GoesOn, HasAll
<1>1. Len(s) \in Nat /\ sent[f].length \in Nat /\ f \in Nat \ {0} /\ Len(t) \in Nat
  BY FrameOf, Lists
<1>2. ASSUME NEW m \in 0..r, NEW u \in DataUnits
      PROVE  Before(u, Unit(f, n + m)) <=> \E i \in 1..Len(s) + m : t[i] = u
  <2>1. u \in Units /\ u = Unit(u.frame, u.unit) /\ u.frame \in Nat /\ u.unit \in Nat \ {0}
    BY DataUnit, UnitOf, FrameOf
  <2>2. Before(u, Unit(f, n + m)) <=>
          Before(u, Unit(f, n)) \/ (u.frame = f /\ u.unit >= n /\ u.unit < n + m)
    BY <1>1, <2>1, UnitOf DEF Before
  <2>3. ASSUME u.frame = f, u.unit >= n, u.unit < n + m
        PROVE  \E i \in 1..Len(s) + m : t[i] = u
    <3> DEFINE k == u.unit - n + 1
    <3>1. k \in 1..r /\ k <= m /\ n + (k - 1) = u.unit /\ Len(s) + k \in 1..Len(s) + m
      <4> DEFINE x == u.unit
                 l == Len(s)
      <4>1. x \in Nat /\ x >= n /\ x < n + m /\ l \in Nat
        BY <1>1, <2>1, <2>3
      <4> HIDE DEF x, l
      <4>2. x - n + 1 \in 1..m /\ n + ((x - n + 1) - 1) = x
        BY ONLY <4>1, n \in Nat \ {0}, m \in 0..r, r \in Nat
      <4>3. \A i \in 1..m : i \in 1..r /\ i <= m /\ l + i \in 1..l + m
        BY ONLY <4>1, m \in 0..r, r \in Nat
      <4> QED
        BY <4>2, <4>3 DEF x, l
    <3>2. t[Len(s) + k] = Unit(f, n + (k - 1))
      BY <3>1
    <3>3. t[Len(s) + k] = u
      BY <2>1, <2>3, <3>1, <3>2
    <3> QED
      BY <3>1, <3>3
  <2>4. ASSUME Before(u, Unit(f, n)) PROVE \E i \in 1..Len(s) + m : t[i] = u
    <3>1. PICK i \in 1..Len(s) : s[i] = u
      BY <2>4
    <3>2. i \in 1..Len(s) + m /\ t[i] = u
      BY <1>1, <3>1
    <3> QED
      BY <3>2
  <2>5. ASSUME NEW i \in 1..Len(s) + m, t[i] = u
        PROVE  Before(u, Unit(f, n)) \/ (u.frame = f /\ u.unit >= n /\ u.unit < n + m)
    <3>1. CASE i \in 1..Len(s)
      BY <2>5, <3>1
    <3>2. CASE i \notin 1..Len(s)
      <4> DEFINE k == i - Len(s)
      <4>1. k \in 1..r /\ k <= m /\ Len(s) + k = i /\ k \in Nat
        BY <1>1, <3>2
      <4> HIDE DEF k
      <4>2. u = Unit(f, n + (k - 1))
        BY <2>5, <4>1
      <4> QED
        BY <4>1, <4>2, UnitOf
    <3> QED
      BY <3>1, <3>2
  <2> QED
    BY <2>2, <2>3, <2>4, <2>5
<1>3. ASSUME NEW i \in 1..Len(t)
      PROVE  /\ t[i] \in DataUnits
             /\ \A u \in DataUnits : Before(u, t[i]) <=> \E j \in 1..i-1 : t[j] = u
  <2>1. CASE i \in 1..Len(s)
    <3>1. /\ s[i] \in DataUnits /\ t[i] = s[i]
          /\ \A u \in DataUnits : Before(u, s[i]) <=> \E j \in 1..i-1 : s[j] = u
      BY <2>1 DEF InOrder
    <3>2. \A j \in 1..i-1 : t[j] = s[j]
      BY <1>1, <2>1
    <3> QED
      BY <3>1, <3>2
  <2>2. CASE i \notin 1..Len(s)
    <3> DEFINE k == i - Len(s)
    <3>1. k \in 1..r /\ Len(s) + k = i /\ k \in Nat /\ k - 1 \in 0..r /\ i - 1 = Len(s) + (k - 1)
      <4> DEFINE l == Len(s)
                 e == Len(t)
      <4>1. l \in Nat /\ e = l + r /\ i \in 1..e /\ i \notin 1..l
        BY <1>1, <2>2
      <4> HIDE DEF l, e
      <4>2. i - l \in 1..r /\ l + (i - l) = i /\ i - l \in Nat /\ (i - l) - 1 \in 0..r
            /\ i - 1 = l + ((i - l) - 1)
        BY ONLY <4>1, r \in Nat
      <4> QED
        BY <4>2 DEF l
    <3> HIDE DEF k
    <3>2. t[i] = Unit(f, n + (k - 1))
      BY <3>1
    <3>3. t[i] \in DataUnits
      <4>1. n + (k - 1) \in 1..sent[f].length
        <5> DEFINE m == sent[f].length
        <5>1. m \in Nat /\ n + r <= m + 1
          BY <1>1
        <5> HIDE DEF m
        <5>2. n + (k - 1) \in 1..m
          BY ONLY <3>1, <5>1, n \in Nat \ {0}, r \in Nat
        <5> QED
          BY <5>2 DEF m
      <4> QED
        <5>1. /\ t[i] \in Units /\ t[i].frame = f /\ t[i].unit = n + (k - 1)
          <6>1. f \in Nat \ {0} /\ n + (k - 1) \in Nat
            BY <4>1, Lists, FrameOf
          <6> QED
            BY ONLY <3>2, <6>1 DEF Unit, Units
        <5> QED
          BY <4>1, <5>1, DataUnit
    <3>4. \A u \in DataUnits :
            Before(u, Unit(f, n + (k - 1))) <=> \E j \in 1..Len(s) + (k - 1) : t[j] = u
      BY <1>2, <3>1
    <3> QED
      BY <3>1, <3>2, <3>3, <3>4
  <2> QED
    BY <2>1, <2>2
<1>4. ASSUME NEW u \in DataUnits
      PROVE  Before(u, Unit(f, n + r)) <=> \E i \in 1..Len(t) : t[i] = u
  <2>1. r \in 0..r
    OBVIOUS
  <2>2. Before(u, Unit(f, n + r)) <=> \E i \in 1..Len(s) + r : t[i] = u
    BY ONLY <1>2, <2>1, u \in DataUnits
  <2> QED
    BY ONLY <2>2, GoesOn(s, t, f, n, r) DEF GoesOn
<1> QED
  BY ONLY <1>3, <1>4 DEF InOrder, HasAll

\* The place behind a piece of payload.
Further(p, r) ==
  IF r = 0 THEN p ELSE IF r = left THEN Unit(p.frame + 1, 0) ELSE Unit(p.frame, p.unit + r)

\* Reading payload moves p behind it, and data_left is what is left of the frame.
LEMMA FurtherAt ==
  ASSUME TypeOK, TypeOK', InFrames, Arriving, NEW p \in Places, At(p),
         NEW r \in 0..Len(stream), r <= left, Dropped(r), left' = left - r
  PROVE  LET q == Further(p, r)
         IN  /\ q \in Places' /\ q.frame \in 1..Len(sent')+1 /\ q.unit \in Nat
             /\ Wire' # <<>> => Wire'[1] = q
             /\ Wire' = <<>> /\ q.frame <= Len(sent') =>
                  /\ eof' /\ q.frame = Len(sent') /\ q.unit > 0
                  /\ q.frame = p.frame /\ sent[p.frame].op # "ping"
             /\ IF q.unit = 0 THEN left' = 0
                ELSE /\ q.frame <= Len(sent') /\ left' > 0
                     /\ q.unit + left' = sent'[q.frame].length + 1
             /\ q.unit > 0 => q.frame = p.frame /\ p.unit > 0
             /\ r > 0 => p.unit > 0
             /\ r = left /\ r > 0 => q.unit = 0 /\ q.frame = p.frame + 1
             /\ r # left => q.frame = p.frame
             /\ r = 0 => q = p
<1> DEFINE q == Further(p, r)
           f == p.frame
<1>1. /\ sent' = sent /\ eof' = eof /\ left \in Nat /\ r \in Nat /\ Len(sent) \in Nat
      /\ p \in Units /\ f \in Nat \ {0} /\ p.unit \in Nat /\ p = Unit(f, p.unit)
      /\ Len(Wire) \in Nat /\ (Wire = <<>> <=> Len(Wire) = 0) /\ (Wire' = <<>> <=> Len(Wire') = 0)
      /\ Len(Wire') = Len(Wire) - r
      /\ \A i \in 1..Len(Wire') : i + r \in 1..Len(Wire) /\ Wire'[i] = Wire[i + r]
  BY Lists, PlaceOf, UnitOf, WireAt, DropWire DEF Dropped, WireIs
<1>2. CASE r = 0
  <2>1. q = p /\ left' = left
    BY <1>1, <1>2 DEF Further
  <2>2. p \in Places'
    <3>1. Places' = Places
      BY <1>1 DEF Places
    <3> QED
      BY <3>1
  <2>3. Wire' # <<>> => Wire'[1] = p
    <3>1. ASSUME Wire' # <<>> PROVE Wire # <<>> /\ Wire'[1] = Wire[1]
      BY <1>1, <1>2, <3>1
    <3> QED
      BY <3>1 DEF At
  <2>4. Wire' = <<>> => Wire = <<>>
    BY <1>1, <1>2
  <2>5. /\ f \in 1..Len(sent)+1
        /\ Wire = <<>> /\ f <= Len(sent) =>
             eof /\ f = Len(sent) /\ p.unit > 0 /\ sent[f].op \in {"data", "pong"}
        /\ IF p.unit = 0 THEN left = 0
           ELSE f <= Len(sent) /\ p.unit + left = sent[f].length + 1 /\ left > 0
    BY DEF At
  <2>6. r = left => p.unit = 0
    BY <1>1, <1>2, <2>5
  <2> HIDE DEF q
  <2> QED
    BY <1>1, <1>2, <2>1, <2>2, <2>3, <2>4, <2>5 DEF q
<1>3. CASE r # 0
  <2> DEFINE n == sent[f].length
  <2>1. /\ \A i \in 1..r : stream[i] = Unit(f, p.unit + (i - 1))
        /\ p.unit > 0 /\ Wire # <<>> /\ f \in 1..Len(sent) /\ r > 0
    <3>1. r > 0
      BY <1>1, <1>3
    <3>2. /\ \A i \in 1..r : stream[i] = Unit(f, p.unit + (i - 1))
          /\ r > 0 => p.unit > 0 /\ Wire # <<>> /\ f \in 1..Len(sent)
      BY PieceAt
    <3> QED
      BY <3>1, <3>2
  <2>2. /\ n \in Nat /\ End(1) = left /\ left \in Nat \ {0} /\ p.unit + left = n + 1
        /\ \A i \in 1..left : i <= Len(Wire) => Wire[i] = Unit(f, p.unit + (i - 1))
        /\ f < Len(sent) => left < Len(Wire) /\ Wire[left + 1] = Unit(f + 1, 0)
        /\ f = Len(sent) =>
             IF eof /\ sent[Len(sent)].op # "ping" THEN left >= Len(Wire) ELSE left = Len(Wire)
    <3>1. End(1) = left
      BY <2>1, AtFrame
    <3> QED
      BY <2>1, <3>1, AtFrame DEF At
  <2> HIDE DEF n
  <2>3. CASE r = left
    <3>1. q = Unit(f + 1, 0) /\ q.frame = f + 1 /\ q.unit = 0 /\ left' = 0
      BY <1>1, <1>3, <2>3, UnitOf DEF Further
    <3>2. q \in Places'
      <4>1. CASE f < Len(sent)
        <5>1. f + 1 \in 1..Len(sent') /\ 0 \in 0..sent'[f + 1].length
          BY <1>1, <4>1, FrameOf
        <5> QED
          BY <3>1, <5>1, PlaceOfNext
      <4>2. CASE f = Len(sent)
        BY <1>1, <3>1, <4>2, PlaceOfNext
      <4> QED
        BY <1>1, <2>1, <4>1, <4>2
    <3>3. ASSUME Wire' # <<>> PROVE Wire'[1] = q
      <4>1. 1 \in 1..Len(Wire') /\ r + 1 <= Len(Wire) /\ Wire'[1] = Wire[1 + r]
        BY <1>1, <3>3
      <4>2. f < Len(sent)
        BY <1>1, <2>1, <2>2, <2>3, <4>1
      <4> QED
        BY <1>1, <2>2, <2>3, <3>1, <4>1, <4>2
    <3>4. ASSUME Wire' = <<>> PROVE f = Len(sent)
      BY <1>1, <2>1, <2>2, <2>3, <3>4
    <3> HIDE DEF q
    <3> QED
      BY <1>1, <1>3, <2>1, <2>3, <3>1, <3>2, <3>3, <3>4 DEF q
  <2>4. CASE r # left
    <3>1. /\ q = Unit(f, p.unit + r) /\ q.frame = f /\ q.unit = p.unit + r /\ q.unit > 0
          /\ left' > 0 /\ q.unit + left' = n + 1 /\ r < left
      <4>1. q = Unit(f, p.unit + r) /\ q.frame = f /\ q.unit = p.unit + r
        BY <1>3, <2>4, UnitOf DEF Further
      <4>2. p.unit \in Nat /\ p.unit > 0
        BY <1>1, <2>1
      <4> DEFINE x == p.unit
      <4>3. x \in Nat /\ x > 0 /\ x + left = n + 1 /\ q.unit = x + r
        BY <2>2, <4>1, <4>2
      <4> HIDE DEF x, q
      <4>4. r < left /\ left' > 0 /\ q.unit > 0 /\ q.unit + left' = n + 1
        <5> DEFINE y == q.unit
        <5>1. r \in Nat /\ r # left /\ r <= left /\ left \in Nat /\ left' = left - r
          BY <1>1, <2>2, <2>4
        <5>2. x \in Nat /\ x > 0 /\ x + left = n + 1 /\ y = x + r /\ n \in Nat
          BY <2>2, <4>3
        <5> HIDE DEF y
        <5>3. r < left /\ left' > 0 /\ y > 0 /\ y + left' = n + 1
          BY ONLY <5>1, <5>2
        <5> QED
          BY <5>3 DEF y
      <4> QED
        BY <4>1, <4>4
    <3>2. q \in Places'
      <4>1. p.unit + r \in 0..n
        BY <1>1, <2>2, <3>1
      <4> QED
        BY <1>1, <2>1, <3>1, <4>1, PlaceOfNext DEF n
    <3>3. ASSUME Wire' # <<>> PROVE Wire'[1] = q
      <4>1. 1 \in 1..Len(Wire') /\ r + 1 <= Len(Wire) /\ Wire'[1] = Wire[r + 1]
        BY <1>1, <3>3
      <4>2. r + 1 \in 1..left /\ (r + 1) - 1 = r
        BY <1>1, <2>2, <3>1
      <4> QED
        BY <2>2, <3>1, <4>1, <4>2
    <3>4. ASSUME Wire' = <<>> PROVE eof /\ f = Len(sent) /\ sent[f].op # "ping"
      <4>1. left > Len(Wire)
        BY <1>1, <2>2, <3>1, <3>4
      <4> QED
        BY <1>1, <2>1, <2>2, <4>1
    <3>5. q.frame \in 1..Len(sent')+1 /\ q.frame <= Len(sent') /\ q.unit \in Nat
      BY <1>1, <2>1, <3>1
    <3>6. sent'[q.frame].length = n
      BY <1>1, <3>1 DEF n
    <3> HIDE DEF q
    <3>7. /\ Wire' = <<>> /\ q.frame <= Len(sent') =>
               /\ eof' /\ q.frame = Len(sent') /\ q.unit > 0
               /\ q.frame = f /\ sent[f].op # "ping"
          /\ IF q.unit = 0 THEN left' = 0
             ELSE /\ q.frame <= Len(sent') /\ left' > 0
                  /\ q.unit + left' = sent'[q.frame].length + 1
      BY <1>1, <3>1, <3>4, <3>5, <3>6
    <3> QED
      BY <1>3, <2>1, <2>4, <3>1, <3>2, <3>3, <3>5, <3>7 DEF q
  <2> QED
    BY <2>3, <2>4
<1> QED
  BY <1>2, <1>3

\* The front of a list.
LEMMA Fore ==
  ASSUME NEW S, NEW s \in Seq(S), NEW r \in 0..Len(s)
  PROVE  /\ SubSeq(s, 1, r) \in Seq(S) /\ Len(SubSeq(s, 1, r)) = r
         /\ \A i \in 1..r : SubSeq(s, 1, r)[i] = s[i]
         /\ r = 0 => SubSeq(s, 1, r) = <<>>
OBVIOUS

\* Lists one behind the other.
LEMMA Thrice ==
  ASSUME NEW S, NEW s \in Seq(S), NEW t \in Seq(S), NEW v \in Seq(S)
  PROVE  s \o (t \o v) = (s \o t) \o v
OBVIOUS

\* What the handler has taken, and two lists behind it.
LEMMA TakenOn ==
  ASSUME TypeOK
  PROVE  \A x, y \in Seq(Units) : taken \o (x \o y) = (taken \o x) \o y
<1>1. taken \in Seq(Units)
  BY DEF TypeOK
<1> QED
  BY ONLY <1>1, Thrice

\* A list and nothing.
LEMMA Alone ==
  ASSUME NEW S, NEW s \in Seq(S)
  PROVE  s \o <<>> = s /\ <<>> \o s = s
OBVIOUS

\* A piece of payload is read: a handler gets it, or it is all of a ping's.
LEMMA ReadPayloadOpen ==
  ASSUME Answerable, TypeOK, TypeOK', InFrames, Arriving, Stacked, Stacked', ReadPayload,
         NEW p \in Places, At(p), GotAll(p), Asking(p), AnsweredAll(p)
  PROVE  Open'
<1> DEFINE asked == Least(Top.want, left)
           f == p.frame
<1>1. PICK r \in 0..Len(stream) :
        /\ r = Least(asked, Len(stream))
        /\ r <= left /\ r <= asked /\ Dropped(r) /\ left' = left - r
        /\ r \in Nat /\ asked \in Nat /\ Top.want \in Nat /\ left \in Nat
        /\ pc' = IF Top.want > asked /\ r = asked THEN "read" ELSE "return"
        /\ Len(calls') = Len(calls) /\ Len(calls) \in Nat \ {0}
        /\ calls' # <<>> /\ calls # <<>> /\ Top' = calls'[Len(calls)]
        /\ Top = calls[Len(calls)]
        /\ Top'.for = Top.for /\ Top'.status = Top.status
        /\ Top'.want = Top.want - asked
        /\ Top'.payload = Top.payload \o SubSeq(stream, 1, r)
        /\ \A i \in 1..Len(calls) - 1 : calls'[i] = calls[i]
        /\ pc = "payload" /\ UNCHANGED <<opcode, before, out, taken>>
  BY ReadsPiece
<1>2. PICK q : q = Further(p, r)
  OBVIOUS
<1>3. /\ q \in Places' /\ q.frame \in 1..Len(sent')+1 /\ q.unit \in Nat
      /\ Wire' # <<>> => Wire'[1] = q
      /\ Wire' = <<>> /\ q.frame <= Len(sent') =>
           /\ eof' /\ q.frame = Len(sent') /\ q.unit > 0
           /\ q.frame = f /\ sent[f].op # "ping"
      /\ IF q.unit = 0 THEN left' = 0
         ELSE /\ q.frame <= Len(sent') /\ left' > 0
              /\ q.unit + left' = sent'[q.frame].length + 1
      /\ q.unit > 0 => q.frame = f /\ p.unit > 0
      /\ r > 0 => p.unit > 0
      /\ r = left /\ r > 0 => q.unit = 0 /\ q.frame = f + 1
      /\ r # left => q.frame = f
      /\ r = 0 => q = p
  <2>1. r <= left /\ Dropped(r) /\ left' = left - r
    BY <1>1
  <2> QED
    BY ONLY <1>2, <2>1, TypeOK, TypeOK', InFrames, Arriving, p \in Places, At(p),
       r \in 0..Len(stream), FurtherAt
<1>4. /\ sent' = sent /\ (Pinged' <=> Pinged) /\ pc' # "header"
      /\ Pings' = Pings /\ DataUnits' = DataUnits /\ \A g : Pong(g)' = Pong(g)
      /\ f \in Nat \ {0} /\ p.unit \in Nat /\ p = Unit(f, p.unit) /\ Pings \subseteq Nat
  <2>1. /\ Pings' = Pings /\ DataUnits' = DataUnits /\ \A g : Pong(g)' = Pong(g)
    BY <1>1, DroppedSame
  <2>2. f \in Nat \ {0} /\ p.unit \in Nat /\ p = Unit(f, p.unit)
    BY PlaceOf, UnitOf
  <2> QED
    BY <1>1, <2>1, <2>2, Lists DEF Pinged, Dropped, Pings
<1>5. CASE Pinged
  <2>1. /\ opcode' = "pong" /\ p.unit = 1 /\ f \in Pings /\ Top.want = left /\ Top.payload = <<>>
        /\ f \in 1..Len(sent) /\ sent[f].op = "ping" /\ left > 0
    <3>1. /\ opcode = "pong" /\ Top.status = 0 /\ p.unit = 1 /\ f \in Pings
          /\ Top.want = left /\ Top.payload = <<>>
      BY <1>1, <1>5 DEF Asking
    <3>2. f \in 1..Len(sent) /\ sent[f].op = "ping"
      BY <3>1 DEF Pings
    <3>3. left > 0
      BY <3>1 DEF At
    <3>4. opcode' = opcode
      BY <1>1
    <3> QED
      BY <3>1, <3>2, <3>3, <3>4
  <2>2. Wire # <<>>
    BY <2>1, <1>4, Lists DEF At
  <2>3. left <= Len(stream) /\ sent[f].length = left
    BY <2>1, <2>2, AtFrame
  <2>4. r = left /\ asked = left /\ r > 0 /\ pc' = "return"
    BY <1>1, <2>1, <2>3, Lists DEF Least
  <2>5. q.unit = 0 /\ q.frame = f + 1 /\ q.frame - 1 = f
    BY <1>3, <1>4, <2>4
  <2>6. Top'.payload = Payload(f)
    <3>1. SubSeq(stream, 1, r) \in Seq(Units) /\ Len(SubSeq(stream, 1, r)) = r
          /\ \A k \in 1..r : SubSeq(stream, 1, r)[k] = stream[k]
      BY Fore DEF TypeOK
    <3>2. \A i \in 1..r : stream[i] = Unit(f, i)
      <4>1. \A i \in 1..r : stream[i] = Unit(f, p.unit + (i - 1))
        BY <1>1, PieceAt
      <4>2. \A i \in 1..r : p.unit + (i - 1) = i
        BY <1>1, <2>1
      <4> QED
        BY <4>1, <4>2
    <3>3. SubSeq(stream, 1, r) = Payload(f)
      BY <1>1, <2>1, <2>3, <2>4, <3>1, <3>2, FrameOf
    <3>4. <<>> \o SubSeq(stream, 1, r) = SubSeq(stream, 1, r)
      BY <3>1, Alone
    <3> QED
      BY <1>1, <2>1, <3>3, <3>4
  <2>7. Got' = Got
    <3>1. CASE Len(calls) = 2
      <4>1. calls'[1] = calls[1]
        BY <1>1, <3>1
      <4> QED
        BY <1>1, <1>4, <1>5, <3>1, <4>1, GotOf, GotOfNext
    <3>2. CASE Len(calls) # 2
      BY <1>1, <1>4, <1>5, <3>2, GotOf, GotOfNext
    <3> QED
      BY <3>1, <3>2
  <2>8. GotAll(q)'
    <3>1. ASSUME NEW u \in DataUnits PROVE Before(u, q) <=> Before(u, p)
      <4>1. q = Unit(f + 1, 0) /\ p = Unit(f, 1)
        BY <1>2, <1>4, <2>1, <2>4 DEF Further
      <4> QED
        BY <2>1, <4>1, BeforeFrame
    <3>2. DataUnits' = DataUnits
      BY <1>4
    <3>3. InOrder(Got)'
      <4>1. InOrder(Got)
        BY DEF GotAll
      <4> QED
        BY <2>7, <3>2, <4>1 DEF InOrder
    <3>4. \A u \in DataUnits : Before(u, q) <=> \E i \in 1..Len(Got) : Got[i] = u
      BY <3>1 DEF GotAll
    <3> QED
      BY <2>7, <3>2, <3>3, <3>4 DEF GotAll
  <2>9. At(q)'
    BY <1>3, <1>4, <2>1, <2>5 DEF At
  <2>10. AnsweredAll(q)'
    BY <1>1, <1>4, <1>5, <2>4, <2>5 DEF AnsweredAll
  <2>11. Asking(q)'
    <3>1. Payload(f)' = Payload(f)
      BY <1>4 DEF Payload
    <3>2. Top'.status = 0
      BY <1>1, <1>5 DEF Asking
    <3> QED
      BY <1>4, <2>1, <2>4, <2>5, <2>6, <3>1, <3>2 DEF Asking
  <2> QED
    BY <1>3, <2>8, <2>9, <2>10, <2>11, NowOpen
<1>6. CASE ~Pinged
  <2>1. At(q)'
    <3>1. q.unit > 0 => sent[q.frame].op \in {"data", "pong"}
      BY <1>3, <1>6 DEF At
    <3>2. Wire' = <<>> /\ q.frame <= Len(sent') =>
            eof' /\ q.frame = Len(sent') /\ q.unit > 0 /\ sent'[q.frame].op \in {"data", "pong"}
      BY <1>3, <1>4, <3>1
    <3> QED
      BY <1>3, <1>4, <3>1, <3>2 DEF At
  <2>2. GotAll(q)'
    <3>1. CASE r = 0
      <4>1. Top.payload \o SubSeq(stream, 1, 0) = Top.payload
        <5>1. SubSeq(stream, 1, 0) = <<>>
          BY <3>1, Fore DEF TypeOK
        <5>2. Top.payload \in Seq(Units)
          BY <1>1, Stack
        <5> QED
          BY ONLY <5>1, <5>2, Alone
      <4>2. Got' = Got
        BY <1>1, <1>4, <1>6, <3>1, <4>1, GotOf, GotOfNext
      <4> QED
        BY <1>3, <1>4, <3>1, <4>2 DEF GotAll, InOrder
    <3>2. CASE r # 0
      <4> DEFINE piece == SubSeq(stream, 1, r)
      <4>1. /\ \A i \in 1..r : stream[i] = Unit(f, p.unit + (i - 1))
            /\ p.unit > 0 /\ f \in 1..Len(sent) /\ p.unit + r <= sent[f].length + 1
        <5>1. r > 0
          BY <1>1, <3>2
        <5>2. /\ \A i \in 1..r : stream[i] = Unit(f, p.unit + (i - 1))
              /\ r > 0 => /\ p.unit > 0 /\ Wire # <<>> /\ f \in 1..Len(sent)
                          /\ p.unit + r <= sent[f].length + 1
          BY <1>1, PieceAt
        <5> QED
          BY <5>1, <5>2
      <4>2. sent[f].op \in {"data", "pong"}
        BY <1>6, <4>1 DEF At
      <4>3. /\ piece \in Seq(Units) /\ Len(piece) = r
            /\ \A k \in 1..r : piece[k] = Unit(f, p.unit + (k - 1))
        <5>1. /\ piece \in Seq(Units) /\ Len(piece) = r
              /\ \A k \in 1..r : piece[k] = stream[k]
          BY Fore DEF TypeOK
        <5> QED
          BY <4>1, <5>1
      <4> HIDE DEF piece
      <4>4. Got = taken \o Top.payload /\ Got' = taken \o (Top.payload \o piece)
        BY <1>1, <1>4, <1>6, GotOf, GotOfNext DEF piece
      <4>5. taken \in Seq(Units) /\ Top.payload \in Seq(Units) /\ Got \in Seq(Units)
        BY <1>1, Stack, GotOf DEF TypeOK
      <4>6. Got' = Got \o piece
        <5>1. piece \in Seq(Units) /\ Top.payload \in Seq(Units)
          BY <4>3, <4>5
        <5>2. taken \o (Top.payload \o piece) = (taken \o Top.payload) \o piece
          BY ONLY TypeOK, <5>1, TakenOn
        <5> QED
          BY ONLY <4>4, <5>1, <5>2
      <4>7. /\ Got' \in Seq(Units) /\ Len(Got') = Len(Got) + r
            /\ \A i \in 1..Len(Got) : Got'[i] = Got[i]
            /\ \A i \in 1..r : Got'[Len(Got) + i] = Unit(f, p.unit + (i - 1))
        <5>1. /\ Got \o piece \in Seq(Units) /\ Len(Got \o piece) = Len(Got) + Len(piece)
              /\ \A i \in 1..Len(Got) : (Got \o piece)[i] = Got[i]
              /\ \A i \in 1..Len(piece) : (Got \o piece)[Len(Got) + i] = piece[i]
          BY <4>3, <4>5, Joined
        <5> QED
          BY <4>3, <4>6, <5>1
      <4>8. /\ InOrder(Got)
            /\ \A u \in DataUnits :
                 Before(u, Unit(f, p.unit)) <=> \E i \in 1..Len(Got) : Got[i] = u
        BY <1>4 DEF GotAll
      <4>9. PICK t : t = Got'
        OBVIOUS
      <4>10. /\ InOrder(t)
             /\ \A u \in DataUnits :
                  Before(u, Unit(f, p.unit + r)) <=> \E i \in 1..Len(t) : t[i] = u
        <5>1. PICK n : n = p.unit /\ n \in Nat \ {0}
          BY <1>4, <4>1
        <5>2. PICK s : s = Got /\ s \in Seq(Units)
          BY <4>5
        <5>3. t \in Seq(Units) /\ GoesOn(s, t, f, n, r) /\ HasAll(s, Unit(f, n))
          BY <4>7, <4>8, <4>9, <5>1, <5>2 DEF GoesOn, HasAll
        <5>4. f \in 1..Len(sent) /\ n + r <= sent[f].length + 1 /\ r \in Nat
          BY <1>1, <4>1, <5>1
        <5>5. HasAll(t, Unit(f, n + r))
          BY ONLY TypeOK, <4>2, <5>1, <5>2, <5>3, <5>4, GotMore
        <5> QED
          BY <5>1, <5>5 DEF HasAll
      <4>11. ASSUME NEW u \in DataUnits PROVE Before(u, Unit(f, p.unit + r)) <=> Before(u, q)
        <5>1. CASE r = left
          <6>1. p.unit + r = sent[f].length + 1
            BY <4>1, <5>1 DEF At
          <6>2. q = Unit(f + 1, 0)
            BY <1>2, <3>2, <5>1 DEF Further
          <6> QED
            BY <4>1, <6>1, <6>2, BeforeFrame
        <5>2. CASE r # left
          BY <1>2, <3>2, <5>2 DEF Further
        <5> QED
          BY <5>1, <5>2
      <4>12. /\ \A i \in 1..Len(t) :
                  /\ t[i] \in DataUnits
                  /\ \A u \in DataUnits : Before(u, t[i]) <=> \E j \in 1..i-1 : t[j] = u
             /\ \A u \in DataUnits : Before(u, q) <=> \E i \in 1..Len(t) : t[i] = u
        BY <4>10, <4>11 DEF InOrder
      <4> QED
        BY ONLY <1>4, <4>9, <4>12 DEF GotAll, InOrder
    <3> QED
      BY <3>1, <3>2
  <2>3. ASSUME NEW g \in Pings PROVE g < q.frame <=> g < f
    <3>1. CASE q.frame = f
      BY <3>1
    <3>2. CASE q.frame # f
      <4>1. r = left /\ r > 0 /\ q.frame = f + 1 /\ p.unit > 0
        <5>1. r = left /\ r # 0
          BY <1>3, <3>2
        <5>2. r > 0
          BY <1>1, <5>1
        <5> QED
          BY <1>3, <5>1, <5>2
      <4>2. g # f
        BY <1>6, <4>1 DEF At, Pings
      <4> QED
        BY <1>4, <4>1, <4>2
    <3> QED
      BY <3>1, <3>2
  <2>4. AnsweredAll(q)'
    BY <1>1, <1>4, <1>6, <2>3 DEF AnsweredAll
  <2>5. Asking(q)'
    BY <1>4, <1>6 DEF Asking
  <2> QED
    BY <1>3, <2>1, <2>2, <2>4, <2>5, NowOpen
<1> QED
  BY <1>5, <1>6
-----------------------------------------------------------------------------
(* The client *)

\* What holds of pings and data holds of them in the next state.
LEMMA PongOnceNext ==
  Answerable /\ TypeOK' => (\A g, h \in Pings : Pong(g) = Pong(h) => g = h)'
<1>1. Answerable /\ TypeOK => \A g, h \in Pings : Pong(g) = Pong(h) => g = h
  BY PongOnce
<1>2. (Answerable /\ TypeOK => \A g, h \in Pings : Pong(g) = Pong(h) => g = h)'
  BY <1>1, PTL
<1> QED
  BY <1>2 DEF Answerable

\* The bytes of the data frames in the next state.
LEMMA DataUnitNext ==
  TypeOK' => (\A u : u \in DataUnits <=>
                /\ u \in Units /\ u.frame \in 1..Len(sent)
                /\ u.unit \in 1..sent[u.frame].length /\ sent[u.frame].op \in {"data", "pong"})'
<1>1. TypeOK => (\A u : u \in DataUnits <=>
                   /\ u \in Units /\ u.frame \in 1..Len(sent)
                   /\ u.unit \in 1..sent[u.frame].length /\ sent[u.frame].op \in {"data", "pong"})
  BY DataUnit
<1> QED
  BY <1>1, PTL

\* A frame more.
LEMMA SendsSame ==
  ASSUME TypeOK, TypeOK', NEW frame \in Frames, ClientSends(frame)
  PROVE  /\ \A f \in 1..Len(sent) : Pong(f)' = Pong(f) /\ Payload(f)' = Payload(f)
         /\ \A f \in Pings : f \in Pings' /\ f \in 1..Len(sent)
         /\ \A f \in Pings' : f \in Pings \/ f = Len(sent) + 1
         /\ \A u \in DataUnits : u \in DataUnits' /\ u.frame \in 1..Len(sent) /\ u.frame \in Nat
         /\ \A u \in DataUnits' :
              u \in DataUnits \/ (u.frame = Len(sent) + 1 /\ u.unit \in Nat \ {0})
<1>1. /\ Len(sent') = Len(sent) + 1 /\ Len(sent) \in Nat
      /\ \A f \in 1..Len(sent) : sent'[f] = sent[f]
  BY SendsWire
<1>2. \A f \in 1..Len(sent) : Pong(f)' = Pong(f) /\ Payload(f)' = Payload(f)
  BY <1>1 DEF Pong, Payload
<1>3. /\ \A f \in Pings : f \in Pings' /\ f \in 1..Len(sent)
      /\ \A f \in Pings' : f \in Pings \/ f = Len(sent) + 1
  BY <1>1 DEF Pings
<1>4. ASSUME NEW u
      PROVE  u \in DataUnits' <=>
               /\ u \in Units /\ u.frame \in 1..Len(sent') /\ u.unit \in 1..sent'[u.frame].length
               /\ sent'[u.frame].op \in {"data", "pong"}
  BY DataUnitNext
<1>5. ASSUME NEW u \in DataUnits
      PROVE  u \in DataUnits' /\ u.frame \in 1..Len(sent) /\ u.frame \in Nat
  BY <1>1, <1>4, DataUnit
<1>6. ASSUME NEW u \in DataUnits'
      PROVE  u \in DataUnits \/ (u.frame = Len(sent) + 1 /\ u.unit \in Nat \ {0})
  <2>1. /\ u \in Units /\ u.frame \in 1..Len(sent') /\ u.unit \in 1..sent'[u.frame].length
        /\ sent'[u.frame].op \in {"data", "pong"}
    BY <1>4
  <2>2. u.frame \in 1..Len(sent) \/ u.frame = Len(sent) + 1
    BY <1>1, <2>1
  <2>3. u.unit \in Nat \ {0}
    BY <2>1, UnitOf
  <2> QED
    BY <1>1, <2>1, <2>2, <2>3, DataUnit
<1> QED
  BY <1>2, <1>3, <1>5, <1>6

\* There is no answer yet to a ping that is only now sent.
LEMMA ClientSendsPongs ==
  ASSUME Answerable, TypeOK, TypeOK', PongsInOrder, NEW frame \in Frames, ClientSends(frame),
         NEW F, F = Len(sent) + 1
  PROVE  /\ PongsInOrder' /\ out' = out
         /\ F \in Pings' => \A i \in 1..Len(out) : out[i] # Pong(F)'
<1>1. out' = out /\ Len(sent') = F /\ Len(sent) \in Nat
  BY SendsWire DEF ClientSends
<1>2. ASSUME NEW i \in 1..Len(out), F \in Pings' PROVE out[i] # Pong(F)'
  <2>1. CASE out[i].op = "close"
    BY <2>1 DEF Pong
  <2>2. CASE out[i].op # "close"
    <3>1. PICK f \in Pings : out[i] = Pong(f)
      BY <2>2 DEF PongsInOrder
    <3>2. Pong(f)' = Pong(f) /\ f \in Pings' /\ f # F
      BY <1>1, <3>1, SendsSame
    <3>3. (\A g, h \in Pings : Pong(g) = Pong(h) => g = h)'
      BY PongOnceNext
    <3> QED
      BY <1>2, <3>1, <3>2, <3>3
  <2> QED
    BY <2>1, <2>2
<1>3. ASSUME NEW i \in 1..Len(out), out[i].op # "close"
      PROVE  \E f \in Pings' : /\ out[i] = Pong(f)'
                               /\ \A g \in Pings' : g < f <=> \E j \in 1..i-1 : out[j] = Pong(g)'
  <2>1. PICK f \in Pings : /\ out[i] = Pong(f)
                           /\ \A g \in Pings : g < f <=> \E j \in 1..i-1 : out[j] = Pong(g)
    BY <1>3 DEF PongsInOrder
  <2>2. Pong(f)' = Pong(f) /\ f \in Pings' /\ f \in 1..Len(sent)
    BY <2>1, SendsSame
  <2>3. ASSUME NEW g \in Pings' PROVE g < f <=> \E j \in 1..i-1 : out[j] = Pong(g)'
    <3>1. CASE g \in Pings
      <4>1. Pong(g)' = Pong(g)
        BY <3>1, SendsSame
      <4> QED
        BY <2>1, <3>1, <4>1
    <3>2. CASE g = F
      <4>1. ~(g < f)
        BY <1>1, <2>2, <3>2
      <4>2. \A j \in 1..i-1 : j \in 1..Len(out)
        BY Lists
      <4> QED
        BY <1>2, <2>3, <3>2, <4>1, <4>2
    <3> QED
      BY <1>1, <3>1, <3>2, SendsSame
  <2> QED
    BY <2>1, <2>2, <2>3
<1> QED
  BY <1>1, <1>2, <1>3 DEF PongsInOrder

\* A frame is sent.
LEMMA ClientSendsOpen ==
  ASSUME Answerable, TypeOK, TypeOK', PongsInOrder, InFrames, Stacked,
         NEW frame \in Frames, ClientSends(frame),
         NEW p \in Places, At(p), GotAll(p), Asking(p), AnsweredAll(p)
  PROVE  Open'
<1>1. PICK F : F = Len(sent) + 1
  OBVIOUS
<1>2. /\ Len(sent') = F /\ Len(sent) \in Nat /\ F \in Nat \ {0}
      /\ \A f \in 1..Len(sent) : sent'[f] = sent[f]
      /\ ~eof /\ ~eof' /\ Len(Wire) \in Nat /\ frame.length \in Nat
      /\ Len(Wire') = Len(Wire) + 1 + frame.length
      /\ \A i \in 1..Len(Wire) : Wire'[i] = Wire[i]
      /\ \A k \in 0..frame.length : Wire'[Len(Wire) + 1 + k] = Unit(F, k)
      /\ (Wire = <<>> <=> Len(Wire) = 0)
  BY <1>1, SendsWire, WireAt DEF WireIs
<1>3. /\ UNCHANGED <<left, opcode, pc, calls, out, taken>>
      /\ (Pinged' <=> Pinged) /\ Top' = Top /\ Got' = Got
  BY DEF ClientSends, websocket, Pinged, Top, Got
<1>4. /\ p.frame \in Nat \ {0} /\ p.unit \in Nat /\ p = Unit(p.frame, p.unit) /\ p.frame \in 1..F
  BY <1>1, PlaceOf, UnitOf DEF At
<1>5. p.frame = F => p.unit = 0 /\ Wire = <<>>
  <2>1. ASSUME p.frame = F PROVE p.unit = 0
    BY <1>1, <1>2, <2>1 DEF At
  <2>2. ASSUME p.frame = F, Wire # <<>> PROVE FALSE
    <3>1. Wire[1] = p /\ 1 \in 1..Len(Wire)
      BY <1>2, <2>2 DEF At
    <3> QED
      BY <1>1, <1>2, <2>2, <3>1, EndOf
  <2> QED
    BY <2>1, <2>2
<1>6. Wire = <<>> => p = Unit(F, 0)
  BY <1>1, <1>2, <1>4, <1>5 DEF At
<1>7. p \in Places'
  <2>1. CASE p.frame = F
    <3>1. Unit(F, 0) \in Places'
      <4>1. F \in 1..Len(sent') /\ 0 \in 0..sent'[F].length
        BY <1>1, <1>2, SendsWire
      <4> QED
        BY <4>1, PlaceOfNext
    <3> QED
      BY <1>4, <1>5, <2>1, <3>1
  <2>2. CASE p.frame # F
    <3>1. p.frame \in 1..Len(sent) /\ p.frame \in 1..Len(sent')
      BY <1>1, <1>2, <1>4, <2>2
    <3>2. sent[p.frame].length \in Nat
      BY <3>1, FrameOf
    <3>3. p.unit \in 0..sent'[p.frame].length
      <4>1. sent'[p.frame] = sent[p.frame]
        BY <1>2, <3>1
      <4> DEFINE n == sent[p.frame].length
      <4>2. n \in Nat /\ left \in Nat /\ (p.unit = 0 \/ (p.unit + left = n + 1 /\ left > 0))
        BY <3>2, Lists DEF At
      <4> HIDE DEF n
      <4>3. p.unit \in 0..n
        BY ONLY <1>4, <4>2
      <4> QED
        BY <4>1, <4>3 DEF n
    <3> QED
      BY <1>4, <3>1, <3>3, PlaceOfNext
  <2> QED
    BY <2>1, <2>2
<1>8. At(p)'
  <2>1. Wire' # <<>> /\ Wire'[1] = p
    <3>1. CASE Wire = <<>>
      <4>1. 0 \in 0..frame.length /\ Len(Wire) + 1 + 0 = 1
        BY <1>2, <3>1
      <4>2. Wire'[1] = Unit(F, 0)
        BY <1>2, <4>1
      <4>3. Len(Wire') # 0
        BY <1>2
      <4> QED
        BY <1>6, <3>1, <4>2, <4>3
    <3>2. CASE Wire # <<>>
      <4>1. 1 \in 1..Len(Wire) /\ Len(Wire') # 0
        BY <1>2, <3>2
      <4> QED
        BY <1>2, <3>2, <4>1 DEF At
    <3> QED
      BY <3>1, <3>2
  <2>2. p.unit > 0 => p.frame \in 1..Len(sent) /\ sent'[p.frame] = sent[p.frame]
    BY <1>1, <1>2, <1>4, <1>5
  <2> QED
    BY <1>2, <1>3, <1>4, <2>1, <2>2 DEF At
<1>9. GotAll(p)'
  <2>1. PICK s : s = Got
    OBVIOUS
  <2>2. /\ \A i \in 1..Len(s) :
             /\ s[i] \in DataUnits
             /\ \A u \in DataUnits : Before(u, s[i]) <=> \E j \in 1..i-1 : s[j] = u
        /\ \A u \in DataUnits : Before(u, p) <=> \E i \in 1..Len(s) : s[i] = u
    BY <2>1 DEF GotAll, InOrder
  <2>3. Len(s) \in Nat
    BY <2>1, GotOf
  <2>4. ASSUME NEW u \in DataUnits', u \notin DataUnits
        PROVE  /\ ~Before(u, p)
               /\ \A i \in 1..Len(s) : ~Before(u, s[i]) /\ s[i] # u
    <3>1. u.frame = F /\ u.unit \in Nat \ {0}
      BY <1>1, <2>4, SendsSame
    <3>2. ~Before(u, p)
      BY <1>2, <1>4, <1>5, <3>1 DEF Before
    <3>3. \A v \in DataUnits : ~Before(u, v) /\ v # u
      <4>1. \A v \in DataUnits : v.frame < F /\ v.frame \in Nat
        BY <1>1, <1>2, SendsSame
      <4> QED
        BY <1>2, <3>1, <4>1 DEF Before
    <3> QED
      BY <2>2, <3>2, <3>3
  <2>5. \A u \in DataUnits : u \in DataUnits'
    BY SendsSame
  <2>6. ASSUME NEW i \in 1..Len(s)
        PROVE  /\ s[i] \in DataUnits'
               /\ \A u \in DataUnits' : Before(u, s[i]) <=> \E j \in 1..i-1 : s[j] = u
    <3>1. \A j \in 1..i-1 : j \in 1..Len(s)
      BY <2>3
    <3> QED
      BY <2>2, <2>4, <2>5, <3>1
  <2>7. \A u \in DataUnits' : Before(u, p) <=> \E i \in 1..Len(s) : s[i] = u
    BY <2>2, <2>4
  <2> QED
    BY ONLY <1>3, <2>1, <2>6, <2>7 DEF GotAll, InOrder
<1>10. AnsweredAll(p)'
  <2>1. PICK m : m = IF Pinged /\ pc = "return" THEN p.frame - 1 ELSE p.frame
    OBVIOUS
  <2>2. ASSUME NEW f \in Pings'
        PROVE  (\E i \in 1..Len(out) : out[i] = Pong(f)') <=> f < m
    <3>1. CASE f \in Pings
      BY <2>1, <3>1, SendsSame DEF AnsweredAll
    <3>2. CASE f = F
      <4>1. ~(f < m)
        BY <1>1, <1>2, <1>4, <2>1, <3>2
      <4> QED
        BY <1>1, <2>2, <3>2, <4>1, ClientSendsPongs
    <3> QED
      BY <1>1, <3>1, <3>2, SendsSame
  <2> QED
    BY ONLY <1>3, <2>1, <2>2 DEF AnsweredAll
<1>11. Asking(p)'
  <2>1. \A f \in Pings : f \in Pings' /\ Payload(f)' = Payload(f)
    BY SendsSame
  <2> QED
    BY <1>3, <2>1 DEF Asking
<1> QED
  BY <1>7, <1>8, <1>9, <1>10, <1>11, NowOpen

\* More of a frame arrives.
LEMMA ClientSendsMoreOpen ==
  ASSUME TypeOK, TypeOK', ClientSendsMore,
         NEW p \in Places, At(p), GotAll(p), Asking(p), AnsweredAll(p)
  PROVE  Open'
<1>1. /\ sent' = sent /\ eof' = eof /\ Wire' = Wire
      /\ UNCHANGED <<left, opcode, pc, calls, out, taken>>
      /\ (Pinged' <=> Pinged) /\ Top' = Top /\ Got' = Got
  BY MoreWire DEF ClientSendsMore, websocket, Pinged, Top, Got
<1>2. /\ Places' = Places /\ DataUnits' = DataUnits /\ Pings' = Pings
      /\ \A f : Pong(f)' = Pong(f) /\ Payload(f)' = Payload(f)
  BY <1>1 DEF Places, DataUnits, Pings, Pong, Payload
<1>3. At(p)'
  BY <1>1 DEF At
<1>4. GotAll(p)'
  BY <1>1, <1>2 DEF GotAll, InOrder
<1>5. AnsweredAll(p)' /\ Asking(p)'
  BY <1>1, <1>2 DEF AnsweredAll, Asking
<1> QED
  BY <1>2, <1>3, <1>4, <1>5, NowOpen

\* The client closes the socket, perhaps in the middle of a data frame.
LEMMA ClientClosesOpen ==
  ASSUME TypeOK, TypeOK', Stacked, Arriving, ClientCloses,
         NEW p \in Places, At(p), GotAll(p), Asking(p), AnsweredAll(p)
  PROVE  Open'
<1>1. /\ sent' = sent /\ ~eof /\ eof' /\ Wire' = stream
      /\ UNCHANGED <<left, opcode, pc, calls, out, taken>>
      /\ (Pinged' <=> Pinged) /\ Top' = Top /\ Got' = Got
  BY ClosesWire DEF ClientCloses, websocket, Pinged, Top, Got
<1>2. /\ Places' = Places /\ DataUnits' = DataUnits /\ Pings' = Pings
      /\ \A f : Pong(f)' = Pong(f) /\ Payload(f)' = Payload(f)
  BY <1>1 DEF Places, DataUnits, Pings, Pong, Payload
<1>3. /\ Len(Wire) = Len(stream) + Len(rest) /\ Len(stream) \in Nat /\ Len(rest) \in Nat
      /\ \A i \in 1..Len(stream) : Wire[i] = stream[i]
      /\ \A i \in 1..Len(rest) : Wire[Len(stream) + i] = rest[i]
      /\ (Wire = <<>> <=> Len(Wire) = 0) /\ (stream = <<>> <=> Len(stream) = 0)
  BY WireAt DEF WireIs, TypeOK
<1>4. Wire' # <<>> => Wire'[1] = p
  <2>1. ASSUME stream # <<>> PROVE Wire # <<>> /\ Wire[1] = stream[1]
    BY <1>3, <2>1
  <2> QED
    BY <1>1, <2>1 DEF At
<1>5. ASSUME Wire' = <<>>, p.frame <= Len(sent)
      PROVE  p.frame = Len(sent) /\ p.unit > 0 /\ sent[p.frame].op \in {"data", "pong"}
  <2>1. Wire # <<>>
    BY <1>1, <1>5 DEF At
  <2>2. p = rest[1] /\ 1 \in 1..Len(rest) /\ rest # <<>>
    <3>1. Len(stream) = 0 /\ 1 \in 1..Len(rest) /\ Len(stream) + 1 = 1
      BY <1>1, <1>3, <1>5, <2>1
    <3>2. Wire[1] = rest[1] /\ rest # <<>>
      BY <1>3, <3>1
    <3> QED
      BY <2>1, <3>1, <3>2 DEF At
  <2>3. p.frame = Len(sent) /\ p.unit > 0 /\ sent[Len(sent)].op # "ping"
    BY <2>2 DEF Arriving
  <2>4. ~Pinged
    BY <2>3, Stack DEF Asking, Pings
  <2> QED
    BY <2>3, <2>4 DEF At
<1>6. At(p)'
  BY <1>1, <1>4, <1>5 DEF At
<1>7. GotAll(p)'
  BY <1>1, <1>2 DEF GotAll, InOrder
<1>8. AnsweredAll(p)' /\ Asking(p)'
  BY <1>1, <1>2 DEF AnsweredAll, Asking
<1> QED
  BY <1>2, <1>6, <1>7, <1>8, NowOpen
-----------------------------------------------------------------------------
(* The invariant *)

\* Answers stay in order while none is sent, and when the close is.
LEMMA PongsStay ==
  ASSUME TypeOK, PongsInOrder, UNCHANGED sent,
         out' = out \/ \E s : out' = Append(out, [op |-> "close", payload |-> s])
  PROVE  /\ PongsInOrder'
         /\ \A f \in Pings : (\E i \in 1..Len(out) : out[i] = Pong(f)) =>
              f \in Pings' /\ (\E i \in 1..Len(out') : out'[i] = Pong(f)') /\ Pings' = Pings
<1>1. Pings' = Pings /\ \A f : Pong(f)' = Pong(f)
  BY DEF Pings, Pong, Payload
<1>2. CASE out' = out
  BY <1>1, <1>2 DEF PongsInOrder
<1>3. CASE \E s : out' = Append(out, [op |-> "close", payload |-> s])
  <2>1. PICK s : out' = Append(out, [op |-> "close", payload |-> s])
    BY <1>3
  <2> DEFINE close == [op |-> "close", payload |-> s]
  <2>2. out \in Seq([op : Ops, payload : Seq(Units) \cup {Garbage}]) /\ Len(out) \in Nat
    BY DEF TypeOK
  <2>3. close.op = "close" /\ out' = Append(out, close)
    BY <2>1
  <2> HIDE DEF close
  <2>4. /\ Len(out') = Len(out) + 1 /\ \A i \in 1..Len(out) : out'[i] = out[i]
        /\ out'[Len(out) + 1] = close
    BY <2>2, <2>3
  <2>5. ASSUME NEW i \in 1..Len(out'), out'[i].op # "close"
        PROVE  \E f \in Pings : /\ out'[i] = Pong(f)
                                /\ \A g \in Pings : g < f <=> \E j \in 1..i-1 : out'[j] = Pong(g)
    <3>1. i # Len(out) + 1
      BY <2>3, <2>4, <2>5
    <3>2. i \in 1..Len(out)
      BY <2>2, <2>4, <3>1
    <3>3. \A j \in 1..i-1 : j \in 1..Len(out) /\ out'[j] = out[j]
      BY <2>2, <2>4, <3>2
    <3>4. PICK f \in Pings : /\ out[i] = Pong(f)
                             /\ \A g \in Pings : g < f <=> \E j \in 1..i-1 : out[j] = Pong(g)
      BY <2>4, <2>5, <3>2 DEF PongsInOrder
    <3> QED
      BY <2>4, <3>2, <3>3, <3>4
  <2>6. \A i \in 1..Len(out) : i \in 1..Len(out')
    BY <2>2, <2>4
  <2> QED
    BY <1>1, <2>4, <2>5, <2>6 DEF PongsInOrder
<1> QED
  BY <1>2, <1>3

\* When the header of a close frame has been read.
LEMMA ShutStep ==
  ASSUME Answerable, TypeOK, TypeOK', Sound, InFrames, Arriving, Stacked, Stacked',
         PongsInOrder, ~PayloadFails, Closing, Shut, [Next]_vars
  PROVE  PongsInOrder' /\ Shut'
<1>1. \A frame \in Frames : ~ClientSends(frame)
  BY ClosingStep
<1>2. ASSUME UNCHANGED sent, \A i \in 1..Len(Wire') : Wire'[i].unit > 0,
             out' = out \/ (\E s : out' = Append(out, [op |-> "close", payload |-> s])), ~Pinged'
      PROVE  PongsInOrder' /\ Shut'
  <2>1. Pings' = Pings
    BY <1>2 DEF Pings
  <2> QED
    BY <1>2, <2>1, PongsStay DEF Shut
<1>3. ASSUME ClientSendsMore \/ ClientCloses \/ Still \/ (\E r \in 0..Len(stream) : Dropped(r))
      PROVE  UNCHANGED sent /\ \A i \in 1..Len(Wire') : Wire'[i].unit > 0
  <2>1. CASE ClientSendsMore
    BY <2>1, MoreWire DEF Shut
  <2>2. CASE ClientCloses
    <3>1. /\ sent' = sent /\ Wire' = stream /\ Len(stream) \in Nat /\ Len(rest) \in Nat
          /\ Len(Wire) = Len(stream) + Len(rest)
          /\ \A i \in 1..Len(stream) : Wire[i] = stream[i]
      BY <2>2, ClosesWire
    <3>2. \A i \in 1..Len(stream) : i \in 1..Len(Wire)
      BY <3>1
    <3> QED
      BY <3>1, <3>2 DEF Shut
  <2>3. CASE Still
    BY <2>3, StillSame DEF Still, Shut
  <2>4. ASSUME NEW r \in 0..Len(stream), Dropped(r)
        PROVE  UNCHANGED sent /\ \A i \in 1..Len(Wire') : Wire'[i].unit > 0
    BY <2>4, DropWire DEF Shut, Dropped
  <2> QED
    BY <1>3, <2>1, <2>2, <2>3, <2>4
<1>4. UNCHANGED sent /\ \A i \in 1..Len(Wire') : Wire'[i].unit > 0
  BY <1>1, <1>3, ServerReads
<1>5. ~HeaderOfData /\ ~HeaderOfPing /\ ~HeaderOfClose
  <2>1. ASSUME NEW op, NextHeader(op) PROVE FALSE
    <3>1. stream # <<>> /\ Head(stream).unit = 0
      BY <2>1 DEF NextHeader
    <3>2. Wire[1].unit = 0 /\ 1 \in 1..Len(Wire)
      BY <3>1, FirstSent
    <3> QED
      BY <3>2 DEF Shut
  <2> QED
    BY <2>1 DEF HeaderOfData, HeaderOfPing, HeaderOfClose
<1>6. ~Pinged
  BY DEF Shut
<1>7. ~ReturnToPing
  BY <1>6 DEF ReturnToPing, Stacked, Pinged
<1>8. ASSUME UNCHANGED calls PROVE ~Pinged'
  BY <1>6, <1>8 DEF Pinged, Top
<1>9. ASSUME ReadPayload PROVE ~Pinged' /\ out' = out
  BY <1>6, <1>9, ReadsPiece DEF Pinged
<1>10. ASSUME ReturnToHandler PROVE ~Pinged' /\ out' = out
  <2>1. calls # <<>> /\ ~Pinged /\ calls' = Front(calls) /\ pc' = "callback"
    BY <1>6, <1>10 DEF ReturnToHandler, Stacked
  <2>2. calls' = <<>>
    BY <2>1, Stack, Pops
  <2> QED
    BY <1>10, <2>2 DEF Pinged, ReturnToHandler
<1>11. ASSUME NEW n \in ReadSizes, HandlerReads(n) PROVE ~Pinged' /\ out' = out
  <2>1. StartRead("handler", n) /\ out' = out
    BY <1>11 DEF HandlerReads
  <2> DEFINE call == [for |-> "handler", want |-> n, payload |-> <<>>,
                      last |-> NoLevel, status |-> 0]
  <2>2. Top' = call
    BY <1>6, <2>1, Pushes
  <2> QED
    BY <2>1, <2>2 DEF Pinged
<1>12. ASSUME CloseStatus
       PROVE  /\ out' = out \/ \E s : out' = Append(out, [op |-> "close", payload |-> s])
              /\ ~Pinged'
  BY <1>6, <1>12, FailsKeeps DEF CloseStatus
<1>17. ASSUME HeaderUnread PROVE ~Pinged' /\ out' = out
  BY <1>6, <1>17, FailsKeeps DEF HeaderUnread
<1>13. ASSUME NEW more \in BOOLEAN, HandlerReturns(more) PROVE UNCHANGED calls /\ out' = out
  BY <1>13 DEF HandlerReturns
<1>14. ASSUME NEW request \in Requests, Handshake(request) PROVE UNCHANGED calls /\ out' = out
  BY <1>14 DEF Handshake
<1>15. ASSUME ClientSendsMore \/ ClientCloses \/ Free \/ ReadStart \/ Poll
                \/ HandlerStops \/ UNCHANGED vars
       PROVE  UNCHANGED calls /\ out' = out
  BY <1>15 DEF ClientSendsMore, ClientCloses, Free, ReadStart, Poll,
               HandlerStops, vars
<1>16. /\ ~Pinged'
       /\ out' = out \/ \E s : out' = Append(out, [op |-> "close", payload |-> s])
  BY ONLY <1>1, <1>5, <1>7, <1>8, <1>9, <1>10, <1>11, <1>12, <1>13, <1>14, <1>15, <1>17,
     ~PayloadFails, [Next]_vars DEF Next, Server, Closed
<1> QED
  BY <1>2, <1>4, <1>16

\* Until then.
LEMMA OpenStep ==
  ASSUME Answerable, TypeOK, TypeOK', Sound, InFrames, Arriving, Stacked, Stacked',
         PongsInOrder, ~PayloadFails, ~Closing, Open, [Next]_vars
  PROVE  PongsInOrder' /\ IF Closing' THEN Shut' ELSE Open'
<1>1. PICK p \in Places : At(p) /\ GotAll(p) /\ Asking(p) /\ AnsweredAll(p)
  BY DEF Open
<1>2. Closing' => HeaderOfClose
  BY <1>1, ClosingStep
<1>3. HeaderOfClose => Closing' /\ Shut'
  BY <1>1, ClosingStep, HeaderOfCloseShut
<1>4. SUFFICES PongsInOrder' /\ (HeaderOfClose \/ Open')
  BY <1>2, <1>3
<1>5. ASSUME out' = out, UNCHANGED sent PROVE PongsInOrder'
  BY <1>5, PongsStay
<1> USE DEF client, websocket
<1>6. ASSUME NEW frame \in Frames, ClientSends(frame) PROVE PongsInOrder' /\ Open'
  BY <1>1, <1>6, ClientSendsPongs, ClientSendsOpen
<1>7. ASSUME ClientSendsMore PROVE PongsInOrder' /\ Open'
  <2>1. out' = out /\ UNCHANGED sent
    BY <1>7 DEF ClientSendsMore
  <2> QED
    BY <1>1, <1>5, <1>7, <2>1, ClientSendsMoreOpen
<1>8. ASSUME ClientCloses PROVE PongsInOrder' /\ Open'
  <2>1. out' = out /\ UNCHANGED sent
    BY <1>8 DEF ClientCloses
  <2> QED
    BY <1>1, <1>5, <1>8, <2>1, ClientClosesOpen
<1>9. ASSUME Still, UNCHANGED <<left, opcode, calls, out, taken>>,
             pc' = "header" => pc = "header" \/ left = 0,
             Pinged => pc' = pc \/ (pc = "read" /\ pc' = "payload")
      PROVE  PongsInOrder' /\ Open'
  <2>1. UNCHANGED sent /\ out' = out
    BY <1>9 DEF Still
  <2> QED
    BY <1>1, <1>5, <1>9, <2>1, QuietOpen
<1>10. pc \notin {"read", "payload", "return"} => ~Pinged
  BY DEF Stacked
<1>11. ASSUME NEW request \in Requests, Handshake(request) PROVE PongsInOrder' /\ Open'
  <2>1. /\ Still /\ UNCHANGED <<left, opcode, calls, out, taken>> /\ pc = "new" /\ pc' # "header"
    BY <1>11 DEF Handshake, Still
  <2> QED
    BY <1>9, <1>10, <2>1
<1>12. ASSUME Free \/ HandlerStops \/ UNCHANGED vars PROVE PongsInOrder' /\ Open'
  <2>1. /\ Still /\ UNCHANGED <<left, opcode, calls, out, taken>>
        /\ pc' = "header" => pc = "header"
        /\ pc \notin {"read", "payload", "return"} \/ pc' = pc
    BY <1>12 DEF Free, HandlerStops, vars, Still
  <2> QED
    BY <1>9, <1>10, <2>1
<1>23. ASSUME HeaderUnread PROVE PongsInOrder' /\ Open'
  <2>1. out' = out /\ UNCHANGED sent
    BY <1>23 DEF HeaderUnread
  <2> QED
    BY <1>1, <1>5, <1>23, <2>1, HeaderUnreadOpen
<1>13. ASSUME ReadStart PROVE PongsInOrder' /\ Open'
  <2>1. /\ Still /\ UNCHANGED <<left, opcode, calls, out, taken>>
        /\ pc = "read" /\ pc' = IF left = 0 THEN "header" ELSE "payload"
    BY <1>13 DEF ReadStart, Still
  <2>2. Pinged => left # 0
    BY <1>1, <2>1, Lists DEF Asking, At
  <2> QED
    BY <1>9, <2>1, <2>2
<1>14. ASSUME Poll \/ \E more \in BOOLEAN : HandlerReturns(more) PROVE PongsInOrder' /\ Open'
  <2>1. /\ Still /\ UNCHANGED <<left, opcode, calls, out, taken>>
        /\ pc' = "header" => left = 0
        /\ pc \notin {"read", "payload", "return"}
    BY <1>14 DEF Poll, HandlerReturns, Still
  <2> QED
    BY <1>9, <1>10, <2>1
<1>15. ASSUME NEW n \in ReadSizes, HandlerReads(n) PROVE PongsInOrder' /\ Open'
  <2>1. out' = out /\ UNCHANGED sent
    BY <1>15 DEF HandlerReads
  <2> QED
    BY <1>1, <1>5, <1>15, <2>1, HandlerReadsOpen
<1>16. ASSUME ReturnToHandler PROVE PongsInOrder' /\ Open'
  <2>1. out' = out /\ UNCHANGED sent
    BY <1>16 DEF ReturnToHandler
  <2> QED
    BY <1>1, <1>5, <1>16, <2>1, ReturnToHandlerOpen
<1>17. ASSUME ReturnToPing PROVE PongsInOrder' /\ Open'
  BY <1>1, <1>17, ReturnToPingOpen
<1>18. ASSUME HeaderOfData PROVE PongsInOrder' /\ Open'
  <2>1. out' = out /\ UNCHANGED sent
    BY <1>18 DEF HeaderOfData, NextHeader
  <2> QED
    BY <1>1, <1>5, <1>18, <2>1, HeaderOfDataOpen
<1>19. ASSUME HeaderOfPing PROVE PongsInOrder' /\ Open'
  <2>1. out' = out /\ UNCHANGED sent
    BY <1>19 DEF HeaderOfPing, NextHeader
  <2> QED
    BY <1>1, <1>5, <1>19, <2>1, HeaderOfPingOpen
<1>20. ASSUME HeaderOfClose PROVE PongsInOrder'
  BY <1>5, <1>20 DEF HeaderOfClose, NextHeader
<1>21. ~CloseStatus
  BY DEF CloseStatus, Arriving
<1>22. ASSUME ReadPayload PROVE PongsInOrder' /\ Open'
  <2>1. out' = out /\ UNCHANGED sent
    BY <1>22 DEF ReadPayload
  <2> QED
    BY <1>1, <1>5, <1>22, <2>1, ReadPayloadOpen
<1> QED
  BY ONLY <1>6, <1>7, <1>8, <1>11, <1>12, <1>13, <1>14, <1>15, <1>16, <1>17, <1>18, <1>19, <1>20,
     <1>21, <1>22, <1>23, ~PayloadFails, [Next]_vars DEF Next, Server, Closed

\* Nothing has been sent.
LEMMA WebsocketInit == Init => WebsocketInv
<1> SUFFICES ASSUME Init PROVE WebsocketInv
  OBVIOUS
<1> USE DEF Init
<1>1. TypeOK
  <2>1. \A S : <<>> \in Seq(S)
    OBVIOUS
  <2>2. eof \in BOOLEAN /\ cb \in BOOLEAN /\ opcode \in Ops /\ left \in Nat /\ before \in Nat
    BY DEF Ops
  <2>3. /\ sent \in Seq(Frames) /\ stream \in Seq(Units) /\ rest \in Seq(Units)
        /\ calls \in Seq(Call)
        /\ out \in Seq([op : Ops, payload : Seq(Units) \cup {Garbage}]) /\ taken \in Seq(Units)
    BY ONLY <2>1, Init DEF Init
  <2> QED
    BY <2>2, <2>3 DEF TypeOK, Call
<1>2. PongsInOrder
  BY DEF PongsInOrder
<1>3. Wire = <<>> /\ Len(Wire) = 0 /\ Len(sent) = 0 /\ Len(calls) = 0 /\ Len(out) = 0
  BY DEF Wire
<1>4. InFrames
  BY <1>3 DEF InFrames
<1>14. Sound
  BY <1>3 DEF Sound
<1>5. Arriving
  BY <1>3 DEF Arriving
<1>6. Stacked /\ ~Pinged
  BY <1>3 DEF Stacked, Pinged
<1>7. ~Closing
  BY <1>3 DEF Closing
<1>8. PICK p : p = Unit(1, 0)
  OBVIOUS
<1>9. p \in Places /\ p.frame = 1 /\ p.unit = 0
  BY <1>1, <1>3, <1>8, PlaceOf, UnitOf
<1>10. DataUnits = {} /\ Pings = {}
  <2>1. \A u : u \notin DataUnits
    BY <1>1, <1>3, DataUnit
  <2> QED
    BY <1>3, <2>1 DEF Pings
<1>11. Got = <<>> /\ Len(Got) = 0
  BY <1>1, <1>6, GotOf
<1>12. At(p)
  BY <1>3, <1>9 DEF At
<1>13. GotAll(p) /\ Asking(p) /\ AnsweredAll(p)
  BY <1>6, <1>10, <1>11 DEF GotAll, InOrder, Asking, AnsweredAll
<1> QED
  BY <1>1, <1>2, <1>4, <1>5, <1>6, <1>7, <1>9, <1>12, <1>13, <1>14 DEF WebsocketInv, Open

\* Reads in vain are counted.
LEMMA FailsStep ==
  ASSUME TypeOK, [Next]_vars, fails' = 0
  PROVE  fails = 0 /\ ~PayloadFails
<1>1. ~PayloadFails
  BY DEF PayloadFails, TypeOK
<1>2. fails' = fails \/ PayloadFails
  BY DEF Next, Server, Closed, vars, client, websocket, ClientSends, ClientSendsMore, ClientCloses,
     Handshake, Free, HeaderOfData, HeaderOfPing, HeaderOfClose, NextHeader, HeaderUnread,
     CloseStatus, ReadStart, ReadPayload, ReturnToHandler, ReturnToPing, Poll, HandlerReads,
     HandlerStops, HandlerReturns
<1> QED
  BY <1>1, <1>2

\* This much is so even out of step: there is a read when one is under way, and units are
\* of frames.
LEMMA SoundStep ==
  ASSUME TypeOK, TypeOK', Sound, [Next]_vars
  PROVE  Sound'
<1> USE DEF client, websocket
<1>1. ASSUME pc' \in {"read", "payload", "return"} PROVE calls' # <<>>
  <2>1. ASSUME UNCHANGED <<pc, calls>> PROVE calls' # <<>>
    BY <1>1, <2>1 DEF Sound
  <2>2. ASSUME NEW frame \in Frames, ClientSends(frame) PROVE calls' # <<>>
    BY <2>1, <2>2 DEF ClientSends
  <2>3. ASSUME ClientSendsMore \/ ClientCloses \/ HandlerStops \/ UNCHANGED vars
        PROVE  calls' # <<>>
    BY <2>1, <2>3 DEF ClientSendsMore, ClientCloses, HandlerStops, vars
  <2>4. ASSUME NEW request \in Requests, Handshake(request) PROVE FALSE
    BY <1>1, <2>4 DEF Handshake
  <2>5. ASSUME Free \/ HeaderOfClose \/ ReturnToHandler \/ Poll PROVE FALSE
    BY <1>1, <2>5 DEF Free, HeaderOfClose, ReturnToHandler, Poll
  <2>6. ASSUME NEW more \in BOOLEAN, HandlerReturns(more) PROVE FALSE
    BY <1>1, <2>6 DEF HandlerReturns
  <2>7. ASSUME HeaderOfData PROVE calls' # <<>>
    BY <1>1, <2>7 DEF HeaderOfData, HeaderDone
  <2>8. ASSUME NEW for, NEW n, StartRead(for, n) PROVE calls' # <<>>
    <3> DEFINE new == [for |-> for, want |-> n, payload |-> <<>>, last |-> NoLevel, status |-> 0]
    <3>1. calls' = Append(calls, new)
      BY <2>8 DEF StartRead
    <3> HIDE DEF new
    <3>2. calls \in Seq(Call)
      BY DEF TypeOK, Call
    <3>3. Len(calls') = Len(calls) + 1 /\ Len(calls) \in Nat
      BY ONLY <3>1, <3>2
    <3>4. Len(<<>>) = 0
      OBVIOUS
    <3>5. Len(calls') # 0
      BY ONLY <3>3
    <3> QED
      BY ONLY <3>4, <3>5
  <2>9. ASSUME HeaderOfPing PROVE calls' # <<>>
    BY <2>8, <2>9 DEF HeaderOfPing
  <2>10. ASSUME NEW n \in ReadSizes, HandlerReads(n) PROVE calls' # <<>>
    BY <2>8, <2>10 DEF HandlerReads
  <2>11. ASSUME HeaderFails PROVE calls' # <<>>
    <3>1. calls # <<>> /\ calls' = [calls EXCEPT ![Len(calls)].status = 2]
      BY <1>1, <2>11 DEF HeaderFails
    <3> QED
      BY <3>1, CallsOf
  <2>12. ASSUME HeaderUnread \/ CloseStatus PROVE calls' # <<>>
    BY <2>11, <2>12 DEF HeaderUnread, CloseStatus
  <2>13. ASSUME ReadStart PROVE calls' # <<>>
    BY <2>13 DEF ReadStart, Sound
  <2>14. ASSUME ReadPayload PROVE calls' # <<>>
    <3>1. calls # <<>> /\ \E top : calls' = [calls EXCEPT ![Len(calls)] = top]
      BY <2>14 DEF ReadPayload, Sound
    <3>2. DOMAIN calls' = DOMAIN calls
      BY <3>1
    <3> QED
      BY <3>1, <3>2 DEF TypeOK
  <2>15. ASSUME PayloadFails PROVE calls' # <<>>
    <3>1. calls # <<>> /\ calls' = [calls EXCEPT ![Len(calls)].status = 1]
      BY <2>15 DEF PayloadFails, Sound
    <3> QED
      BY <3>1, CallsOf
  <2>16. ASSUME ReturnToPing PROVE calls' # <<>>
    <3>1. calls # <<>> /\ calls' = Front(calls) /\ Len(calls) # 1
      BY <1>1, <2>16 DEF ReturnToPing, Sound
    <3>2. Len(calls') = Len(calls) - 1 /\ Len(calls) \in Nat \ {0}
      BY <3>1, TopOf
    <3> QED
      BY <3>1, <3>2
  <2> QED
    BY ONLY <2>2, <2>3, <2>4, <2>5, <2>6, <2>7, <2>9, <2>10, <2>12, <2>13, <2>14, <2>15, <2>16,
       [Next]_vars DEF Next, Server, Closed
<1>2. ASSUME NEW i \in 1..Len(Wire') PROVE Wire'[i].frame \in 1..Len(sent')
  <2>1. Len(sent) \in Nat /\ Len(Wire) \in Nat
    BY Lists, WireAt DEF WireIs
  <2>2. ASSUME NEW frame \in Frames, ClientSends(frame) PROVE Wire'[i].frame \in 1..Len(sent')
    <3>1. /\ Len(sent') = Len(sent) + 1 /\ frame.length \in Nat
          /\ Len(Wire') = Len(Wire) + 1 + frame.length
          /\ \A j \in 1..Len(Wire) : Wire'[j] = Wire[j]
          /\ \A k \in 0..frame.length : Wire'[Len(Wire) + 1 + k] = Unit(Len(sent) + 1, k)
      BY <2>2, SendsWire
    <3>2. CASE i \in 1..Len(Wire)
      BY <2>1, <3>1, <3>2 DEF Sound
    <3>3. CASE i \notin 1..Len(Wire)
      <4>1. PICK k \in 0..frame.length : i = Len(Wire) + 1 + k
        <5>1. i - Len(Wire) - 1 \in 0..frame.length /\ i = Len(Wire) + 1 + (i - Len(Wire) - 1)
          BY <2>1, <3>1, <3>3
        <5> QED
          BY <5>1
      <4> QED
        BY <2>1, <3>1, <4>1, UnitOf
    <3> QED
      BY <3>2, <3>3
  <2>3. CASE ClientSendsMore
    BY <2>3, MoreWire DEF Sound
  <2>4. CASE ClientCloses
    <3>1. /\ sent' = sent /\ Wire' = stream /\ Len(stream) \in Nat /\ Len(rest) \in Nat
          /\ Len(Wire) = Len(stream) + Len(rest)
          /\ \A j \in 1..Len(stream) : Wire[j] = stream[j]
      BY <2>4, ClosesWire
    <3>2. i \in 1..Len(stream) /\ i \in 1..Len(Wire)
      BY <3>1
    <3> QED
      BY <3>1, <3>2 DEF Sound
  <2>5. CASE Still
    BY <2>5, StillSame DEF Still, Sound
  <2>6. ASSUME NEW r, Dropped(r) PROVE Wire'[i].frame \in 1..Len(sent')
    BY <2>6, DropWire DEF Dropped, Sound
  <2> QED
    BY <2>2, <2>3, <2>4, <2>5, <2>6, ServerReads
<1> QED
  BY <1>1, <1>2 DEF Sound

\* Every step keeps the invariant.
LEMMA WebsocketStep ==
  ASSUME Answerable, WebsocketInv, [Next]_vars
  PROVE  WebsocketInv'
<1>1. TypeOK /\ Sound
  BY DEF WebsocketInv
<1>2. TypeOK'
  BY <1>1, TypeStep
<1>3. Sound'
  BY <1>1, <1>2, SoundStep
<1>4. ASSUME fails' = 0
      PROVE  /\ PongsInOrder' /\ InFrames' /\ Arriving' /\ Stacked'
             /\ IF Closing' THEN Shut' ELSE Open'
  <2>1. fails = 0 /\ ~PayloadFails
    BY <1>1, <1>4, FailsStep
  <2>2. PongsInOrder /\ InFrames /\ Arriving /\ Stacked /\ IF Closing THEN Shut ELSE Open
    BY <2>1 DEF WebsocketInv
  <2>3. InFrames' /\ Arriving' /\ Stacked'
    BY <1>1, <1>2, <2>1, <2>2, InFramesStep, ArrivingStep, StackedStep
  <2>4. CASE Closing
    BY <1>1, <1>2, <2>1, <2>2, <2>3, <2>4, ClosingStep, ShutStep
  <2>5. CASE ~Closing
    BY <1>1, <1>2, <2>1, <2>2, <2>3, <2>5, OpenStep
  <2> QED
    BY <2>3, <2>4, <2>5
<1> QED
  BY <1>2, <1>3, <1>4 DEF WebsocketInv
-----------------------------------------------------------------------------
(* What it says *)

\* A header that is not in the stream is before p.
LEMMA HeadersBehind ==
  ASSUME TypeOK, InFrames, Arriving, NEW p \in Places, At(p), NEW f \in 1..Len(sent),
         Unit(f, 0) \notin Range(stream)
  PROVE  f < p.frame \/ (f = p.frame /\ p.unit > 0)
<1>1. /\ p.frame \in Nat \ {0} /\ p.unit \in Nat /\ p = Unit(p.frame, p.unit)
      /\ f \in Nat \ {0} /\ Len(sent) \in Nat
  BY PlaceOf, UnitOf, Lists
<1>2. CASE Wire = <<>>
  BY <1>1, <1>2 DEF At
<1>3. CASE Wire # <<>>
  <2>1. /\ 1 \in 1..Len(Wire) /\ Wire[1] = p /\ p.frame \in 1..Len(sent) /\ InFrame(1)
        /\ Len(Wire) = Len(stream) + Len(rest) /\ Len(stream) \in Nat /\ Len(rest) \in Nat
        /\ \A i \in 1..Len(stream) : Wire[i] = stream[i]
        /\ \A i \in 1..Len(rest) : Wire[Len(stream) + i] = rest[i]
    BY <1>3, AtFrame, EndOf, WireAt DEF WireIs
  <2>2. DOMAIN stream = 1..Len(stream)
    BY DEF TypeOK
  <2>3. ASSUME f > p.frame PROVE FALSE
    <3>1. f \in p.frame + 1..Len(sent)
      BY <1>1, <2>3
    <3>2. PICK j \in 1+1..Len(stream) : stream[j] = Unit(f, 0)
      BY <2>1, <3>1 DEF InFrame
    <3> QED
      BY <2>1, <2>2, <3>2 DEF Range
  <2>4. ASSUME f = p.frame, p.unit = 0 PROVE FALSE
    <3>1. CASE Len(stream) > 0
      BY <1>1, <2>1, <2>2, <2>4, <3>1 DEF Range
    <3>2. CASE Len(stream) = 0
      <4>1. 1 \in 1..Len(rest) /\ Len(stream) + 1 = 1
        BY <2>1, <3>2
      <4> QED
        BY <2>1, <2>4, <4>1 DEF Arriving
    <3> QED
      BY <2>1, <3>1, <3>2
  <2> QED
    BY <1>1, <2>3, <2>4
<1> QED
  BY <1>2, <1>3

\* What is left of the current frame is as long as data_left says.
LEMMA StepInStep ==
  ASSUME WebsocketInv, fails = 0
  PROVE  InStep
<1> USE DEF WebsocketInv
<1> SUFFICES ASSUME pc \in {"poll", "callback", "header", "payload"}, ~Closing, ~eof,
                    NEW f \in 1..Len(sent), Unit(f, 0) \notin Range(stream),
                    \A g \in f+1..Len(sent) : Unit(g, 0) \in Range(stream)
             PROVE  {u.unit : u \in {v \in Range(Wire) : v.frame = f /\ v.unit > 0}}
                      = sent[f].length - left + 1 .. sent[f].length
  BY DEF InStep, Wire
<1> DEFINE n == sent[f].length
           units == {u.unit : u \in {v \in Range(Wire) : v.frame = f /\ v.unit > 0}}
<1>1. PICK p \in Places : At(p)
  BY DEF Open
<1>2. /\ p.frame \in Nat \ {0} /\ p.unit \in Nat /\ p = Unit(p.frame, p.unit)
      /\ f \in Nat \ {0} /\ Len(sent) \in Nat /\ n \in Nat /\ left \in Nat
      /\ Len(Wire) \in Nat /\ DOMAIN Wire = 1..Len(Wire) /\ (Wire = <<>> <=> Len(Wire) = 0)
  BY PlaceOf, UnitOf, Lists, FrameOf, WireAt DEF WireIs
<1>3. \A x : x \in units <=>
              \E i \in 1..Len(Wire) : Wire[i].frame = f /\ Wire[i].unit > 0 /\ x = Wire[i].unit
  BY <1>2 DEF Range
<1> HIDE DEF units, n
<1>4. CASE f < p.frame
  <2>1. p.unit = 0 /\ left = 0
    <3>1. CASE p.frame > Len(sent)
      BY <1>1, <1>2, <3>1 DEF At
    <3>2. CASE p.frame <= Len(sent)
      <4>1. p.frame \in f+1..Len(sent)
        BY <1>2, <1>4, <3>2
      <4>2. PICK j \in 1..Len(stream) : stream[j] = Unit(p.frame, 0)
        <5>1. Unit(p.frame, 0) \in Range(stream) /\ DOMAIN stream = 1..Len(stream)
          BY <4>1 DEF TypeOK
        <5> QED
          BY <5>1 DEF Range
      <4>3. j \in 1..Len(Wire) /\ Wire[j] = Unit(p.frame, 0) /\ Wire # <<>> /\ 1 \in 1..Len(Wire)
        BY <1>2, <4>2, WireAt DEF WireIs
      <4>4. Wire[1] = p
        BY <1>1, <4>3 DEF At
      <4>5. ASSUME j # 1 PROVE FALSE
        <5>1. 1 < j
          BY <4>3, <4>5
        <5>2. Before(Wire[1], Wire[j])
          BY <4>3, <5>1 DEF InFrames
        <5> QED
          BY <1>2, <4>3, <4>4, <5>2, UnitOf DEF Before
      <4>6. p.unit = 0
        BY <4>3, <4>4, <4>5, UnitOf
      <4> QED
        BY <1>1, <4>6 DEF At
    <3> QED
      BY <1>2, <3>1, <3>2
  <2>2. \A i \in 1..Len(Wire) : Wire[i].frame # f
    <3>1. ASSUME NEW i \in 1..Len(Wire) PROVE Wire[i].frame # f
      <4>1. Wire # <<>> /\ 1 \in 1..Len(Wire) /\ (1 < i \/ i = 1)
        BY <1>2
      <4>2. Wire[1] = p
        BY <1>1, <4>1 DEF At
      <4>3. i = 1 \/ Before(p, Wire[i])
        BY <4>1, <4>2 DEF InFrames
      <4>4. Wire[i].frame \in Nat
        BY EndOf
      <4> QED
        BY <1>2, <1>4, <4>2, <4>3, <4>4 DEF Before
    <3> QED
      BY <3>1
  <2>3. n - left + 1 .. n = {}
    BY <1>2, <2>1
  <2>4. units = {}
    BY <1>3, <2>2
  <2> QED
    BY <2>3, <2>4 DEF units, n
<1>5. CASE f = p.frame /\ p.unit > 0
  <2>1. Wire # <<>>
    BY <1>1, <1>2, <1>5 DEF At
  <2>2. /\ 1 \in 1..Len(Wire) /\ End(1) = left /\ left \in Nat \ {0} /\ Wire[1] = p
        /\ \A i \in 1..left : i <= Len(Wire) => Wire[i] = Unit(f, p.unit + (i - 1))
        /\ f < Len(sent) => left < Len(Wire) /\ Wire[left + 1] = Unit(f + 1, 0)
        /\ f = Len(sent) => left = Len(Wire)
    BY <1>1, <1>5, <2>1, AtFrame
  <2>3. p.unit + left = n + 1
    BY <1>1, <1>5 DEF At, n
  <2> DEFINE w == Len(Wire)
             k == p.unit
             m == Len(sent)
  <2>10. w \in Nat /\ k \in Nat /\ left \in Nat /\ n \in Nat /\ m \in Nat /\ k + left = n + 1
        /\ f \in Nat /\ f <= m /\ k > 0
    BY <1>2, <1>5, <2>3
  <2>11. (f < m => left < w) /\ (f = m => left = w)
    BY <2>2
  <2> HIDE DEF w, k, m
  <2>4. left <= w
    BY ONLY <2>10, <2>11
  <2>5. \A i \in 1..left : i \in 1..w /\ Wire[i].frame = f /\ Wire[i].unit = k + (i - 1)
    <3>1. ASSUME NEW i \in 1..left
          PROVE  i \in 1..w /\ Wire[i].frame = f /\ Wire[i].unit = k + (i - 1)
      <4>1. i \in 1..w
        BY ONLY i \in 1..left, <2>10, <2>4
      <4>2. i <= Len(Wire)
        BY <4>1, <2>10 DEF w
      <4>3. Wire[i] = Unit(f, p.unit + (i - 1))
        BY <2>2, <4>2
      <4> QED
        BY <4>1, <4>3, UnitOf DEF k
    <3> QED
      BY <3>1
  <2>6. ASSUME NEW i \in 1..Len(Wire), i \notin 1..left PROVE Wire[i].frame # f
    <3>1. i \in 1..w
      BY <2>6 DEF w
    <3>2. f < m /\ left + 1 \in 1..w /\ (i = left + 1 \/ left + 1 < i)
      BY ONLY <2>10, <2>11, <3>1, i \notin 1..left
    <3>3. Wire[left + 1].frame = f + 1 /\ Wire[left + 1].unit = 0 /\ left + 1 \in 1..Len(Wire)
      BY <2>2, <3>2, UnitOf DEF w, m
    <3>4. i = left + 1 \/ Before(Wire[left + 1], Wire[i])
      BY <3>2, <3>3 DEF InFrames
    <3>5. Wire[i].frame \in Nat
      BY EndOf
    <3> QED
      BY <1>2, <3>3, <3>4, <3>5 DEF Before
  <2>7. ASSUME NEW x \in units PROVE x \in n - left + 1 .. n
    <3>1. PICK i \in 1..Len(Wire) : Wire[i].frame = f /\ x = Wire[i].unit
      BY <1>3
    <3>2. i \in 1..left /\ x = k + (i - 1)
      BY <2>5, <2>6, <3>1
    <3> QED
      BY ONLY <2>10, <3>2
  <2>8. ASSUME NEW x \in n - left + 1 .. n PROVE x \in units
    <3>1. x - k + 1 \in 1..left /\ k + ((x - k + 1) - 1) = x /\ x > 0
      BY ONLY <2>10, x \in n - left + 1 .. n
    <3>2. /\ x - k + 1 \in 1..Len(Wire) /\ Wire[x - k + 1].frame = f
          /\ Wire[x - k + 1].unit = x
      BY <2>5, <3>1 DEF w
    <3> QED
      BY <1>3, <3>1, <3>2
  <2>9. units = n - left + 1 .. n
    BY <2>7, <2>8
  <2> QED
    BY <2>9 DEF units, n
<1>6. f < p.frame \/ (f = p.frame /\ p.unit > 0)
  BY <1>1, HeadersBehind
<1> QED
  BY <1>4, <1>5, <1>6

\* The handler has got what was read for it, and what is read for it now comes behind.
LEMMA GetsData ==
  ASSUME WebsocketInv
  PROVE  HandlerGetsData
<1>0. TypeOK
  BY DEF WebsocketInv
<1>1. ASSUME fails = 0, ~Closing PROVE InOrder(taken)
  <2>6. Stacked /\ Open
    BY <1>1 DEF WebsocketInv
  <2>1. PICK p \in Places : GotAll(p)
    BY <2>6 DEF Open
  <2>2. taken \in Seq(Units) /\ Len(taken) \in Nat
    BY <1>0 DEF TypeOK
  <2>3. Len(taken) <= Len(Got) /\ \A i \in 1..Len(taken) : Got[i] = taken[i]
    <3>1. ASSUME NEW s \in Seq(Units)
          PROVE  /\ Len(taken) <= Len(taken \o s)
                 /\ \A i \in 1..Len(taken) : (taken \o s)[i] = taken[i]
      BY <2>2, <3>1, Joined
    <3> QED
      BY <1>0, <2>2, <2>6, <3>1, GotOf, Stack
  <2>4. Len(Got) \in Nat
    BY <1>0, <2>6, GotOf
  <2>5. ASSUME NEW i \in 1..Len(taken)
        PROVE  /\ taken[i] \in DataUnits
               /\ \A u \in DataUnits : Before(u, taken[i]) <=> \E j \in 1..i-1 : taken[j] = u
    <3>1. i \in 1..Len(Got) /\ \A j \in 1..i-1 : j \in 1..Len(taken)
      BY <2>2, <2>3, <2>4
    <3>2. /\ Got[i] \in DataUnits
          /\ \A u \in DataUnits : Before(u, Got[i]) <=> \E j \in 1..i-1 : Got[j] = u
      BY <2>1, <3>1 DEF GotAll, InOrder
    <3>3. Got[i] = taken[i] /\ \A j \in 1..i-1 : Got[j] = taken[j]
      BY <2>3, <3>1
    <3> QED
      BY <3>2, <3>3
  <2> QED
    BY <2>5 DEF InOrder
<1> QED
  BY <1>1, StepInStep DEF HandlerGetsData, WebsocketInv

\* Between two reads, a ping whose header has been read is answered.
LEMMA AnswersPings ==
  ASSUME WebsocketInv
  PROVE  PingsAnswered
<1>1. ASSUME fails = 0, pc \in {"poll", "callback"}, NEW f \in Pings,
             Unit(f, 0) \notin Range(stream)
      PROVE  \E i \in 1..Len(out) : out[i] = Pong(f)
  <2>3. TypeOK /\ InFrames /\ Arriving /\ Stacked /\ IF Closing THEN Shut ELSE Open
    BY <1>1 DEF WebsocketInv
  <2>1. CASE Closing
    BY <2>1, <2>3 DEF Shut
  <2>2. CASE ~Closing
    <3>1. PICK p \in Places : At(p) /\ AnsweredAll(p)
      BY <2>2, <2>3 DEF Open
    <3>2. ~Pinged
      BY <1>1, <2>3, Stack
    <3>3. f < p.frame \/ (f = p.frame /\ p.unit > 0)
      BY <1>1, <2>3, <3>1, HeadersBehind DEF Pings
    <3>4. ~(f = p.frame /\ p.unit > 0)
      BY <3>1, <3>2 DEF At, Pings
    <3> QED
      BY <3>1, <3>2, <3>3, <3>4 DEF AnsweredAll
  <2> QED
    BY <2>1, <2>2
<1> QED
  BY <1>1 DEF PingsAnswered, WebsocketInv

\* The invariant, for clients that are Answerable and as long as no piece of payload is read in
\* vain: what is on its way is whole frames; data_left, the opcode and the calls say where in
\* them the server is; handlers have got all the data, and pings their answers, up to there.
THEOREM WebsocketInvHolds == ASSUME Answerable PROVE Spec => []WebsocketInv
<1>1. Init => WebsocketInv
  BY WebsocketInit
<1>2. WebsocketInv /\ [Next]_vars => WebsocketInv'
  BY WebsocketStep
<1> QED
  BY <1>1, <1>2, PTL DEF Spec

\* However reads and frames are cut, and whether or not a nested read finds the next header:
\* as long as no piece of payload is read in vain (then data_left is wrong), and the client is
\* Answerable, onion_websocket_read puts every byte of the frames that are neither pings nor
\* closes into the handler's buffers, once and in order, and never loses its place in the
\* stream.  What it says of how much that was is another matter (ReadReturnsWritten).
THEOREM HandlerGetsDataHolds == ASSUME Answerable PROVE Spec => []HandlerGetsData
<1>1. WebsocketInv => HandlerGetsData
  BY GetsData
<1> QED
  BY <1>1, WebsocketInvHolds, PTL

\* Of pings that come with their payload, and have one (Answerable), as long as no piece of
\* payload is read in vain: each is answered by its pong, in order, before what came after it is
\* looked at.  Of empty and late pings this is false.
THEOREM PingsAnsweredHolds == ASSUME Answerable PROVE Spec => []PingsAnswered
<1>1. WebsocketInv => PingsAnswered
  BY AnswersPings
<1> QED
  BY <1>1, WebsocketInvHolds, PTL
=============================================================================
