----------------------- MODULE RequestParserProofs -----------------------
(***************************************************************************)
(* The temporary files of a connection follow its requests, whatever       *)
(* clients send and however it is cut.                                     *)
(***************************************************************************)
EXTENDS RequestParser, TLAPS

\* A sequence is one over its elements.
LEMMA OverItsElements ==
  ASSUME NEW S, NEW s \in Seq(S)
  PROVE  s \in Seq(ToSet(s))
BY DEF ToSet

\* So is a sequence with one more.
LEMMA AppendedOver ==
  ASSUME NEW s, s \in Seq(ToSet(s)), NEW x
  PROVE  /\ Append(s, x) \in Seq(ToSet(Append(s, x)))
         /\ DOMAIN Append(s, x) = DOMAIN s \union {Len(s) + 1}
         /\ Len(s) + 1 \notin DOMAIN s
         /\ Append(s, x)[Len(s) + 1] = x
         /\ \A i \in DOMAIN s : Append(s, x)[i] = s[i]
<1>1. s \in Seq(ToSet(s) \union {x})
  OBVIOUS
<1> DEFINE t == Append(s, x)
<1>2. t \in Seq(ToSet(s) \union {x})
  BY <1>1
<1>3. t \in Seq(ToSet(t))
  BY <1>2, OverItsElements
<1>4. /\ DOMAIN t = DOMAIN s \union {Len(s) + 1}
      /\ Len(s) + 1 \notin DOMAIN s
      /\ t[Len(s) + 1] = x
      /\ \A i \in DOMAIN s : t[i] = s[i]
  BY <1>1
<1> QED
  BY <1>3, <1>4

\* And so is a function on the same places.
LEMMA ReplacedOver ==
  ASSUME NEW s, s \in Seq(ToSet(s)),
         NEW t, t = [i \in DOMAIN t |-> t[i]], DOMAIN t = DOMAIN s
  PROVE  t \in Seq(ToSet(t))
<1>1. DOMAIN t = 1..Len(s) /\ Len(s) \in Nat
  OBVIOUS
<1>2. \A i \in 1..Len(s) : t[i] \in ToSet(t)
  BY <1>1 DEF ToSet
<1>3. t = [i \in 1..Len(s) |-> t[i]]
  BY <1>1
<1> QED
  BY <1>1, <1>2, <1>3
-----------------------------------------------------------------------------
\* A piece that is not the last of a token, or of a body, changes neither files nor
\* names: the invariant stays when the parser that goes on is not one of a file.
Quiet ==
  /\ files' = files /\ req'.FILES = req.FILES /\ "FILES" \in DOMAIN req' /\ "fd" \in DOMAIN part'
  /\ pc = "parse" /\ pc' \in {"parse", "poll", "process", "failed"}
  /\ parser' \in Parsers
  /\ parser \notin {"PUT", "PartFile"}
  /\ parser' \in Heading => parser \in Heading

\* Such a step keeps the invariant.
LEMMA QuietKeeps ==
  ASSUME FilesInv, Quiet
  PROVE  FilesInv'
<1>1. Linked'
  BY DEF FilesInv, Quiet, Linked, Named
<1>2. Receiving'
  BY DEF FilesInv, Quiet, Receiving
<1>3. Nameless'
  BY NullAssumption DEF FilesInv, Quiet, Nameless, Parsers, Heading
<1> QED
  BY <1>1, <1>2, <1>3 DEF FilesInv, Quiet

\* The steps of the parser that are not about a file
Elsewhere ==
  \/ HeadersGET \/ HeadersURL \/ HeadersVERSION \/ HeadersSkipNL
  \/ HeadersKEY \/ KEYBroken \/ HeadersVALUE \/ MultilineIfSpace \/ SkipWhitespace
  \/ NoBody \/ PrepareFails \/ PrepareUrlencode \/ PrepareMultipart \/ PrepareContentLength
  \/ Urlencode \/ ContentLengthData
  \/ PartStart \/ PartNext \/ PartHeaderKEY \/ PartHeaderIgnored
  \/ PartDisposition \/ PartNameTooLong \/ DataMatches \/ DataTakes

\* They are all of that kind.
LEMMA ElsewhereQuiet ==
  ASSUME FilesInv, Elsewhere
  PROVE  Quiet
<1> USE DEF FilesInv, Quiet, Found, Step, Goes, Ready, Fails, Parsers, Heading
<1>1. CASE HeadersGET
  BY <1>1 DEF HeadersGET
<1>2. CASE HeadersURL
  BY <1>2 DEF HeadersURL
<1>3. CASE HeadersVERSION
  BY <1>3 DEF HeadersVERSION
<1>4. CASE HeadersSkipNL
  BY <1>4 DEF HeadersSkipNL
<1>5. CASE HeadersKEY
  BY <1>5 DEF HeadersKEY
<1>6. CASE KEYBroken
  BY <1>6 DEF KEYBroken
<1>7. CASE HeadersVALUE
  BY <1>7 DEF HeadersVALUE
<1>8. CASE MultilineIfSpace
  BY <1>8 DEF MultilineIfSpace
<1>9. CASE SkipWhitespace
  BY <1>9 DEF SkipWhitespace
<1>10. CASE NoBody
  BY <1>10 DEF NoBody, EndOfHeaders
<1>11. CASE PrepareFails
  BY <1>11 DEF PrepareFails, EndOfHeaders
<1>12. CASE PrepareUrlencode
  BY <1>12 DEF PrepareUrlencode, EndOfHeaders
<1>13. CASE PrepareMultipart
  BY <1>13 DEF PrepareMultipart, EndOfHeaders, EmptyPart
<1>14. CASE PrepareContentLength
  BY <1>14 DEF PrepareContentLength, EndOfHeaders
<1>15. CASE Urlencode
  BY <1>15 DEF Urlencode
<1>16. CASE ContentLengthData
  BY <1>16 DEF ContentLengthData
<1>17. CASE PartStart
  BY <1>17 DEF PartStart, BoundaryGoesOn
<1>18. CASE PartNext
  BY <1>18 DEF PartNext
<1>19. CASE PartHeaderKEY
  BY <1>19 DEF PartHeaderKEY
<1>20. CASE PartHeaderIgnored
  BY <1>20 DEF PartHeaderIgnored
<1>21. CASE PartDisposition
  BY <1>21 DEF PartDisposition
<1>22. CASE DataMatches
  BY <1>22 DEF DataMatches, FromLF
<1>23. CASE DataTakes
  BY <1>23 DEF DataTakes
<1>24. CASE PartNameTooLong
  BY <1>24 DEF PartNameTooLong
<1> QED
  BY <1>1, <1>2, <1>3, <1>4, <1>5, <1>6, <1>7, <1>8, <1>9, <1>10, <1>11, <1>12,
     <1>13, <1>14, <1>15, <1>16, <1>17, <1>18, <1>19, <1>20, <1>21, <1>22, <1>23, <1>24
     DEF Elsewhere

\* The piece ends within a token: none of these is of a file.
LEMMA NeedMoreDataQuiet ==
  ASSUME FilesInv, NeedMoreData
  PROVE  Quiet
<1>1. parser \in Parsers \ {"PUT", "PartFile"}
  BY NullAssumption DEF NeedMoreData, Stops, FilesInv, Parsers, Heading
<1> QED
  BY <1>1 DEF NeedMoreData, FilesInv, Quiet, Step, Goes
-----------------------------------------------------------------------------
\* A file is made, and FILES names it: it is the only one that is open.
Made(open) ==
  /\ files' = Append(files, [content |-> <<>>, open |-> open, exists |-> TRUE])
  /\ \E name : req'.FILES = req.FILES \union {<<name, Len(files) + 1>>}
  /\ "FILES" \in DOMAIN req'
  /\ "fd" \in DOMAIN part' /\ part'.fd = Len(files) + 1
  /\ pc = "parse" /\ parser \notin {"PUT", "PartFile"} /\ parser' \in Parsers
  /\ open => parser' \in {"PUT", "PartFile"} /\ pc' \in {"parse", "poll"}
  /\ ~open => pc' = "process"

\* The invariant stays: what was named before is named still, and the new file, too.
LEMMA MadeKeeps ==
  ASSUME FilesInv, NEW open \in BOOLEAN, Made(open)
  PROVE  FilesInv'
<1> DEFINE new == [content |-> <<>>, open |-> open, exists |-> TRUE]
           n == Len(files) + 1
<1>1. files \in Seq(ToSet(files))
  BY DEF FilesInv
<1>2. /\ files' \in Seq(ToSet(files'))
      /\ DOMAIN files' = DOMAIN files \union {n}
      /\ n \notin DOMAIN files /\ files'[n] = new
      /\ \A f \in DOMAIN files : files'[f] = files[f]
  BY <1>1, AppendedOver DEF Made
<1>3. ToSet(files)' = ToSet(files')
  OBVIOUS
<1>4. Named' = Named \union {n}
  <2>1. PICK name : req'.FILES = req.FILES \union {<<name, n>>}
    BY DEF Made
  <2>2. <<name, n>>[2] = n
    OBVIOUS
  <2> QED
    BY <2>1, <2>2, Zenon DEF Named
<1> HIDE DEF n
<1>5. pc # "closed" /\ pc' # "closed"
  BY DEF Made
<1>6. Linked'
  <2>1. Named' \subseteq DOMAIN files'
    BY <1>2, <1>4 DEF FilesInv, Linked
  <2>2. ASSUME NEW f \in DOMAIN files'
        PROVE  files'[f].exists = (pc' # "closed" /\ f \in Named')
    <3>1. CASE f = n
      <4>1. files'[f].exists = TRUE
        BY <1>2, <3>1
      <4>2. f \in Named'
        BY <1>4, <3>1
      <4> QED
        BY <1>5, <4>1, <4>2, Zenon
    <3>2. CASE f \in DOMAIN files
      <4>1. files'[f] = files[f] /\ files[f].exists = (pc # "closed" /\ f \in Named)
        BY <1>2, <3>2 DEF FilesInv, Linked
      <4>2. f \in Named' <=> f \in Named
        BY <1>2, <1>4, <3>2
      <4> QED
        BY <1>5, <4>1, <4>2, Zenon
    <3> QED
      BY <1>2, <3>1, <3>2
  <2> QED
    BY <2>1, <2>2 DEF Linked
<1>7. Receiving'
  <2> SUFFICES ASSUME NEW f \in DOMAIN files', files'[f].open
               PROVE  f = part'.fd /\ parser' \in {"PUT", "PartFile"} /\ pc' # "process"
    BY DEF Receiving
  <2>1. CASE f = n
    BY <1>2, <2>1 DEF Made, n
  <2>2. CASE f \in DOMAIN files
    BY <1>2, <2>2 DEF Made, FilesInv, Receiving
  <2> QED
    BY <1>2, <2>1, <2>2
<1>8. Nameless'
  BY NullAssumption DEF Nameless, Made, Parsers, Heading
<1>9. \A f \in DOMAIN files' : {"open", "exists"} \subseteq DOMAIN files'[f]
  BY <1>2 DEF FilesInv
<1> QED
  BY <1>2, <1>6, <1>7, <1>8, <1>9 DEF FilesInv, Made

\* The body of a PUT goes to a new file, which is closed at once when it is empty,
LEMMA PreparePUTKeeps ==
  ASSUME FilesInv, PreparePUT
  PROVE  FilesInv'
<1>1. req.FILES = {}
  BY DEF PreparePUT, EndOfHeaders, Found, Step, FilesInv, Nameless, Heading
<1>2. (Size # 0) \in BOOLEAN
  OBVIOUS
<1>3. pc = "parse" /\ parser = "KEY"
  BY DEF PreparePUT, EndOfHeaders, Found, Step
<1>4. /\ req' = [req EXCEPT !.FILES = {<<<<"filename">>, Len(files) + 1>>}]
      /\ part' = [EmptyPart EXCEPT !.fd = Len(files) + 1]
      /\ files' = Append(files, [content |-> <<>>, open |-> Size # 0, exists |-> TRUE])
      /\ IF Size = 0 THEN Ready ELSE Goes("PUT", After("KEY"))
  BY DEF PreparePUT
<1>5. /\ req'.FILES = req.FILES \union {<<<<"filename">>, Len(files) + 1>>}
      /\ "FILES" \in DOMAIN req'
  BY <1>1, <1>4 DEF FilesInv
<1>6. "fd" \in DOMAIN part' /\ part'.fd = Len(files) + 1
  BY <1>4 DEF EmptyPart
<1>7. IF Size = 0 THEN parser' = "KEY" /\ pc' = "process"
                  ELSE parser' = "PUT" /\ pc' \in {"parse", "poll"}
  BY <1>3, <1>4 DEF Ready, Goes
<1>8. Made(Size # 0)
  BY <1>3, <1>4, <1>5, <1>6, <1>7 DEF Made, Parsers, Heading
<1> QED
  BY <1>2, <1>8, MadeKeeps

\* and so does a part with a file name; other parts make none.
LEMMA PartHeadersEndKeeps ==
  ASSUME FilesInv, PartHeadersEnd
  PROVE  FilesInv'
<1>1. CASE part.filename # Null
  <2>1. Made(TRUE)
    BY <1>1 DEF PartHeadersEnd, Found, Step, FilesInv, Made, Goes, Parsers, Heading
  <2> QED
    BY <2>1, MadeKeeps
<1>2. CASE part.filename = Null
  <2>1. Quiet
    BY <1>2 DEF PartHeadersEnd, Found, Step, FilesInv, Quiet, Goes, Parsers, Heading
  <2> QED
    BY <2>1, QuietKeeps
<1> QED
  BY <1>1, <1>2
-----------------------------------------------------------------------------
\* The file that is received grows, or is closed at its end.
Received ==
  /\ DOMAIN files' = DOMAIN files /\ files' = [f \in DOMAIN files' |-> files'[f]]
  /\ \A f \in DOMAIN files :
       /\ DOMAIN files'[f] = DOMAIN files[f]
       /\ files'[f].exists = files[f].exists
       /\ f # part.fd => files'[f].open = files[f].open
       /\ files'[f].open =>
            parser' = parser /\ pc' \in {"parse", "poll", "failed"}
  /\ req' = req
  /\ "fd" \in DOMAIN part' /\ part'.fd = part.fd
  /\ pc = "parse" /\ pc' \in {"parse", "poll", "process", "failed"}
  /\ parser \in {"PUT", "PartFile"} /\ parser' \in Parsers \ Heading

\* The invariant stays, as the file keeps its place and its name.
LEMMA ReceivedKeeps ==
  ASSUME FilesInv, Received
  PROVE  FilesInv'
<1>1. files' \in Seq(ToSet(files'))
  BY ReplacedOver DEF FilesInv, Received
<1>2. Linked'
  BY DEF FilesInv, Received, Linked, Named
<1>3. Receiving'
  BY DEF FilesInv, Received, Receiving
<1>4. Nameless'
  BY NullAssumption DEF Received, Nameless, Parsers, Heading
<1> QED
  BY <1>1, <1>2, <1>3, <1>4 DEF FilesInv, Received

\* What comes of a PUT is written, and at its end the file is closed;
LEMMA PutDataKeeps ==
  ASSUME FilesInv, PutData
  PROVE  FilesInv'
<1> DEFINE n == Least(Len(chunk), token.size - Len(files[part.fd].content))
           full == Len(files[part.fd].content) + n = token.size
<1>1. PICK c : files' = [files EXCEPT ![part.fd].content = c, ![part.fd].open = ~full]
  BY DEF PutData
<1>2. /\ parser = "PUT" /\ pc = "parse" /\ req' = req /\ part' = part
      /\ parser' = "PUT"
      /\ IF full THEN pc' = "process" ELSE pc' \in {"parse", "poll"}
  BY DEF PutData, Step, Goes, Ready
<1> HIDE DEF full
<1>3. DOMAIN files' = DOMAIN files /\ files' = [f \in DOMAIN files' |-> files'[f]]
  BY <1>1
<1>4. ASSUME NEW f \in DOMAIN files
      PROVE  /\ DOMAIN files'[f] = DOMAIN files[f]
             /\ files'[f].exists = files[f].exists
             /\ f # part.fd => files'[f].open = files[f].open
             /\ f = part.fd => files'[f].open = ~full
  BY <1>1 DEF FilesInv
<1>5. Received
  BY <1>2, <1>3, <1>4 DEF Received, FilesInv, Receiving, Parsers, Heading
<1> QED
  BY <1>5, ReceivedKeeps

\* the boundary behind an uploaded file closes it,
LEMMA FileMatchesKeeps ==
  ASSUME FilesInv, FileMatches
  PROVE  FilesInv'
<1>1. PICK p : /\ p \in {part, [part EXCEPT !.start = 0], [part EXCEPT !.pos = 1, !.start = 1]}
               /\ \/ /\ part' = [p EXCEPT !.pos = 0, !.start = 0]
                     /\ files' = [files EXCEPT ![p.fd].open = FALSE]
                     /\ Goes("PartNext", Tail(chunk))
                  \/ /\ part' = [p EXCEPT !.pos = @ + 1, !.total = @ + 1]
                     /\ files' = files /\ Goes(parser, Tail(chunk))
  BY DEF FileMatches, FromLF
<1>2. p.fd = part.fd /\ "fd" \in DOMAIN p
  BY <1>1 DEF FilesInv
<1>3. "fd" \in DOMAIN part' /\ part'.fd = part.fd
  BY <1>1, <1>2
<1>4. /\ parser = "PartFile" /\ pc = "parse" /\ req' = req
      /\ parser' \in {"PartFile", "PartNext"} /\ pc' \in {"parse", "poll"}
  BY <1>1 DEF FileMatches, Step, Goes
<1>5. files' = files \/ files' = [files EXCEPT ![part.fd].open = FALSE]
  BY <1>1, <1>2
<1>6. parser' = parser \/ files' = [files EXCEPT ![part.fd].open = FALSE]
  BY <1>1, <1>2 DEF Goes
<1>7. DOMAIN files' = DOMAIN files /\ files' = [f \in DOMAIN files' |-> files'[f]]
  BY <1>5 DEF FilesInv
<1>8. Received
  BY <1>3, <1>4, <1>5, <1>6, <1>7 DEF Received, FilesInv, Receiving, Parsers, Heading
<1> QED
  BY <1>8, ReceivedKeeps

\* what only looked like one is written,
LEMMA FileTakesBackKeeps ==
  ASSUME FilesInv, FileTakesBack
  PROVE  FilesInv'
<1>1. Received
  BY DEF FileTakesBack, Received, Step, Goes, FilesInv, Receiving, Parsers, Heading
<1> QED
  BY <1>1, ReceivedKeeps

\* as is everything else,
LEMMA FileTakesKeeps ==
  ASSUME FilesInv, FileTakes
  PROVE  FilesInv'
<1>1. Received
  BY DEF FileTakes, Received, Step, Goes, FilesInv, Receiving, Parsers, Heading
<1> QED
  BY <1>1, ReceivedKeeps

\* until the file is too big.
LEMMA FileTooBigKeeps ==
  ASSUME FilesInv, FileTooBig
  PROVE  FilesInv'
<1>1. Received
  BY DEF FileTooBig, Received, Step, Fails, FilesInv, Receiving, Parsers, Heading
<1> QED
  BY <1>1, ReceivedKeeps
-----------------------------------------------------------------------------
\* A request ends: what FILES names is unlinked.
LEMMA UnlinkedFiles ==
  ASSUME FilesInv
  PROVE  /\ DOMAIN Unlinked = DOMAIN files
         /\ Unlinked \in Seq(ToSet(Unlinked))
         /\ \A f \in DOMAIN files : /\ DOMAIN Unlinked[f] = DOMAIN files[f]
                                    /\ Unlinked[f].open = files[f].open
                                    /\ Unlinked[f].exists = FALSE
<1>1. /\ DOMAIN Unlinked = DOMAIN files
      /\ Unlinked = [f \in DOMAIN Unlinked |-> Unlinked[f]]
  BY DEF Unlinked
<1>2. Unlinked \in Seq(ToSet(Unlinked))
  BY <1>1, ReplacedOver DEF FilesInv
<1>3. ASSUME NEW f \in DOMAIN files
      PROVE  /\ DOMAIN Unlinked[f] = DOMAIN files[f]
             /\ Unlinked[f].open = files[f].open
             /\ Unlinked[f].exists = FALSE
  <2>1. CASE f \in Named
    <3>1. Unlinked[f] = [files[f] EXCEPT !.exists = FALSE]
      BY <2>1 DEF Unlinked, Named
    <3> QED
      BY <3>1 DEF FilesInv
  <2>2. CASE f \notin Named
    <3>1. Unlinked[f] = files[f]
      BY <2>2 DEF Unlinked, Named
    <3> QED
      BY <2>2, <3>1 DEF FilesInv, Linked
  <2> QED
    BY <2>1, <2>2
<1> QED
  BY <1>1, <1>2, <1>3

\* When the connection is kept the next request names nothing;
LEMMA ProcessAndKeepKeeps ==
  ASSUME FilesInv, ProcessAndKeep
  PROVE  FilesInv'
<1>1. /\ files' = Unlinked /\ req' = EmptyRequest /\ part' = EmptyPart
      /\ parser' = Null /\ pc = "process" /\ pc' = "poll"
  BY DEF ProcessAndKeep, ParserDataFree
<1>2. Named' = {} /\ req'.FILES = {} /\ "FILES" \in DOMAIN req' /\ "fd" \in DOMAIN part'
  BY <1>1 DEF Named, EmptyRequest, EmptyPart
<1>3. Linked'
  BY <1>1, <1>2, UnlinkedFiles DEF Linked
<1>4. Receiving'
  BY <1>1, UnlinkedFiles DEF FilesInv, Receiving
<1>5. Nameless'
  BY <1>2 DEF Nameless
<1> QED
  BY <1>1, <1>2, <1>3, <1>4, <1>5, UnlinkedFiles DEF FilesInv

\* when it is closed everything named is unlinked.
LEMMA CloseKeeps ==
  ASSUME FilesInv, Close
  PROVE  FilesInv'
<1>1. /\ files' = Unlinked /\ req' = req /\ part' = part /\ parser' = parser
      /\ pc' = "closed"
  BY DEF Close
<1>2. Linked'
  BY <1>1, UnlinkedFiles DEF FilesInv, Linked, Named
<1>3. Receiving'
  BY <1>1, UnlinkedFiles DEF FilesInv, Receiving
<1>4. Nameless'
  BY <1>1 DEF Nameless
<1> QED
  BY <1>1, <1>2, <1>3, <1>4, UnlinkedFiles DEF FilesInv

\* The steps that touch neither the files nor what names them.
LEMMA AsideKeeps ==
  ASSUME FilesInv, Send \/ Read \/ ProcessAndClose \/ UNCHANGED vars
  PROVE  FilesInv'
<1>1. /\ files' = files /\ req' = req /\ part' = part
      /\ parser' = parser \/ (parser = Null /\ parser' = "GET" /\ pc = "poll")
      /\ \/ pc' = pc
         \/ pc = "poll" /\ pc' = "parse"
         \/ pc = "process" /\ pc' = "answered"
  BY DEF Send, Read, ProcessAndClose, vars
<1>2. Linked'
  BY <1>1 DEF FilesInv, Linked, Named
<1>3. Receiving'
  BY <1>1, NullAssumption DEF FilesInv, Receiving, Parsers, Heading
<1>4. Nameless'
  BY <1>1, NullAssumption DEF FilesInv, Nameless, Parsers, Heading
<1> QED
  BY <1>1, <1>2, <1>3, <1>4 DEF FilesInv, Parsers, Heading
-----------------------------------------------------------------------------
\* There are no files at first.
LEMMA FilesInvInit == Init => FilesInv
<1> SUFFICES ASSUME Init PROVE FilesInv
  OBVIOUS
<1>1. files = <<>> /\ req = EmptyRequest /\ part = EmptyPart /\ parser = Null /\ pc = "poll"
  BY DEF Init
<1>2. DOMAIN files = {} /\ files \in Seq(ToSet(files))
  BY <1>1
<1>3. Named = {} /\ req.FILES = {} /\ "FILES" \in DOMAIN req /\ "fd" \in DOMAIN part
  BY <1>1 DEF Named, EmptyRequest, EmptyPart
<1> QED
  BY <1>1, <1>2, <1>3 DEF FilesInv, Linked, Receiving, Nameless

\* Every step of the client and of the server keeps the invariant.
LEMMA FilesInvNext == FilesInv /\ [Next]_vars => FilesInv'
<1> SUFFICES ASSUME FilesInv, [Next]_vars PROVE FilesInv'
  OBVIOUS
<1>1. CASE Send \/ Read \/ ProcessAndClose \/ UNCHANGED vars
  BY <1>1, AsideKeeps
<1>2. CASE NeedMoreData
  BY <1>2, NeedMoreDataQuiet, QuietKeeps
<1>3. CASE Elsewhere
  BY <1>3, ElsewhereQuiet, QuietKeeps
<1>4. CASE PreparePUT
  BY <1>4, PreparePUTKeeps
<1>5. CASE PutData
  BY <1>5, PutDataKeeps
<1>6. CASE PartHeadersEnd
  BY <1>6, PartHeadersEndKeeps
<1>7. CASE FileMatches
  BY <1>7, FileMatchesKeeps
<1>8. CASE FileTakesBack
  BY <1>8, FileTakesBackKeeps
<1>9. CASE FileTakes
  BY <1>9, FileTakesKeeps
<1>10. CASE FileTooBig
  BY <1>10, FileTooBigKeeps
<1>11. CASE ProcessAndKeep
  BY <1>11, ProcessAndKeepKeeps
<1>12. CASE Close
  BY <1>12, CloseKeeps
<1> QED
  BY <1>1, <1>2, <1>3, <1>4, <1>5, <1>6, <1>7, <1>8, <1>9, <1>10, <1>11, <1>12
     DEF Next, Server, Elsewhere

\* Whatever clients send, however it is cut, and wherever they hang up: a temporary
\* file is there exactly as long as its request is, and it is closed before the request
\* is handled (onion_request_write, onion_request_clean).
THEOREM FilesFollowRequestHolds == Spec => []FilesFollowRequest
<1>1. FilesInv => FilesFollowRequest
  BY DEF FilesInv, Linked, Named, Receiving, FilesFollowRequest
<1> QED
  BY <1>1, FilesInvInit, FilesInvNext, PTL DEF Spec
==========================================================================
