---------------------------- MODULE RequestParser ----------------------------
(***************************************************************************)
(* A connection from its first byte to its end: onion_http_read_ready      *)
(* reads what has arrived, onion_request_write feeds it to the parser, and *)
(* a request that is complete is processed and the next one awaited.  What *)
(* arrives is cut anywhere, so the parser is a machine: req->parser is the *)
(* function that goes on with the next piece, the token is what it has     *)
(* read so far.                                                            *)
(*                                                                         *)
(* A byte is a symbol.  A long word is two symbols, so that it can be cut; *)
(* lengths are counted in symbols, and every token fits its buffer.        *)
(***************************************************************************)
EXTENDS Integers, Sequences, SequencesExt, FiniteSetsExt

CONSTANTS
  Clients,      \* what clients send on a connection: sequences of requests
  MaxPostSize,   \* onion_set_max_post_size
  MaxFileSize,   \* onion_set_max_file_size
  Pieces,        \* how many symbols one read may return
  Pipelined,     \* clients send a request before the last one is answered
  HangsUp,       \* clients may close in the middle of a request
  Null

VARIABLES
  session,  \* the requests this client still wants to send
  wire,     \* sent and not yet read
  chunk,    \* the rest of the piece that is being parsed
  parser,   \* req->parser; Null before the first byte of a request
  token,    \* [str, key, post, size]: onion_token, its extra split by use
  part,     \* onion_multipart_buffer
  req,      \* the onion_request; FILES that is not there yet is empty
  files,    \* temporary files made on this connection: [content, open, exists]
  pc,       \* "poll", "parse", "process"; "failed", "answered": the callback says close
  sent,     \* history: the requests sent
  handled   \* history: the requests as the handlers saw them

\* What req->parser may be: the parse_* and prepare_* functions of the code
Heading == {"GET", "URL", "VERSION", "SkipNL", "KEY", "VALUE", "MultilineIfSpace", "SkipWhitespace"}
Parsers == Heading \union {"Urlencode", "ContentLength", "PUT", "PartStart", "PartNext", "PartKEY",
                           "PartDisposition", "PartIgnore", "PartFile", "PartData"}
ASSUME NullAssumption == Null \notin Parsers

vars == <<session, wire, chunk, parser, token, part, req, files, pc, sent, handled>>

Blank == {"SP", "CR", "LF"}                     \* is_space
Methods == {<<"G", "ET">>, <<"P", "OST">>, <<"P", "UT">>, <<"PROP", "FIND">>}
Length == <<"Content-", "Length">>
Type == <<"Content-", "Type">>
Disposition == <<"Content-", "Disposition">>
HTTP11 == <<"HTTP/", "1.1">>

Has(s, x) == \E i \in DOMAIN s : s[i] = x
Behind(s, x) == SubSeq(s, SelectInSeq(s, LAMBDA c : c = x) + 1, Len(s))
Without(s, x) == SelectSeq(s, LAMBDA c : c # x)
Decimal(n) == IF n < 10 THEN <<ToString(n)>> ELSE <<ToString(n \div 10), ToString(n % 10)>>
Get(dict, key) ==
  IF \E p \in dict : p[1] = key THEN (CHOOSE p \in dict : p[1] = key)[2] ELSE Null
Digit(c) == CHOOSE d \in 0..9 : ToString(d) = c
Atoi(s) == FoldLeft(LAMBDA n, c : 10 * n + Digit(c), 0, s)
\* A C string ends at its first NUL.
CString(s) == IF Has(s, "NUL") THEN SubSeq(s, 1, SelectInSeq(s, LAMBDA c : c = "NUL") - 1) ELSE s
SkipBlank(s) ==
  LET i == SelectInSeq(s, LAMBDA c : c \notin Blank)
  IN IF i = 0 THEN <<>> ELSE SubSeq(s, i, Len(s))

EmptyToken == [str |-> <<>>, key |-> Null, post |-> <<>>, size |-> 0]
EmptyPart == [boundary |-> <<>>, pos |-> 0, start |-> 0, name |-> Null, filename |-> Null,
              left |-> 0, total |-> 0, fd |-> 0]
EmptyRequest == [method |-> Null, path |-> Null, GET |-> Null, http11 |-> FALSE, headers |-> {},
                 POST |-> Null, FILES |-> {}, data |-> Null]
-----------------------------------------------------------------------------
(* The client: what it means and what it writes.  q.gaps is what it puts   *)
(* before the name and before the file name of a part, q.mark its quotes,  *)
(* q.tail what ends the line.                                              *)

Quote(s) == [i \in DOMAIN s |-> CASE s[i] = "&" -> "%26" [] s[i] = "SP" -> "+" [] OTHER -> s[i]]
Form(pairs) ==
  FlattenSeq([i \in DOMAIN pairs |->
    (IF i = 1 THEN <<>> ELSE <<"&">>) \o Quote(pairs[i][1])
    \o (IF pairs[i][2] = <<>> THEN <<>> ELSE <<"=">> \o Quote(pairs[i][2]))])
Multipart(q) ==
  FlattenSeq([i \in DOMAIN q.parts |->
    (IF i = 1 THEN <<>> ELSE q.eol) \o <<"-", "-", "B", "D">> \o q.eol
    \o Disposition \o <<":", "form-data", ";">> \o q.gaps[1] \o <<"name=">>
    \o q.mark \o q.parts[i].name \o q.mark
    \o (IF q.parts[i].filename = Null THEN <<>>
          ELSE <<";">> \o q.gaps[2] \o <<"filename=">> \o q.mark \o q.parts[i].filename \o q.mark)
    \o q.tail \o q.eol
    \o (IF q.parts[i].typed THEN Type \o <<":", "text">> \o q.eol ELSE <<>>)
    \o q.eol \o q.parts[i].content])
  \o q.eol \o <<"-", "-", "B", "D", "-", "-">> \o q.epilogue
Body(q) == CASE q.kind = "form" -> Form(q.fields) [] q.kind = "parts" -> Multipart(q)
             [] q.kind = "raw" -> q.content [] OTHER -> <<>>
Headers(q) ==
  q.headers
  \o (IF q.kind = "none" THEN <<>> ELSE <<<<Length, <<Decimal(Len(Body(q)))>>>>>>)
  \o (CASE q.kind = "form" -> <<<<Type, <<<<"urlencoded">>>>>>>>
        [] q.kind = "parts" -> <<<<Type, <<<<"multipart", "boundary=", "B", "D">>>>>>>>
        [] OTHER -> <<>>)
\* A value of several lines goes on after a line end and a space.
Encode(q) ==
  q.method \o <<"SP", "/">> \o q.path
  \o (IF q.query = <<>> THEN <<>> ELSE <<"?">> \o Form(q.query))
  \o (IF q.http = <<>> THEN <<>> ELSE <<"SP">> \o q.http) \o q.eol
  \o FlattenSeq([i \in DOMAIN Headers(q) |->
       Headers(q)[i][1] \o <<":">>
       \o FlattenSeq([l \in DOMAIN Headers(q)[i][2] |-> <<"SP">> \o Headers(q)[i][2][l] \o q.eol])])
  \o q.eol \o Body(q)
Joined(lines) == FlattenSeq([l \in DOMAIN lines |-> (IF l = 1 THEN <<>> ELSE <<"SP">>) \o lines[l]])
Meant(q) ==
  [method |-> q.method, path |-> <<"/">> \o q.path, GET |-> ToSet(q.query), http11 |-> q.http = HTTP11,
   headers |-> {<<h[1], Joined(h[2])>> : h \in ToSet(Headers(q))},
   POST |-> CASE q.kind = "form" -> ToSet(q.fields)
              [] q.kind = "parts" -> {<<p.name, IF p.filename = Null THEN p.content ELSE p.filename>> : p \in ToSet(q.parts)}
              [] OTHER -> {},
   FILES |-> CASE q.kind = "parts" -> {<<p.name, p.content>> : p \in {x \in ToSet(q.parts) : x.filename # Null}}
               [] q.method = <<"P", "UT">> -> {<<<<"filename">>, q.content>>}
               [] OTHER -> {},
   data |-> IF q.kind = "raw" /\ q.method # <<"P", "UT">> THEN q.content ELSE <<>>]
-----------------------------------------------------------------------------
(* token_read_*: the tokens end at the first of these.                     *)

Stops(p) ==
  CASE p \in {"GET", "URL", "VERSION"} -> Blank
    [] p \in {"KEY", "PartKEY"} -> {":", "LF"}
    [] p = "PartDisposition" -> {";", "LF"}
    [] p \in {"VALUE", "PartIgnore"} -> {"LF"}
    [] OTHER -> {}
End(p) == SelectInSeq(chunk, LAMBDA c : c \in Stops(p))
\* token_read_until drops every CR, token_read_LINE ends the string at the last one.
TokenOf(p) ==
  LET upto == token.str \o SubSeq(chunk, 1, IF End(p) = 0 THEN Len(chunk) ELSE End(p) - 1)
  IN CASE p \in {"KEY", "PartKEY", "PartDisposition"} -> Without(upto, "CR")
       [] p \in {"VALUE", "PartIgnore"} /\ End(p) # 0 /\ upto # <<>> /\ Last(upto) = "CR" ->
            Front(upto) \o <<"NUL">>
       [] OTHER -> upto
After(p) == SubSeq(chunk, End(p) + 1, Len(chunk))

Step(p) == pc = "parse" /\ parser = p /\ UNCHANGED <<session, wire, sent, handled>>
Found(p) == Step(p) /\ End(p) # 0
\* The loop of onion_request_write: on with the rest of the piece, or OCS_NEED_MORE_DATA.
Goes(next, rest) ==
  parser' = next /\ chunk' = rest /\ pc' = IF rest = <<>> THEN "poll" ELSE "parse"
\* OCS_REQUEST_READY: what is left of the piece is forgotten.
Ready == pc' = "process" /\ chunk' = <<>> /\ UNCHANGED parser
\* OCS_INTERNAL_ERROR, OCS_NOT_IMPLEMENTED
Fails == pc' = "failed" /\ chunk' = <<>> /\ UNCHANGED parser
Cleared == [token EXCEPT !.str = <<>>]

\* The piece ends within a token.
NeedMoreData ==
  /\ Stops(parser) # {} /\ Step(parser) /\ End(parser) = 0
  /\ token' = [token EXCEPT !.str = TokenOf(parser)]
  /\ Goes(parser, <<>>) /\ UNCHANGED <<part, req, files>>
\* token_read_KEY: a line without a colon that is not empty
KEYBroken ==
  /\ Found("KEY") \/ Found("PartKEY")
  /\ chunk[End(parser)] = "LF" /\ TokenOf(parser) # <<>>
  /\ Fails /\ UNCHANGED <<token, part, req, files>>
-----------------------------------------------------------------------------
(* The request line and the headers                                        *)

HeadersGET ==
  /\ Found("GET")
  /\ token' = Cleared
  /\ IF TokenOf("GET") \in Methods
       THEN req' = [req EXCEPT !.method = TokenOf("GET")] /\ Goes("URL", After("GET"))
       ELSE Fails /\ UNCHANGED req
  /\ UNCHANGED <<part, files>>

Unquote(s) == [i \in DOMAIN s |-> CASE s[i] = "%26" -> "&" [] s[i] = "+" -> "SP" [] OTHER -> s[i]]

\* One character of onion_request_parse_query_to_dict
QueryStep(q, c) ==
  CASE c = "&" -> [q EXCEPT !.dict = @ \union {<<Unquote(q.key), Unquote(q.value)>>},
                            !.key = <<>>, !.value = <<>>, !.state = "key"]
    [] c = "=" /\ q.state = "key" -> [q EXCEPT !.state = "value"]
    [] OTHER -> IF q.state = "key" THEN [q EXCEPT !.key = Append(@, c)]
                                   ELSE [q EXCEPT !.value = Append(@, c)]
QueryToDict(s) ==
  LET q == FoldLeft(LAMBDA a, c : QueryStep(a, c),
                    [dict |-> {}, key |-> <<>>, value |-> <<>>, state |-> "key"], s)
  IN IF q.state = "key" /\ q.key = <<>> THEN q.dict
     ELSE q.dict \union {<<Unquote(q.key), Unquote(q.value)>>}

\* Without a question mark there is no dictionary yet.
ParseQuery(url) ==
  LET mark == SelectInSeq(url, LAMBDA c : c = "?")
  IN [path |-> Unquote(IF mark = 0 THEN url ELSE SubSeq(url, 1, mark - 1)),
      GET |-> IF mark = 0 THEN Null ELSE QueryToDict(Behind(url, "?"))]
HeadersURL ==
  /\ Found("URL")
  /\ token' = Cleared
  /\ LET q == ParseQuery(TokenOf("URL")) IN req' = [req EXCEPT !.path = q.path, !.GET = q.GET]
  /\ Goes(IF chunk[End("URL")] = "LF" THEN "KEY" ELSE "VERSION", After("URL"))
  /\ UNCHANGED <<part, files>>

HeadersVERSION ==
  /\ Found("VERSION")
  /\ token' = Cleared
  /\ req' = [req EXCEPT !.http11 = TokenOf("VERSION") = HTTP11, !.GET = IF @ = Null THEN {} ELSE @]
  /\ Goes(IF chunk[End("VERSION")] = "LF" THEN "KEY" ELSE "SkipNL", After("VERSION"))
  /\ UNCHANGED <<part, files>>

\* How much of the piece is a line end, LF or CR LF: -1 is none; a CR at the end
\* of a piece is forgotten.
NewLine ==
  CASE chunk[1] = "LF" -> 1 [] Len(chunk) = 1 -> 0
    [] SubSeq(chunk, 1, 2) = <<"CR", "LF">> -> 2 [] OTHER -> -1
HeadersSkipNL ==
  /\ Step("SkipNL")
  /\ CASE NewLine = -1 -> Fails
       [] NewLine = 0 -> Goes("SkipNL", <<>>)
       [] OTHER -> Goes("KEY", SubSeq(chunk, NewLine + 1, Len(chunk)))
  /\ UNCHANGED <<token, part, req, files>>

HeadersKEY ==
  /\ Found("KEY") /\ chunk[End("KEY")] = ":"
  /\ token' = [token EXCEPT !.str = <<>>, !.key = TokenOf("KEY")]
  /\ Goes("VALUE", After("KEY"))
  /\ UNCHANGED <<part, req, files>>
\* The token keeps its place: a next line of this value goes on behind it.
HeadersVALUE ==
  /\ Found("VALUE")
  /\ token' = [token EXCEPT !.str = TokenOf("VALUE")]
  /\ Goes("MultilineIfSpace", After("VALUE"))
  /\ UNCHANGED <<part, req, files>>

MultilineIfSpace ==
  /\ Step("MultilineIfSpace")
  /\ IF chunk[1] = "SP"
       THEN Goes("SkipWhitespace", chunk) /\ UNCHANGED <<token, req>>
       ELSE /\ req' = [req EXCEPT !.headers = @ \union {<<token.key, SkipBlank(CString(token.str))>>}]
            /\ token' = [token EXCEPT !.str = <<>>, !.key = Null]
            /\ Goes("KEY", chunk)
  /\ UNCHANGED <<part, files>>
SkipWhitespace ==
  /\ Step("SkipWhitespace")
  /\ LET i == SelectInSeq(chunk, LAMBDA c : c # "SP")
     IN CASE i = 0 -> Goes(parser, <<>>) /\ UNCHANGED token
          [] i # 0 /\ chunk[i] = "LF" -> Goes(parser, SubSeq(chunk, i + 1, Len(chunk))) /\ UNCHANGED token
          [] OTHER -> /\ token' = [token EXCEPT !.str = @ \o <<"SP", chunk[i]>>]
                      /\ Goes("VALUE", SubSeq(chunk, i + 1, Len(chunk)))
  /\ UNCHANGED <<part, req, files>>
-----------------------------------------------------------------------------
(* The end of the headers: what body is to come                            *)

ContentType == Get(req.headers, Type)
ContentLength == Get(req.headers, Length)
Size == IF ContentLength = Null THEN 0 ELSE Atoi(ContentLength)
EndOfHeaders ==
  /\ Found("KEY") /\ chunk[End("KEY")] = "LF" /\ TokenOf("KEY") = <<>>
\* The branches of parse_headers_KEY at an empty line
IsForm == /\ req.method = <<"P", "OST">> /\ ContentType # Null
          /\ Has(ContentType, "urlencoded") \/ Has(ContentType, "boundary=")
IsPut == ~IsForm /\ req.method = <<"P", "UT">>

NoBody ==
  /\ EndOfHeaders /\ Size = 0
  /\ (IsForm /\ ContentLength # Null) \/ (~IsForm /\ ~IsPut)
  /\ Ready /\ token' = Cleared /\ UNCHANGED <<part, req, files>>

\* No length, or more than the server takes.
PrepareFails ==
  /\ EndOfHeaders
  /\ \/ (IsForm \/ IsPut) /\ ContentLength = Null
     \/ IsForm /\ Has(ContentType, "urlencoded") /\ Size > MaxPostSize
     \/ IsPut /\ Size > MaxFileSize
     \/ ~IsForm /\ ~IsPut /\ Size > MaxPostSize
  /\ Fails /\ UNCHANGED <<token, part, req, files>>

PrepareUrlencode ==
  /\ EndOfHeaders /\ IsForm /\ Has(ContentType, "urlencoded") /\ Size \in 1..MaxPostSize
  /\ token' = [Cleared EXCEPT !.size = Size]
  /\ Goes("Urlencode", After("KEY")) /\ UNCHANGED <<part, req, files>>

PrepareMultipart ==
  /\ EndOfHeaders /\ IsForm /\ ~Has(ContentType, "urlencoded") /\ Size > 0
  /\ part' = [EmptyPart EXCEPT !.boundary = <<"CR", "LF", "-", "-">> \o Behind(ContentType, "boundary="),
                               !.pos = 2, !.left = IF Size > MaxPostSize THEN MaxPostSize ELSE Size]
  /\ token' = Cleared
  /\ Goes("PartStart", After("KEY")) /\ UNCHANGED <<req, files>>

PrepareContentLength ==
  /\ EndOfHeaders /\ ~IsForm /\ ~IsPut /\ Size \in 1..MaxPostSize
  /\ token' = [Cleared EXCEPT !.size = Size]
  /\ req' = [req EXCEPT !.data = <<>>]
  /\ Goes("ContentLength", After("KEY")) /\ UNCHANGED <<part, files>>

\* The body of a PUT goes to a temporary file; its name is FILES' "filename".
PreparePUT ==
  /\ EndOfHeaders /\ IsPut /\ ContentLength # Null /\ Size <= MaxFileSize
  /\ files' = Append(files, [content |-> <<>>, open |-> Size # 0, exists |-> TRUE])
  /\ req' = [req EXCEPT !.FILES = {<<<<"filename">>, Len(files) + 1>>}]
  /\ token' = [Cleared EXCEPT !.size = Size]
  /\ part' = [EmptyPart EXCEPT !.fd = Len(files) + 1]
  /\ IF Size = 0 THEN Ready ELSE Goes("PUT", After("KEY"))
-----------------------------------------------------------------------------
(* Bodies of a known length                                                *)

Least(a, b) == IF a < b THEN a ELSE b
\* token_read_URLENCODE: what is announced and here, and no more
FormSoFar == token.post \o SubSeq(chunk, 1, Least(Len(chunk), token.size - Len(token.post)))
Urlencode ==
  /\ Step("Urlencode")
  /\ LET post == FormSoFar
     IN IF Len(post) = token.size
          THEN /\ req' = [req EXCEPT !.POST = QueryToDict(post)]
               /\ token' = [token EXCEPT !.post = <<>>]
               /\ Ready
          ELSE token' = [token EXCEPT !.post = post] /\ Goes(parser, <<>>) /\ UNCHANGED req
  /\ UNCHANGED <<part, files>>
ContentLengthData ==
  /\ Step("ContentLength")
  /\ LET n == Least(Len(chunk), token.size - Len(req.data))
     IN /\ req' = [req EXCEPT !.data = @ \o SubSeq(chunk, 1, n)]
        /\ IF Len(req.data) + n = token.size THEN Ready ELSE Goes(parser, <<>>)
  /\ UNCHANGED <<token, part, files>>
\* write() takes all of it.
PutData ==
  /\ Step("PUT")
  /\ LET n == Least(Len(chunk), token.size - Len(files[part.fd].content))
         full == Len(files[part.fd].content) + n = token.size
     IN /\ files' = [files EXCEPT ![part.fd].content = @ \o SubSeq(chunk, 1, n), ![part.fd].open = ~full]
        /\ IF full THEN Ready ELSE Goes(parser, <<>>)
  /\ UNCHANGED <<token, part, req>>
-----------------------------------------------------------------------------
(* multipart/form-data                                                     *)

\* The body starts with the boundary without its line end: pos begins at 2.
BoundaryGoesOn ==
  /\ part.pos < Len(part.boundary)
  /\ part' = [part EXCEPT !.pos = @ + 1]
  /\ IF chunk[1] = part.boundary[part.pos + 1] THEN Goes(parser, Tail(chunk)) ELSE Fails
PartStart ==
  /\ Step("PartStart")
  /\ \/ BoundaryGoesOn
     \/ part.pos = Len(part.boundary) /\ Goes("PartNext", chunk) /\ UNCHANGED part
  /\ UNCHANGED <<token, req, files>>

\* A bug: the first of the two characters is not kept between pieces.
PartNextForgets ==
  /\ Step("PartNext")
  /\ IF Len(chunk) = 1 THEN Goes(parser, <<>>) /\ UNCHANGED part
     ELSE IF SubSeq(chunk, 1, 2) = <<"-", "-">> THEN Ready /\ UNCHANGED part
     ELSE /\ part' = [part EXCEPT !.name = Null, !.filename = Null]
          /\ Goes("PartKEY", Behind(chunk, "LF"))
  /\ UNCHANGED <<req, files, token>>

\* token_read_MULTIPART_next: "--" ends the body, a line end starts a part.
AfterBoundary ==
  LET two == Append(token.str, chunk[1])
  IN CASE two \in {<<"LF">>, <<"CR", "LF">>} -> "next" [] two = <<"-", "-">> -> "end"
       [] Len(two) = 1 /\ two # <<"LF">> -> "more" [] OTHER -> "error"
PartNext ==
  /\ Step("PartNext")
  /\ CASE AfterBoundary = "next" ->
            /\ part' = [part EXCEPT !.name = Null, !.filename = Null]
            /\ token' = Cleared /\ Goes("PartKEY", Tail(chunk))
       [] AfterBoundary = "end" -> Ready /\ token' = Cleared /\ UNCHANGED part
       [] AfterBoundary = "more" ->
            token' = [token EXCEPT !.str = Append(@, chunk[1])] /\ Goes(parser, Tail(chunk)) /\ UNCHANGED part
       [] OTHER -> Fails /\ UNCHANGED <<token, part>>
  /\ UNCHANGED <<req, files>>
PartHeaderKEY ==
  /\ Found("PartKEY") /\ chunk[End("PartKEY")] = ":"
  /\ token' = Cleared
  /\ Goes(IF TokenOf("PartKEY") = Disposition THEN "PartDisposition" ELSE "PartIgnore", After("PartKEY"))
  /\ UNCHANGED <<part, req, files>>
PartHeaderIgnored ==
  /\ Found("PartIgnore")
  /\ token' = Cleared /\ Goes("PartKEY", After("PartIgnore")) /\ UNCHANGED <<part, req, files>>
\* The value of a field "name=value" loses its quotes if the last one is where it would be
\* behind a single blank: l, the length of the field without the key, counts that blank.
ValueOf(field, key) ==
  LET value == Behind(field, key)
      last == Len(field) - 2
  IN IF last \in DOMAIN value /\ value[1] = "Q" /\ value[last] = "Q"
       THEN CString(Tail([value EXCEPT ![last] = "NUL"])) ELSE value
NamesPart(field) == Has(field, "filename=") \/ Has(field, "name=")
\* parse_POST_multipart_content_type, for one of the fields between semicolons.  An empty
\* field at the end of the line is NEW_LINE, not STRING_NEW_LINE: the line is not over.
PartDisposition ==
  /\ Found("PartDisposition")
  /\ LET field == TokenOf("PartDisposition")
     IN /\ ~NamesPart(field) \/ Len(field) - 1 <= part.left
        /\ part' = CASE Has(field, "filename=") -> [part EXCEPT !.filename = ValueOf(field, "filename=")]
                     [] Has(field, "name=") -> [part EXCEPT !.name = ValueOf(field, "name=")]
                     [] OTHER -> part
        /\ Goes(IF chunk[End("PartDisposition")] = "LF" /\ field # <<>> THEN "PartKEY" ELSE parser,
                After("PartDisposition"))
  /\ token' = Cleared
  /\ UNCHANGED <<req, files>>
\* More than the whole POST may have: "Content-Length had wrong size".
PartNameTooLong ==
  /\ Found("PartDisposition")
  /\ NamesPart(TokenOf("PartDisposition")) /\ Len(TokenOf("PartDisposition")) - 1 > part.left
  /\ Fails /\ UNCHANGED <<token, part, req, files>>

PartHeadersEnd ==
  /\ Found("PartKEY") /\ chunk[End("PartKEY")] = "LF" /\ TokenOf("PartKEY") = <<>>
  /\ token' = Cleared
  /\ part' = [part EXCEPT !.pos = 0, !.fd = IF part.filename = Null THEN @ ELSE Len(files) + 1]
  /\ LET post == IF req.POST = Null THEN {} ELSE req.POST
     IN IF part.filename # Null
          THEN /\ files' = Append(files, [content |-> <<>>, open |-> TRUE, exists |-> TRUE])
               /\ req' = [req EXCEPT !.POST = post \union {<<part.name, part.filename>>},
                                     !.FILES = @ \union {<<part.name, Len(files) + 1>>}]
               /\ Goes("PartFile", After("PartKEY"))
          ELSE /\ req' = [req EXCEPT !.POST = post]
               /\ Goes("PartData", After("PartKEY")) /\ UNCHANGED files

\* "\r is optional": a line end alone matches from the second character on.
FromLF(start) == IF part.pos = 0 /\ chunk[1] = "LF" THEN [part EXCEPT !.pos = 1, !.start = start] ELSE part
Matches(p) == chunk[1] = p.boundary[p.pos + 1]

\* One character of parse_POST_multipart_file
FileMatches ==
  /\ Step("PartFile")
  /\ LET p == IF part.pos = 0 /\ chunk[1] # "LF" THEN [part EXCEPT !.start = 0] ELSE FromLF(1)
     IN /\ Matches(p)
        /\ IF p.pos + 1 = Len(p.boundary)
             THEN /\ part' = [p EXCEPT !.pos = 0, !.start = 0]
                  /\ files' = [files EXCEPT ![p.fd].open = FALSE]
                  /\ Goes("PartNext", Tail(chunk))
             ELSE /\ part' = [p EXCEPT !.pos = @ + 1, !.total = @ + 1]
                  /\ Goes(parser, Tail(chunk)) /\ UNCHANGED files
  /\ UNCHANGED <<token, req>>
\* A bug: an optional CR that was not there is written, too.
FileTakesBackAll ==
  /\ Step("PartFile") /\ part.pos # 0 /\ ~Matches(part) /\ part.total <= MaxFileSize
  /\ files' = [files EXCEPT ![part.fd].content = @ \o SubSeq(part.boundary, 1, part.pos)]
  /\ part' = [part EXCEPT !.pos = 0, !.start = 0, !.total = @ + part.pos]
  /\ Goes(parser, chunk) /\ UNCHANGED <<token, req>>
\* What had matched was content after all; the character is looked at again.
FileTakesBack ==
  /\ Step("PartFile") /\ part.pos # 0 /\ ~Matches(part) /\ part.total <= MaxFileSize
  /\ files' = [files EXCEPT ![part.fd].content = @ \o SubSeq(part.boundary, part.start + 1, part.pos)]
  /\ part' = [part EXCEPT !.pos = 0, !.start = 0, !.total = @ + part.pos]
  /\ Goes(parser, chunk) /\ UNCHANGED <<token, req>>
\* A bug: nothing is counted.
FileTakesUncounted ==
  /\ Step("PartFile") /\ part.pos = 0 /\ chunk[1] \notin {"CR", "LF"} /\ part.total <= MaxFileSize
  /\ files' = [files EXCEPT ![part.fd].content = Append(@, chunk[1])]
  /\ part' = [part EXCEPT !.start = 0]
  /\ Goes(parser, Tail(chunk)) /\ UNCHANGED <<token, req>>
FileTakes ==
  /\ Step("PartFile") /\ part.pos = 0 /\ chunk[1] \notin {"CR", "LF"} /\ part.total <= MaxFileSize
  /\ files' = [files EXCEPT ![part.fd].content = Append(@, chunk[1])]
  /\ part' = [part EXCEPT !.start = 0, !.total = @ + 1]
  /\ Goes(parser, Tail(chunk)) /\ UNCHANGED <<token, req>>
FileTooBig ==
  /\ Step("PartFile") /\ ~Matches(FromLF(1)) /\ part.total > MaxFileSize
  /\ Fails /\ UNCHANGED <<token, part, req, files>>

EndsIn(s, c) == s # <<>> /\ Last(s) = c
\* The line end before the boundary, as far as it was copied
Stripped(s) ==
  LET t == IF EndsIn(s, "LF") THEN Front(s) ELSE s
  IN IF EndsIn(t, "CR") THEN Front(t) ELSE t

\* One character of parse_POST_multipart_data; token.str is what it has copied.
DataMatches ==
  /\ Step("PartData")
  /\ LET p == FromLF(0)
     IN /\ Matches(p)
        /\ IF p.pos + 1 = Len(p.boundary)
             THEN /\ part' = [p EXCEPT !.pos = 0]
                  /\ req' = [req EXCEPT !.POST = @ \union {<<p.name, Stripped(token.str)>>}]
                  /\ token' = Cleared /\ Goes("PartNext", Tail(chunk))
             ELSE /\ part' = [p EXCEPT !.pos = @ + 1]
                  /\ Goes(parser, Tail(chunk)) /\ UNCHANGED <<token, req>>
  /\ UNCHANGED files
\* What had matched was content after all: as many characters are copied, but
\* from here on, and from beyond the piece when it is at its end.
DataTakes ==
  /\ Step("PartData") /\ ~Matches(FromLF(0))
  /\ LET again == SubSeq(chunk \o [i \in 1..part.pos |-> "junk"], 1, part.pos)
     IN IF part.left <= part.pos
          THEN Fails /\ UNCHANGED <<token, part>>
          ELSE /\ token' = [token EXCEPT !.str = @ \o again \o <<chunk[1]>>]
               /\ part' = [part EXCEPT !.pos = 0, !.left = @ - part.pos - 1]
               /\ Goes(parser, Tail(chunk))
  /\ UNCHANGED <<req, files>>
-----------------------------------------------------------------------------
(* The connection                                                          *)

Send ==
  /\ session # <<>> /\ pc # "closed"
  /\ Pipelined \/ Len(handled) = Len(sent)
  /\ wire' = wire \o Encode(Head(session))
  /\ sent' = Append(sent, Head(session)) /\ session' = Tail(session)
  /\ UNCHANGED <<chunk, parser, token, part, req, files, pc, handled>>

\* onion_http_read_ready, and the start of onion_request_write
Read ==
  /\ pc = "poll" /\ wire # <<>>
  /\ \E n \in Pieces :
       /\ chunk' = SubSeq(wire, 1, Least(n, Len(wire)))
       /\ wire' = SubSeq(wire, Least(n, Len(wire)) + 1, Len(wire))
  /\ parser' = IF parser = Null THEN "GET" ELSE parser
  /\ pc' = "parse"
  /\ UNCHANGED <<session, token, part, req, files, sent, handled>>

Pairs(dict) == IF dict = Null THEN {} ELSE dict
Seen == [method |-> req.method, path |-> req.path, GET |-> Pairs(req.GET), http11 |-> req.http11,
         headers |-> req.headers, POST |-> Pairs(req.POST),
         FILES |-> {<<f[1], files[f[2]].content>> : f \in req.FILES},
         data |-> IF req.data = Null THEN <<>> ELSE req.data]
\* onion_request_keep_alive
Keeps == LET connection == Get(req.headers, <<"Connection">>)
         IN IF req.http11 THEN connection # <<"Close">> ELSE connection = <<"Keep-Alive">>
\* A bug: the files of a request that is cleaned are forgotten.
UnlinkedNot == files

Unlinked == [f \in DOMAIN files |->
               IF \E k \in req.FILES : k[2] = f THEN [files[f] EXCEPT !.exists = FALSE] ELSE files[f]]
ParserDataFree == token' = EmptyToken /\ part' = EmptyPart
\* The handlers answer; the request is cleaned for the next one if the answer allows it.
ProcessAndKeep ==
  /\ pc = "process" /\ Keeps
  /\ handled' = Append(handled, Seen)
  /\ req' = EmptyRequest /\ ParserDataFree /\ parser' = Null
  /\ files' = Unlinked
  /\ pc' = "poll" /\ UNCHANGED <<session, wire, chunk, sent>>
ProcessAndClose ==
  /\ pc = "process"
  /\ handled' = Append(handled, Seen)
  /\ pc' = "answered" /\ UNCHANGED <<session, wire, chunk, parser, token, part, req, files, sent>>

\* The poller frees the request: its slot's callback failed, or the client has gone.
Close ==
  /\ pc \in {"failed", "answered"} \/ (HangsUp /\ pc = "poll")
  /\ files' = Unlinked
  /\ pc' = "closed" /\ session' = <<>> /\ wire' = <<>>
  /\ UNCHANGED <<chunk, parser, token, part, req, sent, handled>>

Init ==
  /\ session \in Clients /\ wire = <<>> /\ chunk = <<>>
  /\ parser = Null /\ token = EmptyToken /\ part = EmptyPart /\ req = EmptyRequest
  /\ files = <<>> /\ pc = "poll" /\ sent = <<>> /\ handled = <<>>

Server ==
  \/ Read \/ NeedMoreData \/ HeadersGET \/ HeadersURL \/ HeadersVERSION \/ HeadersSkipNL
  \/ HeadersKEY \/ KEYBroken \/ HeadersVALUE \/ MultilineIfSpace \/ SkipWhitespace
  \/ NoBody \/ PrepareFails \/ PrepareUrlencode \/ PrepareMultipart \/ PrepareContentLength \/ PreparePUT
  \/ Urlencode \/ ContentLengthData \/ PutData
  \/ PartStart \/ PartNext \/ PartHeaderKEY \/ PartHeaderIgnored
  \/ PartDisposition \/ PartNameTooLong \/ PartHeadersEnd
  \/ FileMatches \/ FileTakesBack \/ FileTakes \/ FileTooBig \/ DataMatches \/ DataTakes
  \/ ProcessAndKeep \/ ProcessAndClose \/ Close
Next == Send \/ Server
Spec == Init /\ [][Next]_vars
-----------------------------------------------------------------------------
TypeOK ==
  /\ pc \in {"poll", "parse", "process", "failed", "answered", "closed"}
  /\ (pc = "parse") = (chunk # <<>>)
  /\ parser = Null => token = EmptyToken /\ part = EmptyPart /\ req = EmptyRequest
  /\ parser \in {"PartFile", "PartData"} => part.pos < Len(part.boundary)
  /\ part.start <= part.pos
  /\ Len(handled) <= Len(sent)

\* Values of several lines end by CR LF lose all but the first, line breaks in a field
\* of a form are garbled, and names keep their quotes unless one blank is before them:
\* for these the code does something else.
Plain(q) ==
  /\ q.eol = <<"LF">> \/ \A h \in ToSet(q.headers) : Len(h[2]) = 1
  /\ q.kind = "parts" => /\ \A p \in ToSet(q.parts) : p.filename # Null \/ ~Has(p.content, "LF")
                         /\ q.mark = <<>> \/ \A gap \in ToSet(q.gaps) : gap = <<"SP">>
\* However it was cut, a request is handled as the client meant it: method, path,
\* query, headers, fields, files and data (onion_request_write).
HandledAsSent == TypeOK /\ \A i \in DOMAIN handled : Plain(sent[i]) => handled[i] = Meant(sent[i])
\* The file name a handler gets is the one that was sent: 08-post.c compares them
\* ("File names do not match").
FileNamesKept ==
  \A i \in DOMAIN handled : \A p \in ToSet(sent[i].parts) :
    p.filename # Null => <<p.name, p.filename>> \in handled[i].POST

\* What began like the boundary and was none is part of the field: the parser copies "as
\* much as I wrongly thought I got".
FieldsKept ==
  \A i \in DOMAIN handled : \A p \in ToSet(sent[i].parts) :
    p.filename = Null => <<p.name, p.content>> \in handled[i].POST

SumOfSizes(S) == FoldSet(LAMBDA f, n : Len(f[2]) + n, 0, S)
\* Nothing above the limits of the server reaches a handler; the size of uploaded
\* files is looked at before a character is counted, so one more gets through.
LimitsKept ==
  \A i \in DOMAIN handled :
    /\ sent[i].kind \in {"form", "raw"} /\ sent[i].method # <<"P", "UT">> => Len(Body(sent[i])) <= MaxPostSize
    /\ sent[i].method = <<"P", "UT">> => Len(Body(sent[i])) <= MaxFileSize
    /\ SumOfSizes(handled[i].FILES) <= MaxFileSize + 1
\* A temporary file is there while its request is; when the request is answered
\* or the connection closed it is unlinked, and it was closed before it is handled.
FilesFollowRequest ==
  \A f \in DOMAIN files :
    /\ files[f].exists = (pc # "closed" /\ \E k \in req.FILES : k[2] = f)
    /\ files[f].open => parser \in {"PUT", "PartFile"} /\ pc # "process"
\* A semicolon ends the last line before the empty one: the empty line, and what follows it,
\* is taken for more fields of that line.
Unended(q) == q.kind = "parts" /\ q.tail # <<>> /\ \E p \in ToSet(q.parts) : ~p.typed
\* What the server may refuse: a method it does not know, a line that is no header,
\* or a size.  The boundary after a file counts as part of it, and what only looks
\* like a boundary counts twice.
Refusable(q) ==
  \/ q.method \notin Methods \/ Has(q.http, "LF")
  \/ q.kind \in {"form", "raw"} /\ Len(Body(q)) > (IF q.method = <<"P", "UT">> THEN MaxFileSize ELSE MaxPostSize)
  \/ q.kind = "parts" /\ \/ SumOfSizes(Meant(q).FILES) + 5 * Cardinality(Meant(q).FILES) > MaxFileSize
                         \/ \E p \in ToSet(q.parts) : Has(p.content, "LF") \/ Len(p.name) + 3 > MaxPostSize
                         \/ Unended(q)
\* A request that was sent whole is answered, and refused only for a reason: no cut makes
\* the parser wait for what it has already been given, lose it, or take it for something else.
\* Only a part that ends in a semicolon makes it wait for ever.
EveryRequestAnswered ==
  /\ pc = "poll" /\ wire = <<>> /\ Len(handled) < Len(sent) => Unended(sent[Len(handled) + 1])
  /\ pc = "failed" /\ Len(handled) < Len(sent) => Refusable(sent[Len(handled) + 1])
-----------------------------------------------------------------------------
(* Why the files follow their request                                      *)

\* Every file that FILES names was made, and only these are still there.
Named == {k[2] : k \in req.FILES}
Linked ==
  /\ Named \subseteq DOMAIN files
  /\ \A f \in DOMAIN files : files[f].exists = (pc # "closed" /\ f \in Named)
\* Only the file that is being received is open.
Receiving ==
  \A f \in DOMAIN files :
    files[f].open => f = part.fd /\ parser \in {"PUT", "PartFile"} /\ pc # "process"
\* There are none before the headers are read.
Nameless == pc \in {"poll", "parse"} /\ parser \in Heading \union {Null} => req.FILES = {}

FilesInv ==
  /\ parser \in Parsers \union {Null}
  /\ "FILES" \in DOMAIN req /\ "fd" \in DOMAIN part
  /\ files \in Seq(ToSet(files))
  /\ \A f \in DOMAIN files : {"open", "exists"} \subseteq DOMAIN files[f]
  /\ Linked /\ Receiving /\ Nameless
=============================================================================
