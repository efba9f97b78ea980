------------------------------- MODULE Handlers -------------------------------
(***************************************************************************)
(* From a parsed request to its answer: the handlers a program has built   *)
(* (onion_handler_new, onion_handler_add, onion_url_add, ...), the walk    *)
(* along them, the error handler, and the release of everything.           *)
(*                                                                         *)
(* Handlers are chained through next; url, path and authentication         *)
(* handlers hold a chain of their own and call onion_handler_handle on it, *)
(* so a call is a stack, one element for each loop of onion_handler_handle *)
(* that is running: the handler it has reached.  What the response does    *)
(* with its buffer is in Response; here it is a head and a body.           *)
(***************************************************************************)
EXTENDS Server, TLC

CONSTANTS
  Programs,     \* sequences of the calls that build the handlers
  Requests,     \* [client, path, GET, auth]: what clients ask for
  MaxRequests,  \* bound: how many requests are served
  Accounts,     \* <<user, password>> that PAM accepts
  Room          \* sizeof(response->buffer)

VARIABLES
  server,   \* listen points, connections, sessions and client data, as in Server
  program,  \* the calls still to be made
  heap,     \* handlers by name: [kind, next, entries, inside, data, freed]
  root,     \* server->root_handler
  onError,  \* server->internal_error_handler
  pc,       \* "build", "deaf", "idle", "call", "loop", "end"
  left,     \* how many requests may still come
  req,      \* [client, fullpath, at, GET, auth, flags]: at is path - fullpath
  res,      \* [code, length, head, body]
  stack,    \* the handler that each running onion_handler_handle has reached
  result,   \* what the call under way has returned
  session,  \* what the session of each client holds
  leaked,   \* history: handlers the server let go of without freeing them
  answers   \* history: [asked, known, by, head, body, kept]

vars == <<server, program, heap, root, onError, pc, left, req, res, stack, result, session, leaked, answers>>

NOT_PROCESSED == 0
PROCESSED == 2
KEEP_ALIVE == 3
CLOSE_CONNECTION == -2
YIELD == -3
WEBSOCKET == 4
INTERNAL_ERROR == -500
NOT_IMPLEMENTED == -501
FORBIDDEN == -502
Errors == {INTERNAL_ERROR, NOT_IMPLEMENTED, NOT_PROCESSED}

Clients == {q.client : q \in Requests}
Top == Last(stack)
H == heap[Top]
Path == SubSeq(req.fullpath, req.at + 1, Len(req.fullpath))
NoRequest == [client |-> Null, fullpath |-> <<>>, at |-> 0, GET |-> {}, auth |-> Null, flags |-> {}]
NewResponse == [code |-> 200, length |-> Null, head |-> Null, body |-> <<>>]
-----------------------------------------------------------------------------
(* Patterns.  A regular expression is the set of words it matches, each    *)
(* with its groups; regexec takes the leftmost and there the longest.      *)

Matches(p, s) ==
  {m \in [start : 0..Len(s), word : p.words] :
     /\ p.anchored => m.start = 0
     /\ IsPrefix(m.word.text, SubSeq(s, m.start + 1, Len(s)))}
Regexec(p, s) ==
  CHOOSE m \in Matches(p, s) :
    \A n \in Matches(p, s) :
      \/ m.start < n.start
      \/ m.start = n.start /\ Len(m.word.text) >= Len(n.word.text)
Strcmp(p) == p.kind = "strcmp"
Fits(p, s) == IF Strcmp(p) THEN p.text = s ELSE Matches(p, s) # {}
EndOf(p, s) == IF Strcmp(p) THEN Len(s) ELSE Regexec(p, s).start + Len(Regexec(p, s).word.text)
Groups(p, s) ==
  IF Strcmp(p) THEN {}
  ELSE LET g == Regexec(p, s).word.groups IN {<<i, g[i]>> : i \in DOMAIN g}
\* url.c: the first entry that fits
FirstFit(entries, s) ==
  LET i == SelectInSeq(entries, LAMBDA e : Fits(e.pattern, s)) IN IF i = 0 THEN Null ELSE entries[i]

\* A bug: the path is measured from its start.
AdvancedFromStart(q, n) == [q EXCEPT !.at = n]
Advanced(q, n) == IF q.at + n <= Len(q.fullpath) THEN [q EXCEPT !.at = @ + n] ELSE q
Polished(q) == [q EXCEPT !.at = IF q.fullpath = <<>> THEN 0 ELSE 1]
-----------------------------------------------------------------------------
(* onion_handler_free and the private data frees: all that hangs under h.  *)

RECURSIVE Under(_, _)
\* A bug: the rest of the chain is forgotten.
RECURSIVE UnderOne(_, _)
UnderOne(hp, h) ==
  IF h = Null THEN <<>>
  ELSE <<h>> \o UnderOne(hp, hp[h].inside)
       \o FlattenSeq([i \in DOMAIN hp[h].entries |-> UnderOne(hp, hp[h].entries[i].inside)])
Under(hp, h) ==
  IF h = Null THEN <<>>
  ELSE Under(hp, hp[h].inside)
       \o FlattenSeq([i \in DOMAIN hp[h].entries |-> Under(hp, hp[h].entries[i].inside)])
       \o <<h>> \o Under(hp, hp[h].next)
Freed(hp, h) ==
  LET gone == Under(hp, h)
  IN [x \in DOMAIN hp |-> [hp[x] EXCEPT !.freed = @ + Cardinality({i \in DOMAIN gone : gone[i] = x})]]

-----------------------------------------------------------------------------
(* The program: onion_new has been called, and the error handler is there. *)

Handler(kind, inside, data) ==
  [kind |-> kind, next |-> Null, entries |-> <<>>, inside |-> inside, data |-> data, freed |-> 0]
Call == Head(program)
\* A constructor that failed returned NULL.
Made(h) == IF h \in DOMAIN heap THEN h ELSE Null
Calls(op) ==
  /\ pc = "build" /\ program # <<>> /\ Call.op = op
  /\ program' = Tail(program)
  /\ UNCHANGED <<pc, left, req, res, stack, result, session, answers>>
CallsFor(op, new) == Calls(op) /\ server' = new /\ UNCHANGED <<heap, root, onError, leaked>>

\* The constructors: what a handler is given to keep
UrlNew == Handler("url", Null, Null)
AuthPamNew(inside) == Handler("auth", inside, Null)
OpackNew(path, length, renders) == Handler("opack", Null, [path |-> path, length |-> length, size |-> renders])
StaticNew(size, code) == Handler("static", Null, [size |-> size, code |-> code])
UrlStaticNew(size, code) == Handler("url_static", Null, [size |-> size, code |-> code])
StatusNew == Handler("status", Null, Null)
Constructed(c) ==
  CASE c.kind = "url" -> UrlNew
    [] c.kind = "auth" -> AuthPamNew(Made(c.inside))
    [] c.kind = "opack" -> OpackNew(c.data.path, c.data.length, c.data.size)
    [] c.kind = "static" -> StaticNew(c.data.size, c.data.code)
    [] c.kind = "url_static" -> UrlStaticNew(c.data.size, c.data.code)
    [] c.kind = "status" -> StatusNew
    [] OTHER -> Handler(c.kind, Null, c.data)
New ==
  /\ Calls("new")
  /\ heap' = heap @@ (Call.name :> Constructed(Call))
  /\ UNCHANGED <<server, root, onError, leaked>>
RECURSIVE LastOf(_)
LastOf(h) == IF heap[h].next = Null THEN h ELSE LastOf(heap[h].next)
AddLast(base, h) == heap' = [heap EXCEPT ![LastOf(base)].next = h]
Add == Calls("add") /\ AddLast(Call.base, Made(Call.name)) /\ UNCHANGED <<server, root, onError, leaked>>
\* With an expression regcomp refuses the entry is dropped and its handler is the caller's.
UrlAdd ==
  /\ Calls("url_add")
  /\ heap' = IF Call.pattern.valid
               THEN [heap EXCEPT ![Call.url].entries = Append(@, [pattern |-> Call.pattern, inside |-> Made(Call.name)])]
               ELSE heap
  /\ leaked' = IF Call.pattern.valid THEN leaked ELSE leaked \union ToSet(Under(heap, Made(Call.name)))
  /\ UNCHANGED <<server, root, onError>>
SetRoot ==
  /\ Calls("root") /\ root' = Made(Call.name)
  /\ leaked' = leaked \union ToSet(Under(heap, root)) /\ UNCHANGED <<server, heap, onError>>
SetError ==
  /\ Calls("error") /\ onError' = Made(Call.name)
  /\ leaked' = leaked \union ToSet(Under(heap, onError)) /\ UNCHANGED <<server, heap, root>>
\* onion_handler_path whose expression regcomp refuses frees what it was given.
NewPath ==
  /\ Calls("path")
  /\ heap' = IF Call.pattern.valid
               THEN heap @@ (Call.name :> Handler("path", Made(Call.inside), Call.pattern))
               ELSE Freed(heap, Made(Call.inside))
  /\ UNCHANGED <<server, root, onError, leaked>>
\* onion_root_url: the url handler at the root, made if there is none
RootUrl ==
  /\ Calls("root_url")
  /\ \/ root # Null /\ UNCHANGED <<heap, root>>
     \/ /\ root = Null /\ root' = Call.name
        /\ heap' = heap @@ (Call.name :> UrlNew)
  /\ UNCHANGED <<server, onError, leaked>>

ListenPoint == CallsFor("listen_point", AddListenPoint(server, Call.host, Call.port, Call.kind))
Port == CallsFor("port", SetPort(server, Call.port))
Hostname == CallsFor("hostname", SetHostname(server, Call.host))
Certificate == CallsFor("certificate", SetCertificate(server, Call.type))
Data == CallsFor("data", SetClientData(server, Call.frees))
Sessions == CallsFor("sessions", SetSessionBackend(server))

\* onion_listen: any of the listen points may find its address in use.
Listens ==
  /\ pc = "build" /\ program = <<>>
  /\ \E bound \in SUBSET DOMAIN WithPoint(server).points :
       /\ server' = ListenAt(WithPoint(server), bound)
       /\ pc' = IF bound = {} THEN "deaf" ELSE "idle"
  /\ UNCHANGED <<program, heap, root, onError, left, req, res, stack, result, session, leaked, answers>>
\* onion_free, before the server has listened, or later
Free ==
  /\ pc \in {"deaf", "idle"} \/ (pc = "build" /\ program = <<>>)
  /\ heap' = Freed(Freed(heap, root), onError)
  /\ root' = Null /\ onError' = Null
  /\ server' = FreeServer(server)
  /\ pc' = "end"
  /\ UNCHANGED <<program, left, req, res, stack, result, session, leaked, answers>>
-----------------------------------------------------------------------------
(* The response.                                                           *)

WriteHeaders(r) == IF r.head = Null THEN [r EXCEPT !.head = [code |-> r.code, length |-> r.length]] ELSE r
SetLength(r, n) == IF r.head = Null THEN [r EXCEPT !.length = n] ELSE r
SetCode(r, c) == [r EXCEPT !.code = c]
\* Content carries who wrote it, and the code that goes with it.
Write(r, by, n) ==
  LET w == [r EXCEPT !.body = @ \o [i \in 1..n |-> [by |-> by, code |-> r.code]]]
  IN IF Len(w.body) > Room THEN WriteHeaders(w) ELSE w
Flush(r) == IF r.body = <<>> THEN r ELSE WriteHeaders(r)
\* onion_shortcut_response_extra_headers
Shortcut(r, by, code, n) == Write(WriteHeaders(SetCode(SetLength(r, n), code)), by, n)
ResponseJson(r, by, n) == Shortcut(r, by, 200, n)
-----------------------------------------------------------------------------
(* onion_request_process and the loop of onion_handler_handle.             *)

Keep == UNCHANGED <<server, program, heap, root, onError, left, leaked, answers>>
Enters(h) == stack' = Append(stack, h)
\* A handler is called, or the loop of a chain that is empty ends.
Looks(s) == IF Last(s) = Null THEN "loop" ELSE "call"
Returns(r) == result' = r /\ pc' = "loop" /\ UNCHANGED stack

\* A client keeps its connection as long as it is not closed; else one is accepted.
Listening == {i \in DOMAIN server.points : server.points[i].fd > 0}
ConnectionsOf(client) == {c \in server.conns : c.text = client}
Connects(client) ==
  IF ConnectionsOf(client) # {} THEN UNCHANGED server
  ELSE \E i \in Listening : server' = Accepted(server, client, i)
Rejects(client) ==
  /\ pc = "idle" /\ left > 0 /\ left' = left - 1
  /\ ConnectionsOf(client) = {}
  /\ \E i \in Listening : server' = Refused(server, client, i)
  /\ UNCHANGED <<program, heap, root, onError, pc, req, res, stack, result, session, leaked, answers>>

Process(q) ==
  /\ pc = "idle" /\ left > 0 /\ left' = left - 1
  /\ Connects(q.client)
  /\ req' = Polished([client |-> q.client, fullpath |-> q.path, at |-> 0, GET |-> q.GET, auth |-> q.auth, flags |-> {}])
  /\ res' = NewResponse
  /\ stack' = <<root>> /\ result' = NOT_PROCESSED /\ pc' = Looks(stack')
  /\ answers' = Append(answers, [asked |-> q, known |-> session[q.client], by |-> Null, head |-> Null, body |-> <<>>, kept |-> FALSE])
  /\ UNCHANGED <<program, heap, root, onError, session, leaked>>

\* It calls the chain inside; what that returns is what it returns.
Descends(inside, q) ==
  /\ Enters(inside) /\ req' = q /\ result' = NOT_PROCESSED /\ pc' = Looks(stack')
  /\ UNCHANGED res

CallUrl ==
  /\ pc = "call" /\ H.kind = "url" /\ Keep /\ UNCHANGED session
  /\ LET e == FirstFit(H.entries, Path)
     IN \/ e = Null /\ Returns(NOT_PROCESSED) /\ UNCHANGED <<req, res>>
        \/ /\ e # Null
           /\ Descends(e.inside, Advanced([req EXCEPT !.GET = @ \union Groups(e.pattern, Path)], EndOf(e.pattern, Path)))
CallPath ==
  /\ pc = "call" /\ H.kind = "path" /\ Keep /\ UNCHANGED session
  /\ \/ ~Fits(H.data, Path) /\ Returns(NOT_PROCESSED) /\ UNCHANGED <<req, res>>
     \/ Fits(H.data, Path) /\ Descends(H.inside, Advanced(req, EndOf(H.data, Path)))

\* The header is "Basic" and what base64 gives has a colon.
Credentials(q) == IF q.auth = Null \/ Len(q.auth) # 2 THEN Null ELSE q.auth
Authorize(credentials) == credentials # Null /\ credentials \in Accounts
CallAuth ==
  /\ pc = "call" /\ H.kind = "auth" /\ Keep
  /\ \/ /\ "pam_logged_in" \in session[req.client]
        /\ Descends(H.inside, req) /\ UNCHANGED session
     \/ /\ "pam_logged_in" \notin session[req.client]
        /\ Authorize(Credentials(req))
        /\ session' = [session EXCEPT ![req.client] = @ \union {"username", "pam_logged_in"}]
        /\ Descends(H.inside, req)
     \/ /\ "pam_logged_in" \notin session[req.client]
        /\ ~Authorize(Credentials(req))
        /\ res' = Write(SetLength(SetCode(res, 401), 2), Top, 2)
        /\ Returns(PROCESSED) /\ UNCHANGED <<req, session>>

\* onion_handler_static sets the length first and writes the headers; the static text of
\* onion_url_add_static leaves the headers to the first flush.
\* A bug: the handler forgets to say that it has answered.
CallStaticSilent ==
  /\ pc = "call" /\ H.kind = "static" /\ Keep /\ UNCHANGED <<req, session>>
  /\ res' = Write(WriteHeaders(SetCode(SetLength(res, H.data.size), H.data.code)), Top, H.data.size)
  /\ Returns(NOT_PROCESSED)
CallStatic ==
  /\ pc = "call" /\ H.kind = "static" /\ Keep /\ UNCHANGED <<req, session>>
  /\ res' = Write(WriteHeaders(SetCode(SetLength(res, H.data.size), H.data.code)), Top, H.data.size)
  /\ Returns(PROCESSED)
CallUrlStatic ==
  /\ pc = "call" /\ H.kind = "url_static" /\ Keep /\ UNCHANGED <<req, session>>
  /\ res' = Write(SetLength(SetCode(res, H.data.code), H.data.size), Top, H.data.size)
  /\ Returns(PROCESSED)
CallOpack ==
  /\ pc = "call" /\ H.kind = "opack" /\ Keep /\ UNCHANGED <<req, session>>
  /\ \/ H.data.path # Path /\ Returns(NOT_PROCESSED) /\ UNCHANGED res
     \/ /\ H.data.path = Path
        /\ LET r == IF H.data.length = 0 THEN res ELSE SetLength(res, H.data.length)
           IN res' = Write(WriteHeaders(r), Top, H.data.size)
        /\ Returns(PROCESSED)
CallStatus ==
  /\ pc = "call" /\ H.kind = "status" /\ Keep /\ UNCHANGED <<req, session>>
  /\ res' = Write(WriteHeaders(res), Top, Room + 1)
  /\ Returns(PROCESSED)

\* What a program's own handlers do.
CallUser ==
  /\ pc = "call" /\ H.kind = "user" /\ Keep /\ UNCHANGED <<req, session>>
  /\ res' = CASE H.data = "answers" -> Write(res, Top, 1)
              [] H.data = "answers much" -> Write(res, Top, Room + 1)
              [] H.data = "shortcut" -> Shortcut(res, Top, 418, 1)
              [] H.data = "moved" -> Shortcut(res, Top, 302, 1)
              [] H.data = "json" -> ResponseJson(res, Top, 2)
              [] H.data \in {"writes and fails", "writes and goes"} -> Write(res, Top, 1)
              [] OTHER -> res
  /\ Returns(CASE H.data \in {"skips", "writes and goes"} -> NOT_PROCESSED
               [] H.data \in {"fails", "writes and fails"} -> INTERNAL_ERROR
               [] H.data = "lacks" -> NOT_IMPLEMENTED
               [] H.data = "forbids" -> FORBIDDEN
               [] H.data = "closes" -> CLOSE_CONNECTION
               [] H.data = "no websocket" -> WEBSOCKET
               [] OTHER -> PROCESSED)
\* onion_shortcut_internal_redirect: the new address is the path as it is.
CallRedirect ==
  /\ pc = "call" /\ H.kind = "redirect" /\ Keep /\ UNCHANGED session
  /\ Descends(root, [req EXCEPT !.fullpath = H.data, !.at = 0])

\* onion_default_error
ErrorCode(flags) ==
  CASE "OR_INTERNAL_ERROR" \in flags -> 500
    [] "OR_NOT_IMPLEMENTED" \in flags -> 501
    [] "OR_FORBIDDEN" \in flags -> 403
    [] OTHER -> 404
CallError ==
  /\ pc = "call" /\ H.kind = "default_error" /\ Keep /\ UNCHANGED <<req, session>>
  /\ res' = Write(WriteHeaders(SetLength(SetCode(res, ErrorCode(req.flags)), 1)), Top, 1)
  /\ Returns(PROCESSED)

\* The handler did not process: on to the next one, or out with NOT_PROCESSED.
LoopGoesOn ==
  /\ pc = "loop" /\ stack # <<>> /\ result = NOT_PROCESSED
  /\ \/ /\ Top # Null
        /\ stack' = Append(Front(stack), H.next) /\ pc' = Looks(stack')
     \/ /\ Top = Null
        /\ stack' = Front(stack)
        \* a handler whose inside did not process has not either
        /\ pc' = "loop"
  /\ UNCHANGED <<req, res, result, session>> /\ Keep
\* It did: what is buffered is sent, and every loop returns.
Outcome(r) == IF r = WEBSOCKET THEN INTERNAL_ERROR ELSE r
LoopReturns ==
  /\ pc = "loop" /\ stack # <<>> /\ result # NOT_PROCESSED
  /\ res' = Flush(IF Len(res.body) < Room THEN SetLength(res, Len(res.body)) ELSE res)
  /\ result' = Outcome(result)
  /\ answers' = IF answers[Len(answers)].by = Null THEN [answers EXCEPT ![Len(answers)].by = Top] ELSE answers
  /\ stack' = Front(stack)
  /\ UNCHANGED <<server, program, heap, root, onError, pc, left, req, session, leaked>>

\* Nobody answered or somebody failed: the error handler is called, once.
FlagOf(r) ==
  CASE r = INTERNAL_ERROR -> "OR_INTERNAL_ERROR"
    [] r = NOT_IMPLEMENTED -> "OR_NOT_IMPLEMENTED"
    [] OTHER -> "OR_NOT_FOUND"
IsError(r) == r \in Errors
HandleError ==
  /\ pc = "loop" /\ stack = <<>> /\ req.flags = {} /\ IsError(result)
  /\ req' = [req EXCEPT !.flags = {FlagOf(result)}]
  /\ stack' = <<onError>> /\ result' = NOT_PROCESSED /\ pc' = Looks(stack')
  /\ answers' = [answers EXCEPT ![Len(answers)].by = onError]
  /\ UNCHANGED <<server, program, heap, root, onError, left, res, session, leaked>>
\* The answer is complete; a connection that is not kept is freed with its request.
Finish ==
  /\ pc = "loop" /\ stack = <<>> /\ (req.flags # {} \/ ~IsError(result))
  /\ LET r == Flush(WriteHeaders(IF Len(res.body) < Room THEN SetLength(res, Len(res.body)) ELSE res))
         kept == result > 0 /\ r.head.length \in {Null, Len(r.body)}
     IN /\ answers' = [answers EXCEPT ![Len(answers)].head = r.head, ![Len(answers)].body = r.body,
                                      ![Len(answers)].kept = kept]
        /\ server' = IF kept THEN server ELSE FoldLeft(FreeConnection, server, SetToSeq(ConnectionsOf(req.client)))
  /\ pc' = "idle" /\ req' = NoRequest /\ res' = NewResponse
  /\ UNCHANGED <<program, heap, root, onError, left, stack, result, session, leaked>>
-----------------------------------------------------------------------------
Init ==
  /\ program \in Programs
  /\ server = NewServer
  /\ heap = ("default" :> Handler("default_error", Null, Null))
  /\ root = Null /\ onError = "default"
  /\ pc = "build" /\ left = MaxRequests
  /\ req = NoRequest /\ res = NewResponse /\ stack = <<>> /\ result = NOT_PROCESSED
  /\ session = [c \in Clients |-> {}] /\ answers = <<>> /\ leaked = {}

Build ==
  \/ New \/ Add \/ UrlAdd \/ NewPath \/ SetRoot \/ SetError \/ RootUrl
  \/ ListenPoint \/ Port \/ Hostname \/ Certificate \/ Data \/ Sessions \/ Listens
CallHandler ==
  \/ CallUrl \/ CallPath \/ CallAuth \/ CallStatic \/ CallUrlStatic \/ CallOpack
  \/ CallStatus \/ CallUser \/ CallRedirect \/ CallError
Done == pc = "end" /\ UNCHANGED vars
Next ==
  \/ Build \/ (\E q \in Requests : Process(q)) \/ (\E c \in Clients : Rejects(c)) \/ CallHandler
  \/ LoopGoesOn \/ LoopReturns \/ HandleError \/ Finish \/ Free \/ Done

Spec == Init /\ [][Next]_vars
-----------------------------------------------------------------------------
(* Where a request should go: down the handlers in the order they were     *)
(* added, each chain with the path it was entered with.                    *)

RECURSIVE Route(_, _, _)
\* What handler h alone makes of path s: who answers in the end, or Null
RECURSIVE Inside(_, _, _)
Inside(h, s, a) ==
  LET kind == heap[h].kind
      data == heap[h].data
      Rest(p) == SubSeq(s, EndOf(p, s) + 1, Len(s))
  IN CASE kind = "url" ->
            LET e == FirstFit(heap[h].entries, s)
            IN IF e = Null THEN Null ELSE Route(e.inside, Rest(e.pattern), a)
       [] kind = "path" -> IF Fits(data, s) THEN Route(heap[h].inside, Rest(data), a) ELSE Null
       [] kind = "auth" ->
            IF "pam_logged_in" \in a.known \/ a.asked.auth \in Accounts
              THEN Route(heap[h].inside, s, a) ELSE h
       [] kind = "opack" -> IF data.path = s THEN h ELSE Null
       [] kind = "redirect" -> Route(root, SelectSeq(SubSeq(data, 1, 1), LAMBDA c : c # "/") \o Tail(data), a)
       [] kind = "user" /\ data \in {"skips", "writes and goes"} -> Null
       [] kind = "user" /\ data \in {"fails", "writes and fails", "lacks", "no websocket"} -> onError
       [] OTHER -> h
Route(h, s, a) ==
  IF h = Null THEN Null
  ELSE LET r == Inside(h, s, a) IN IF r # Null THEN r ELSE Route(heap[h].next, s, a)

Answered == pc = "idle" /\ answers # <<>>
Latest == Last(answers)

\* A request is answered by the first handler, in the order of the chains and of the urls, that
\* does not leave it, behind an authentication only if its client has shown a password that PAM
\* accepts, now or earlier, and by the error handler if nobody answers or the handler fails
\* (onion_handler_handle, onion_url_handler, onion_handler_auth_pam_handler).
RoutedRight ==
  Answered =>
    LET r == Route(root, Tail(Latest.asked.path), Latest)
    IN Latest.by = IF r = Null THEN onError ELSE r

\* What a client reads is one answer: all of its content from the handler that answered, under the
\* status that handler meant, as long as announced (onion_handler_handle, onion_request_process).
OneAnswer ==
  Answered =>
    /\ Latest.head # Null /\ Latest.head.length \in {Null, Len(Latest.body)}
    /\ \A u \in ToSet(Latest.body) : u.by = Latest.by /\ u.code = Latest.head.code

\* No handler, listen point, connection, name, session store or client data is used after it was
\* freed or freed twice, credentials into which a certificate was loaded stay as long as the server,
\* and with the server everything goes that it still holds, the sockets too (onion_free, onion_handler_free, onion_listen_point_free, onion_set_certificate).
FreedOnce ==
  /\ \A i \in DOMAIN stack : stack[i] # Null => heap[stack[i]].freed = 0
  /\ \A h \in DOMAIN heap : heap[h].freed <= 1 /\ (pc = "end" /\ h \notin leaked => heap[h].freed = 1)
  /\ Cardinality(ToSet(server.gone)) = Len(server.gone)
  /\ \A c \in server.conns : c.point \notin ToSet(server.gone) /\ c.fd \in server.open
  /\ pc # "end" => server.loaded \intersect ToSet(server.gone) = {}
  /\ pc = "end" => ToSet(server.gone) = 1..server.made /\ server.open = {}

\* Only descriptors are closed, or polled, that the server has opened.  The code does not keep it:
\* a listen point that has not listened holds descriptor 0 (onion_listen_point_new), which
\* onion_listen_point_free closes and onion_listen polls.
OwnDescriptors == server.foreign = {} /\ (pc = "idle" => server.polled \subseteq server.open)
=============================================================================
