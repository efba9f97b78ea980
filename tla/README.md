# Onion, verified

Onion is an HTTP server library in C. This directory holds TLA+ models of its
core, the TLC runs that check them, and proofs about them. File names below
without a directory are under `src/src/onion/` of the repository.

    tlc -config PollerStop.cfg MCPollerStop      # any run: see "Runs"
    tlapm PollerStopProofs.tla                   # the proofs

## 1. The system

| component | state | operations | talks to |
|---|---|---|---|
| server object (`onion.c`) | flags (`O_LISTENING`, `O_DETACHED`), mutex, listen points, thread ids, client data, sessions, root and error handler | `onion_new`, set up, `onion_listen`, `onion_listen_stop`, `onion_client_data`, `onion_free` | poller, listen points; signal handlers and user threads call it |
| poller (`poller.c`) | epoll set, static slots by descriptor chained through `next`, `stop`, `npollers`, eventfd, timerfd, `current_timeout_limit`, mutex | `_add`, `_remove`, `_poll`, `_stop`, the timer's walk | calls the callback of every slot, in any thread of the pool |
| listen points (`listen_point.c`) | listening descriptor, its slot, names; a request per accepted connection | listen, accept, close, stop, free | poller, request |
| http, https (`http.c`, `https.c`) | none; credentials and a TLS session | read and feed the parser, write, handshake, certificates, close | request, response |
| request and parser (`request.c`, `request_parser.c`) | headers, GET, POST, FILES, cookies, session, parser and token state, temporary files | `onion_request_write` (feed), process, clean, session calls, cookies | handlers, sessions |
| response (`response.c`) | buffer, `sent_bytes`, length, flags, headers | `set_length`, `write_headers`, `write`, `flush`, cookies, `free` | the listen point's writer |
| handlers and routing (`handler.c`, `url.c`, `handlers/`) | chain of handlers, patterns, the request's remaining path | `onion_handler_handle`, url, path, static, opack, authentication, status | request, response |
| files (`handlers/exportlocal.c`, `handlers/webdav.c`, `shortcuts.c`) | the file system | GET with ranges, PUT, DELETE, MKCOL, MOVE, PROPFIND, PROPPATCH, listings | other threads' requests, through the file system |
| websocket (`websocket.c`) | opcode, `data_left`, mask, callback | handshake, header, read, write, ping, close, call loop | the same socket as the request; user callback |
| sessions (`sessions.c`, `sessions_mem.c`, redis, sqlite) | the store: a dictionary of dictionaries, or a database | create, get, save, remove | dict, request |
| dict (`dict.c`) | AA tree of key, value and ownership flags; reference count | add, remove, get, walk, dup, JSON, free | everything |
| block, codecs, mime (`block.c`, `codecs.c`, `mime.c`) | growing buffer; none; table of types | add, encode and decode, look up | everything |
| template compiler (`src/tools/otemplate/`) | parser mode, stack of C functions, blocks | compile a template to C | its output calls response, dict and block |
| pointer list, low, log, random, extras | | helpers | everything |

How they interact. `onion_listen` opens the listen points, starts threads that all
run `onion_poller_poll` on one epoll set, and joins them. An event is taken by any of
them; a slot is registered one shot, so its callback runs in one thread at a time
and the slot is set again afterwards. The callback of a listen point accepts and
adds a slot; the callback of a connection reads, parses, calls the handlers and
writes the answer, then keeps or closes the connection. Sessions are shared by all
requests of a client. A handler may hand its request to another thread
(`OCS_YIELD`) or turn the connection into a websocket.

What is hard here:

* the request to stop goes through a flag, a counter and an eventfd that are never
  changed together, and threads leave one after the other;
* limits, the timerfd and the second of the last walk are shared without a lock;
* slots are indexed by descriptor, and the kernel gives a closed number out again;
* a response decides from its flags and counts whether a connection is kept, its
  client decides from the headers it was sent before;
* a session's dictionary is found and its reference counted in two steps, and the
  end of a request reads the store's state and changes it in separate ones;
* a request arrives cut at any byte, and what looks like a boundary may be content;
* handlers nest, share one path and one response, and may fail after they have written;
* files are measured, opened, sent, replaced and removed by several requests at once;
* encoders compute the size of their buffers before they fill them;
* websocket reads are nested in the reading of headers, which are nested in reads;
* the tree of a dictionary moves data between nodes whose values it owns.

What makes each part correct is stated as properties in its module (section 4);
the hazards, each at its line, are listed in `PROJECT.json`.

## 2. Modules

| module | models | composed with |
|---|---|---|
| `PollerStop` | start, polling loop and stop: `onion_listen`, `onion_poller_poll`, `onion_poller_stop`, `onion_listen_stop` | — |
| `PollerStopProofs` | its theorems | extends `PollerStop` |
| `PollerTimer` | slot limits and the timerfd: `onion_poller_timer`, `onion_poller_timer_check` and the parts of the loop that set limits | — |
| `PollerTimerProofs` | its theorems | extends `PollerTimer` |
| `PollerSlots` | a connection from accept to close: descriptors, slots, chain, epoll, request, yield | implements `PollerSet` |
| `PollerSlotsProofs` | its theorems, and facts about linked lists | extends `PollerSlots` |
| `PollerSet` | what a poller promises: a set of descriptors | — |
| `RequestParser` | a connection from its first byte: `onion_http_read_ready`, `onion_request_write`, every parser state, temporary files, keep-alive | — |
| `RequestParserProofs` | its theorem | extends `RequestParser` |
| `Server` | what an onion holds besides its handlers, from `onion_new` to `onion_free`, as operators on a record | extended by `Handlers` |
| `Handlers` | a program that builds handlers and sets up its server, connections, requests on their way through the handlers, the error handler, the release of everything | extends `Server` |
| `Files` | exported directories and WebDAV over a file system that several threads change | — |
| `FilesProofs` | its theorems | extends `Files` |
| `Response` | `response.c` with the end of `onion_handler_handle` | — |
| `ResponseProofs` | its theorems | extends `Response` |
| `Sessions` | requests and the store in memory, in redis or in sqlite, with reference counts and restarts | — |
| `SessionsProofs` | its theorems | extends `Sessions` |
| `Dict` | the AA tree and the ownership of its values | implements `DictMap` |
| `DictMap` | what a dictionary promises: a map | — |
| `Websocket` | the handshake, frames from the client, nested reads, pings, close, the call loop, release | — |
| `WebsocketProofs` | its theorems | extends `Websocket` |
| `Frames` | the frames that `onion_websocket_write` and `_vprintf` send | used by `Values` |
| `Codecs` | base64, percent, C, HTML and JSON encoding and decoding | extended by `Values` |
| `Templates` | the template compiler and what the C that it writes does | extended by `Values` |
| `Values` | the growing block and the tasks that encode a value and decode the text: codecs, JSON dictionaries, cookies, mime types, frames, templates | extends `Codecs`, `Templates` |
| `MC*` | the sets that the configurations use | extend the above |

Operators whose comment begins with "A bug" are variants of the definition after
them that the specifications never use: putting one in its place shows that a
property notices.

### PollerStop

`stop`, `npollers`, `eventfd` and `armed` are the poller's; `listening` and `mutex`
the server's; `pc[t]` is where a thread is, named after the code around it. One
action per critical section of `p->mutex` and per system call. `Enter`, `CheckStop`,
`TakeStopEvent`, `TakeOtherEvent`, `Interrupted`, `Rearm` and `Leave` are the loop;
`StopLock` to `StopJoin` are `onion_listen_stop` with `onion_poller_stop` inside,
which the callback of the eventfd also runs (`ret` says where it returns to).
Handlers do what matters to this protocol: return, stop the server, or take
`server->mutex`. History variables `told`, `asked` and `complete` remember who was
polling when a stop began, whether this listen was stopped, and whether a stop began
with the whole pool in the loop. `detached` says who waits for `onion_listen` to end:
its caller, or `onion_listen_stop`, which joins it with the mutex held.

### PollerTimer

Time is in seconds and passes (`Tick`) only in steps that no thread in the timer's
code outlasts by more than the end of a second: a thread may be preempted anywhere,
but not for seconds. Reading and writing `timeout_limit`, `onion_poller_last_time`,
`current_timeout_limit` and the timerfd are separate steps, and so are taking an event
(`TakeConn`, `epoll_wait`) and lifting the limit of its slot (`LiftLimit`, `poller.c:549`);
the walk holds the mutex (`scanner`) and finds a slot over its limit in one step and shuts
it in another. `Slack` is what these delays may add up to; `active` and `before` remember
when a connection last had an event, and the one before that.

### PollerSlots and PollerSet

`file` is what the kernel has behind each number, `nxt`, `data` and `closer` are the
fields of the static slots, `epoll` the registrations. `SlotNew` wipes a slot as
`onion_poller_slot_new` does. Removing is three steps in the code (epoll, chain,
release) and here. A registration may be refused (`RegisterFails`), which nobody looks at.
A request that a handler yielded belongs to another thread, which may free it at any time
from then on (`WorkerFrees`), while the thread of the pool still has to flush the response
and detach the slot; when it does so the history variable `overtaken` is set, and nothing is
claimed any more but that it was this. The refinement maps the set of watched descriptors to
the slots reachable from `head`, until then.

### RequestParser

The wire is a sequence of symbols; a read takes any number of them out of `Pieces`, and
`chunk` is what is left of the piece. `parser` is the C function pointer `req->parser`,
`token` and `part` are `onion_token` and `onion_multipart_buffer`. One action is one
parser function applied to what it takes of the piece: a token that the piece ends in
(`NeedMoreData`) stays in `token.str`. Long words are two symbols, so that every word can
be cut. The client is external: it has a meaning (`Meant`) and writes it (`Encode`); a
property compares what handlers see with the meaning. A client writes the names of a part with
or without quotes (`q.mark`) and with any blanks in front of them (`q.gaps`), and may end the line in
a semicolon (`q.tail`). `ValueOf` takes the closing quote away where the code looks for it, which is
where it stands behind one blank; behind three or more the code reads what an earlier token
left in the buffer, and no client of the runs writes so many. Temporary files are numbered in the
order they are made; `FILES` that is not there yet is empty. All tokens fit their buffers, system calls succeed, and a digit
is a symbol.

### Handlers and Server

A program is a sequence of calls (`Programs`), made one by one; then the server listens,
with any of its listen points failing to bind, and clients connect, are refused, or ask.
`heap` holds the handlers with their `next` and what hangs inside; `stack` has one
element for each `onion_handler_handle` under way. A regular expression is the set of
words it matches. Each unit of content carries the handler that wrote it and the
status it was meant under. In `Server` everything allocated has a number, so that what
is freed twice or never can be told. TLS is a session object that a connection owns;
`LoadCertificate` remembers which credentials hold certificates.

### Files

A request is one step for each system call. An open file is an inode, whatever becomes of
its name; a block of it is named after the upload it came from. The loop of
`onion_shortcut_response_file` counts in `size_t`, here modulo 16. `otherDevice` makes
`rename` fail with EXDEV, so that `onion_shortcut_rename` copies; a write may find the
disk full; a client may go while it is answered (`LoopBroken`, `SendfileBroken`; what the code
reads and writes after that goes nowhere). A `sendfile` that finds less than `stat` had said
is an internal error, whose page (`ErrorPage`) is written behind what was sent. Names, permissions beyond
the executable bit, and the texts of listings are abstracted.

### Response

The response is a record; `SetLength`, `WriteHeaders`, `Flush`, `FlushSent`,
`CompleteLength` are operators on it that follow the C functions, and the actions
are the calls a handler makes. `onion_response_write` is the one call that loops,
so its iterations are steps: `FillBuffer`, `FlushFull`, `WriteRest`. Content and
headers are counted in units with an identity, so that order, loss and repetition
show. `Send` is a socket that breaks after some units. A write that the kernel
splits is one that it takes whole; `sent_bytes` after a failure is not followed,
because every property about it excludes failed answers. A client reads the
answer back from the wire (`Chunks`, `Delimited`).

### Sessions

One thread serves one request at a time; `pc` separates finding a session
(`Lookup`), counting its reference (`Dup`), removing, saving (`Save`, `Replace`) and
letting go. An operation on the store's tree is one step, although nothing locks
it: what is found here does not depend on the tree. `Overlapping`, `Removable` and
`Emptiable` say what clients and handlers do with which session, in any combination. With a
database the store is `table`, the text of each session; the actions whose names end in `Text`
are what the redis and sqlite backends make of the same calls, including that they fail.
`Restart` ends the process: memory and requests go, the table and the cookies stay.

A dictionary that is freed between `Lookup` and `Dup` sets the history variable `astray`. This
happens (run `sessions_lookup`), and what the program does afterwards with freed memory is
undefined: the properties of the passing run and the theorems claim nothing from there on, and
the run does not explore it (`CONSTRAINT Defined`). `kept` remembers the removed sessions that
another request had when they were removed; `Disputed` names the sessions whose overlapping
requests may take from each other what was saved.

### Dict and DictMap

A subtree is a record; the recursive C functions that return the new root of a
subtree are recursive operators. A value is the address of a string the dictionary
owns; adding a copy takes the lowest free address in reach of the key, a placement
that keeps the state space small and lets addresses be used again after a free. `Duplicates`
says whether callers add a key twice without `OD_REPLACE`. Because of its recursive
operators this module is model-checked only.

### Websocket

`Handshake` is `onion_websocket_new`, with the headers of an upgrade there or not. The
client sends frames of data, pings, pongs and a close, whose payload arrives in pieces; headers
arrive whole. Whatever is neither a ping nor a close goes to the callback, a client's pong as
well. `calls` is the stack of `onion_websocket_read` calls, for the handler or for the
answer of a ping; `pc = "header"` is `onion_websocket_read_packet_header`, on behalf
of the call loop or of the read on top of the stack. A header that cannot be read (`HeaderFails`)
is -2 to the read that wanted it, and a piece of payload that cannot be read (`PayloadFails`) is -1,
which is also taken from `data_left`; what a level returns is added to what the one above has
(`status`, `Result`), so that bytes are written and not counted. `fails` counts the pieces
read in vain: from the first one on the stream may be out of step. When a byte of payload is then
read as a header (`Astray`) the model stops. A socket that is reset together with data that had
arrived, which is then lost, is not modelled. `r == 0 && errno != 0` uses an
errno that nobody cleared, so the callback may or may not be dropped. A close frame
is read without `data_left` being counted down; what a handler reads after one is
not constrained. `Frames` has the other direction: header and masked blocks.
Data and answers are compared with what was sent unit by unit (`Before`, `InOrder`,
`PongsInOrder`): in front of each byte come exactly those that were sent before it, which
says the same as being a prefix of all the data and can be proved about.

### Values, Codecs and Templates

Bytes are numbers; a buffer is a sequence in which what was never written is `Past`. The
codecs are recursive operators that follow the loops of `codecs.c`; an encoder's buffer
has the size that the code computes (`EncodeSize`, `QuoteSize`, ...), and the text is
compared with it. A behaviour of `Values` takes one task and value, encodes and decodes;
the task "block" is a program that adds to a block, rewinds and clears it in any order.
The decoder of a text the code only writes (a C literal, HTML, `Set-Cookie`) is external.

`Templates` compiles a template, a sequence of symbols, with the modes of `parser.c` and
the tags of `tag_builtins.c`, to instructions that stand for the statements of the C it
writes, and runs them on a dictionary of values. The reference is the tree of parts the
template was printed from (`PagesAsWritten`). The buffer of 4096 bytes in which each statement is
printed, and which cuts it (`function_add_code` and `function_add_code_f`, `functions.c:233` and 271),
is left out: a long line of text between tags would lose its end. `LANG` is always "C".
Recursive operators keep both modules model-checked only.

## 3. Fairness

`PollerStop!FairSpec`: threads are scheduled (weak fairness of each thread's steps),
user handlers return (`Callback`), and an armed and readable eventfd is not passed
over for ever: epoll reports ready descriptors in turn, so strong fairness of taking
it by *some* thread. Nothing obliges clients to send, signals to arrive or anybody
to call stop.

`Response!FairSpec`: the thread inside `onion_response_write` goes on (weak fairness
in `pc`, so that a loop that changes nothing does not count as going on). Handlers
may stop calling at any time.

`Files!FairSpec`: each thread that is handling a request goes on (weak fairness of
`Handle(t)`). A disk that is full and a client that has gone do not have to happen.

The other modules check safety only and need no fairness. `EveryRequestAnswered` of
`RequestParser` is a state property: when everything sent has been read and the
parser waits, everything has been answered.

## 4. Runs

Passing. The type invariant of a module is a conjunct of the first property named; a few
auxiliary invariants are conjuncts of others (`InStep` of `HandlerGetsData`,
`SentBytesExact` of `ContentInOrder`, `DescriptorsClosed` of `EffectDone`).

| run | checks | instance, and why it is enough |
|---|---|---|
| `poller_stop` | `StopInv` (types, phases, the counter, one-shot helper, mutex, wake-up), `WakeupNotLost`; `StopEndsListen` | a listener and a second pool thread, two outside stoppers, handlers that stop too, attached and detached, two listens and two stop calls: concurrent stops, a stop from inside, the hand-over of the eventfd from the first to the last leaver, a count left over from one listen to the next, a join that is waited for. All but the liveness is proved for any size (section 5) |
| `poller_timer` | `TimerAlive`, `OverdueAtMostADay`, `GivesUpOnlyIdle` | two threads, two connections, a timeout of two seconds and a day of one, ten seconds of clock: two walks race, a connection outlives several days, and speaks while a walk has its old limit. All is proved for any size |
| `poller_slots` | `SlotsInv` (types and the inductive invariant, with `NoneForgotten`), `ChainSound`, `CallbackExclusive`, `FreedOnlyByWorker`, `ImplementsSet` | two threads, one listen point, three connections one after the other or at once, six descriptors, refused registrations, workers that free a yielded request at any time: the number of a closed one comes back while the other thread still works on its slot. All is proved for any size |
| `request_parser` | `HandledAsSent`, `LimitsKept`, `FilesFollowRequest`, `EveryRequestAnswered` | thirty-five clients; reads of 1 to 8 symbols or all there is, so that a cut falls between any two symbols and also between several at once; sizes below, at and above the limits; content that looks like a boundary; names with and without quotes behind zero, one and two blanks, a semicolon at the end; clients that hang up anywhere. `FilesFollowRequest` is proved for any clients, cuts and sizes |
| `handlers` | `RoutedRight`, `OneAnswer`, `FreedOnce` | nine programs, every subset of listen points that bind, two requests of two clients out of sixteen: a second request meets what the first left (a session, a connection). The buffer holds three units, and answers have 0 to 5 |
| `files` | `GetsTheFile`, `EffectDone`, `AlwaysAnswered` | two threads, two of thirty-four requests, one directory in another, files of five and six blocks, buffer of two, sendfile from six, uploads on this file system and another: ranges at, within and beyond both files' ends; one more request would only repeat a pair |
| `response` | `KeepAliveDelimited`, `AnswerComplete`, `ContentInOrder`, `WriteReturns` | buffer of 3 units, headers of 2, 3 and 7 (shorter, equal, longer than two buffers), writes of 1, 2, 5 and 8 up to 9 units, sockets that break at once, in the headers, or never; GET and HEAD. All but the liveness is proved for any size |
| `sessions` | `SessionsInv` (types and the inductive invariant, with `OneDictPerSession`), `RefsExact`, `UsedWhileAlive`, `RemovedGone`, `SavedStays` | three threads, four requests, two sessions, two dictionaries, one restart, each backend; handlers remove and empty both sessions, and the first is used by several requests at once, so that it is removed, emptied, saved and replaced under another's hands. All is proved for any size |
| `dict` | `AATree`, `ValuesOwned`, `ImplementsMap` | seven keys: all trees of three levels, with every rotation of a removal; fifteen addresses, one more for each key than it needs |
| `websocket` | `HandlerGetsData`, `PingsAnswered` | three frames of 0, 1 or 3 units, pings of 1 or 2, pongs, reads of 0, 1 or 4: shorter than, equal to and longer than a frame; one piece that cannot be read. Both are proved for any size |
| `values` | `RoundTrips`, `BuffersSuffice`, `PagesAsWritten` | every text of two bytes out of 21 kinds and of three out of seven; base64 around three bytes and around one and two lines; characters at each border of UTF-8 and of the surrogates; dictionaries of two pairs, nested twice; lengths of frames around each form; two thousand templates: every pair of nested constructs |

Deadlock is checked except in `poller_slots` (all connections of the bound made and
closed), `sessions` (all requests served, or no free dictionary),
`request_parser` (the connection is closed, or its client has nothing more to send), `files` (all
requests answered) and `values` (a task is done). In `poller_stop` it is, and the one deadlock that
the code has is made a step that changes nothing (`Joined`), so that TLC finds there is no other. Symmetry is used only where all properties
are safety properties over sets of model values that the modules never compare in order.

A violation. `sessions_lookup` checks `NoUseAfterFree` of `Sessions` against a sentence of the repository: a session
removed between its lookup and the counting of the reference (`sessions_mem.c:38`) is used after it is
freed (`sessions.c:110`: "This is this way to prevent a thread removing the dict, whilst others are using it").

It is not the only sentence that the code does not keep. Each property of this table states another, and is
violated when it is checked alone, with the constants of the passing run of its module but for those named:

| property | with | what the code does | what is said |
|---|---|---|---|
| `StopReturns` of `PollerStop` | `Detachable = {TRUE}` | a detached server is joined with the mutex held, for which a handler waits (`onion.c:582`) | "After this call no listening is still open, and listen could be called again" (`onion.c:551`) |
| `AcceptedStopEndsListen` of `PollerStop` | `Detachable = {FALSE}` | a thread that enters the loop after the stop clears `p->stop`, and `onion_listen` goes on (`poller.c:510`) | the same |
| `LeavesOnlyWhenAsked` of `PollerStop` | — | a count that is left in the eventfd ends the next listen (`poller.c:618`) | "using onion_listen several times in the same program" (`onion.c:346`) |
| `NoTimeoutInHandler` of `PollerTimer` | no symmetry | the walk found the old limit just before the handler's thread lifted it, and shuts the connection (`poller.c:278`) | "no timeout when on the handler, it should handle it itself" (`poller.c:548`) |
| `NoUseAfterFree` of `PollerSlots` | — | a worker frees the request before the thread of the pool has let go of it (`request.c:597`) | "Yield thread to the poller, ensures request and response are not freed" (`longpoll.c:98`) |
| `EachServed` of `PollerSlots` | — | a connection that epoll refuses stays open and is never read (`poller.c:419`) | "When new data is available [...] the given function" is called (`poller.c:396`) |
| `ChainSound` of `PollerSlots` | `MaxListens = 2` | a second listen links the slot of the listen point just closed once more (`listen_point.c:147`) | "listen could be called again" (`onion.c:551`) |
| `HeadWriteReturns` of `Response` | — | a long write in answer to HEAD waits for room that no flush makes (`response.c:373`) | "this object will just skip those writtings" (`response.c:268`) |
| `AnswerComplete` of `Response` | `YieldsLate = FALSE` | the length is fixed at what a handler has written when it yields (`handler.c:71`) | "I will manage it in another thread" (`types.h:239`) |
| `RoutedRight` of `Handlers` | `Programs <- MCProgramsInsideSkips` | the path stays advanced when the inside of a path handler leaves the request (`handlers/path.c:55`) | "Handlers have always a next handler" (`onion.c:59`) |
| `FileNamesKept` of `RequestParser` | `Clients <- Recorded` | a file name on a line of its own keeps its quotes (`request_parser.c:581`) | the test compares it with the one sent (`08-post.c:62`) |
| `FieldsKept` of `RequestParser` | `Clients <- Lookalikes` | a field with what looks like a boundary gets other bytes (`request_parser.c:531`) | "copy as much as I wrongly thought I got" (`request_parser.c:525`) |
| `ReturnsFileContents` of `Files` | — | the page of an error follows the part of a file that `sendfile` could send (`shortcuts.c:277`) | "This shortcut returns the given file contents" (`shortcuts.c:141`) |
| `MoveMoves` of `Files` | — | MOVE renames a file to itself and answers 201 (`webdav.c:223`) | "Moves a resource" (`webdav.c:178`) |
| `RemovedForGood` of `Sessions` | — | a request that still has a removed session saves it again (`request.c:204`) | "so this session does not exist anymore" (`request.c:505`) |
| `SavedForGood` of `Sessions` | — | a request that counted no keys removes what another has saved since (`request.c:201`) | "can be freely managed [...] and this is the session data" (`request.c:443`) |
| `ReadReturnsWritten` of `Websocket` | — | a read adds the negative status of its nested read to the bytes it has (`websocket.c:295`) | "@returns number of bytes written or <0 if error." (`websocket.c:254`) |
| `PingsAnswered` of `Websocket` | `WholePings = FALSE`, `PingLengths <- LatePings` | a ping without payload, or before it, is answered with what a read returns (`websocket.c:466`) | "I do answer ping myself" (`websocket.c:463`) |

Further behaviours follow, of callers and clients that the passing runs leave out. The property
named is in the module; checked alone with the change described it is violated.

Poller, server and response:

* `PollerTimer`: a walk that is skipped because one ran in the same second arms the
  timerfd for a day (`CheckLast`), so an idle connection outlives its timeout, which is
  why `OverdueAtMostADay` promises no more.
* `PollerSlots`, two listen points: an accepted connection gets the number of a listen point just
  closed, whose slot is still chained (`ChainSound`). `onion_poller_get` walks the chain without the
  mutex, and `onion_poller_last_time` is shared by all pollers of a process: neither is modelled.
* `Response`, `HTTP10 = TRUE`: an answer without content, whose headers announced
  `Connection: Close`, is kept alive (`KeepAliveDelimited`). `Tidy = FALSE`: a length set
  again after the headers, and explicit headers behind buffered content (`SentBytesExact`).
* `Handlers`, `OwnDescriptors`: a listen point that has not listened holds the descriptor 0 of
  `calloc`. Freeing it, promoting it to HTTPS or failing to bind closes or polls that
  (`listen_point.c:144`, `onion.c:498`). After a stop it is -1; a second listen in which that
  point fails then adds a slot that is NULL. `getaddrinfo` failing with errno 0 counts as listening.
* `onion_set_certificate_va` uses the new listen point before it looks whether there is one
  (`onion.c:860`). `onion_https_request_init` is reached after a failed accept.
  `onion_response_add_cookie`: once an attribute does not fit, `sizeof(data) - pos` wraps and the next is written
  behind the buffer (`response.c:633`); `CookieOverruns` excludes these from the run.

Requests:

* `RequestParser`, clients `<<Epilogue, Query>>`: bytes behind the last boundary are taken for the next
  request (`EveryRequestAnswered`). `Pipelined = TRUE`: what is left of a piece behind a request is
  forgotten (`HandledAsSent`). Values of several lines that end in CR LF keep the first only (`Plain`). A part
  whose line ends in a semicolon keeps the parser where it is (`request_parser.c:607`), and if the empty line
  follows it waits for ever: `EveryRequestAnswered` excepts just these (`Unended`). A name that is longer than
  what the limit on POST leaves is an error. The limit on a file
  counts held back boundary characters, and is compared before the next is counted. A short write
  in `parse_PUT` is not noticed; a CR that ends a piece in front of the headers is forgotten.
* `Handlers`, with these sets for `Programs`: `MCProgramsSlash`, an internal redirection is not polished
  (`shortcuts.c:131`; `RoutedRight`); `MCProgramsHalf`, the text of an error is appended to what a handler
  had written (`OneAnswer`); `MCProgramsForbid` violates nothing, but shows that `OCS_FORBIDDEN`
  never reaches the error handler that has an answer for it (`request.c:582`). A handler replaced at the root,
  or refused with its expression by `onion_url_add`, is leaked (`leaked`); `onion_handler_path` frees what it refuses.
* `Files`: the loop that reads and writes waits for ever for the rest of a file that ends before the range does, or
  that has become shorter (`Starves`, which `AlwaysAnswered` excludes for such ranges, and for requests whose path another
  request changed). A copy to a full disk falls short and is
  answered with 201. A PROPFIND whose body cannot be parsed asks for the bits of -500. A PROPPATCH for a path that is not
  there is answered with 200. `bytes=-n` is read as `0-n`. A directory's `executable` is neither found nor missing.

Sessions, dictionaries, websockets:

* `Sessions`, in a database: removing leaves the session there, empty. For redis the branch that deletes tests the
  wrong pointer (`sessions_redis.c:121`), for sqlite an empty text is inserted; so `RemovedGone` speaks of the memory.
  Of two requests of one session the later save wins, which `SavedStays` excludes (`Disputed`). A session that could not
  be created has an id and no dictionary; a request freed with such an id leaks it; a redis
  command that returns NULL is dereferenced.
* `Dict`, `Duplicates = TRUE`: with a key added twice, removing another key frees the value of
  the wrong node and leaves the other value in two nodes (`dict.c:417`: "No double free later, please";
  `ValuesOwned`).
* `Frames`, lengths left out of the run (`RoundTrips`): a message of whole 1024-byte blocks loses the last
  (`websocket.c:238`), lengths from 65535 on are written two places too far (`websocket.c:207`), a printed message
  of 511 bytes ends in a NUL and a longer one loses its last byte. The answer's protocol header is
  misspelt; the value `onion_websocket_write` returns counts the last block only.

Values and templates, outside of the values the run takes:

* base64 of one character or none gives NULL, which the authentication handler dereferences; a text that ends in blanks, or a
  byte above 127, is read beyond its end or its table. A truncated `%4` is unquoted past the NUL. In JSON an
  unterminated string is read past the NUL (`codecs.c:627`), numbers become strings, a
  trailing comma is accepted. `onion_c_quote` writes a CR as `\n`.
* the key of the first cookie keeps blanks in front of it, a last cookie without value is dropped, and behind an
  empty one `;` starts a key. A mime type or extension longer than its buffer loses what follows it on
  the line, or in the file; two threads may fill the table at once.
* templates: a `%` inside of a tag corrupts it (`parser.c:103`); `{` at the end of a file is lost; `##}` does not end
  a comment; an `{% if %}` that is not closed compiles, an end tag too many pops the page, and crossed end tags
  are not noticed; `{% for x %}` takes the length of NULL; a comparison of a name with itself is true under every
  operator; a block or an include with blocks inside of a loop copies pointers to functions as strings; two
  included pages share the blocks of one name.

## 5. Proofs

`PollerStopProofs`, from `PoolAssumption` alone (a finite pool that contains the
listening thread, stoppers outside it): `Spec => []StopInv`, and from it
`PollersCounted`, `StopHelperExclusive`, `StopSerialised`, `WakeupNotLost` and `TypeOK`,
for every pool, any number of stoppers, listens and calls, detached or not. None of these is
inductive alone. That a wake-up is not lost needs that one thread at most is in
the eventfd's callback (else two would drain one count), which needs the one-shot
slot to be disarmed exactly then; that `StopSignal` may skip the write needs
`npollers` to be the number of threads in the loop; and that a thread's local `n`
speaks for someone needs the return points. `StopInv` is their conjunction. The
step is proved one conjunct at a time (`ControlStep`, `PollingStep`, `CountStep`,
`HelperStep`, `SerialStep`, `WakeupStep`), each over the actions.

A server that listens once (`ListensOnce`; or detached, which the model lets listen once) also
has `LeavesOnlyWhenAsked` (`LeavesOnlyWhenAskedHolds`): as long as nobody has stopped
it, nobody is on the way to, and neither `p->stop` nor the eventfd says so (`Unasked`).
With two calls of `onion_listen` it is false (section 4).

`PollerTimerProofs`, from `TimerAssumption`, for any threads, connections and lengths of
timeout and day:

* `TimerAlive`, the timerfd is always armed and within a day. It needs `NextInDay`: in every
  thread that has read the clock and has not yet armed the timerfd, `next_timeout` is later
  than the walk and within a day of it. With that, no order of the unlocked stores can disarm
  it (`timerfd_settime` with 0).
* `OverdueAtMostADay`. A walk whose time is at or after a limit shuts that slot, once it has
  the mutex (`Walking`, `Doomed`). `Armed`: while no such walk is under way, the timerfd, and
  every thread that holds its slot, is within a day of the limit; a thread that would
  arm it later has itself walked past the limit, or was told by `onion_poller_last_time` that
  another has (`Walked`). `Taken`: an expired timerfd is taken within a second. `InTime` adds the
  seconds up. `DueInv` is their conjunction, and a limit that moves starts anew
  (`LimitStep`).
* `GivesUpOnlyIdle`: a limit is `Timeout` behind the last event, or, while a thread has taken
  an event and not yet lifted it, behind the one before (`LimitBehind`). A walk compares it with a
  time that has passed, so it may give up a connection that has just spoken
  (`NoTimeoutInHandler`), but only within the second of that event, and only if the silence before it
  had been long enough.

`PollerSlotsProofs`, under `Careful`: one listen point, that listens once; with two calls `ChainSound` is
false (section 4). Handlers may yield to workers that free the request at any time, and
epoll may refuse a registration. A worker that frees a request which the thread of the pool has not let go
of ends what can be said (`overtaken`): everything holds until then, and
`FreedOnlyByWorker` says that nothing else leads to a use after free.
`Spec => []SlotsInv` for any threads, connections and table of descriptors, and from it
`ChainSound`, `CallbackExclusive`, `FreedOnlyByWorker`, `NoneForgotten`; and `Spec => ImplementsSet`,
that is, the chained slots are a set of descriptors to which one is added or from which one is
removed at a time. `SlotsInv` ties each descriptor's file, slot, link, registration
and request to the point where the thread that works on it is (`Accepting`, `Serving`); what keeps
two threads from one request is that a registration is armed only when nobody works on its
request (`Linked`), and what keeps a number that comes back from meeting its old slot is that a
closed descriptor is out of the chain already (`Files`). The chain is a recursive function over
the table; the proof replaces it by any walk with its first cells and its steps (`IsWalk`), and
shows what adding at and removing from a linked list do to the cells that a walk meets. The
induction over the length of the list is the least-number principle, taken from the
well-foundedness of the finite sets of numbers (`LeastNumber`).

`SessionsProofs`, from `SessionsAssumption` alone: `Spec => []SessionsInv` for any threads, requests, ids and
dictionaries, every backend, failures of a database and restarts, and any sessions that overlap, are removed
and are emptied; from it `RefsExact`, `UsedWhileAlive`, `OneDictPerSession`, `RemovedGone` and
`SavedStays`. All are claimed until a lookup has gone astray (`sessions_lookup`), and nothing later.
The step to that point is part of the proof: a dictionary that a request has found and not yet counted is
the one case in which a removal can free it under the request. In memory, a request has the dictionary
that is stored, or the session has been removed (`KeepsDict`); so what it saves again is what all other
requests of the session have, and what comes back after a removal was held by another request (`kept`).
The count of a dictionary is the number of its holders (`Holders`: the store, the request, the save under way), and every
action adds or removes one of these, or makes two (`CountMore`, `CountLess`, `CountTwo`, `CountSame`). A
request that will remove a session holds nothing that was saved, unless the session is `Disputed` (`Unsaved`).

`WebsocketProofs`, under `Answerable`: a ping arrives with its payload, and has one. Without either
`PingsAnswered` is false (section 4); of data frames, pongs, reads and closes nothing is supposed.
All is claimed as long as no piece of payload was read in vain (`fails = 0`): that counts `data_left` up, and the
stream may be out of step. Headers may fail at any time: what is proved is where the bytes are, not
what the read says it returned (`ReadReturnsWritten`).
`Spec => []WebsocketInv` for any number of frames and any lengths, and from it `HandlerGetsData`
and `PingsAnswered`. What arrived and what still will are whole frames (`InFrames`), the last one
cut off if the client closes its socket in it. A place p in them is where the server has read to
(`Open`): `data_left` is how far it is from p to the end of its frame (`At`), handlers have got the
data before p (`GotAll`), counting what a read under way holds, and pings in front of p are
answered (`AnsweredAll`). Only reading moves p; a read that goes past the end of a frame leaves p at a
header. That no data comes between a ping and its answer needs that the read which
answers it asks for `data_left` bytes, has nothing yet, and finds them all there (`Asking`), and
that it is the only one above a handler's (`Stacked`): it never has to go on to another header. Behind
the header of a close frame there is no such p: `data_left` no longer counts (`Shut`).

`ResponseProofs`, from `ResponseAssumption` (nothing wraps), under `Mannered`: a handler writes no headers of its
own behind content, and sets no length behind the headers that happens to be what was sent (`Tidy`); it yields only when the
headers are out (`YieldsLate`). Without either all three theorems fail; without `~HTTP10` `KeepAliveDelimited` does (section 4).
For any buffer, headers, writes, claims and sockets, GET and HEAD: `KeepAliveDelimited`,
`AnswerComplete` and `ContentInOrder`. The inductive invariant is `ResponseInv`. Before the headers
everything written waits in the buffer (`Unheaded`); behind them, and as long as the socket works, the
wire and the buffer together are the headers and the content (`Intact`), or, in chunks, the wire is whole chunks
whose reader (`ChunkReader`) has got the first `m` units and waits for a size, and the buffer is the rest (`InChunks`).
That a set length is the right one at the end needs `LengthKnown`: it was claimed by the handler, or counted when
it returned. The headers may be longer than several buffers: that sending them in blocks keeps the order is an
induction over the blocks (`Climb`), as is what a reader makes of one sequence behind another.

`RequestParserProofs`, from `NullAssumption` alone: `FilesFollowRequest`, for any clients, however what they send
is cut, and wherever they hang up. A file is named by `FILES` or already unlinked (`Linked`); at most one is open, the one
that is being received (`Receiving`), so no way out of that state may forget it; and nothing is named while headers
are read (`Nameless`), else the file of a PUT would replace another's name. `FilesInv` is their conjunction.

`FilesProofs`, from `FilesAssumption` (paths have parents, the tree is one, what clients ask is what the two
handlers take, a file is shorter than `size_t` counts): `GetsTheFile` and `EffectDone`, for any threads, tree, requests,
buffer and sizes. The inductive invariant is `FilesInv` of `Files`. What a request has been told cannot be kept
without what it knows at each place between two calls: of the file it sends (`Reads`), of the names it still has to
list (`Lists`), of the copy it makes (`Copies`), all of it as long as no other request changed its path. And that
others do not change it needs the tree to be one: no file has two names (`Rooted`), an upload is one request's and has
no name below the directory before that request is done (`Uploaded`), and what an upload is copied to has the path of that
request or no name any more (`Targeted`), so that writing to it is a change of that path. The argument is local:
a step keeps to its own path and tells those it disturbs (`Apart`), the new names and files it makes are new to the others
(`Fresh`), and then what the others know stays true (`StepInv`). So each action is looked at where it happens, as one that leaves the tree
alone (`Quiet`) or one that alters its path (`Alters`). That no more is sent than was announced is that the
loop's `tr` never passes `length`, wherever the file ends; it needs nothing of what others do, but the
page of an error behind a `sendfile` that fell short is more, and excepted (`ReturnsFileContents`). `EffectDone`
speaks of uploads, deletions, new directories, properties and listings; the 201 of a MOVE (`MoveMoves`) and the 200 of a PROPPATCH
for a path that is not there are among the answers of which it says only that nothing changed.

Model-checked only: liveness (`StopEndsListen`, `WriteReturns`,
`AlwaysAnswered`), since fairness and ENABLED are beyond the prover used; `Dict`, `Handlers`,
`Values`, `Codecs` and `Templates`, whose operators are recursive; what the request parser makes of what it reads
(`HandledAsSent`, `LimitsKept`, `EveryRequestAnswered`), which is an induction over the text.

## 6. Not modelled

The libev and libevent pollers (the loop is the library's), the records of TLS, the pointer list (it
holds the texts a request frees with itself; its removal of what is not at the head recurses for ever,
`ptr_list.c:58`, but is called from nowhere), logs and random numbers, image encoders, the
C++ bindings, `opack`, the examples but for the long poll, the allocator's wrappers (they abort when memory is out: a
failing allocation is never seen). Within modelled files: setters, getters and formatting;
address resolution; users and their rights; descriptors beyond the table of slots
(`listen_point.c:113`: such a request is leaked); the read-write lock of a dictionary and its walk in steps; the limits
on the length of a token; the clock of the Date header; symbolic links and the containment of
exported paths; PAM's conversation; the line numbers a template may keep; websocket frames within a
blocking handler and the user's data of a websocket.

## 7. Plan

Done: the poller in three modules, with proofs; requests from the first byte to the answer
(`RequestParser`, `Handlers` over `Server`, `Files`, `Response`), with proofs for temporary files, served directories and responses; sessions with all their backends, with proofs; dictionaries; websockets
in both directions, with proofs for the frames that come in; values, codecs and templates.

Next proofs: what `Dict` and `Handlers` keep, with their recursion written as folds or functions.

Next models: the walk of a dictionary in steps under its lock, for the session store; descriptors beyond the
table of slots.
