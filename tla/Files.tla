-------------------------------- MODULE Files --------------------------------
(***************************************************************************)
(* The handlers that serve a directory: onion_handler_export_local and     *)
(* onion_handler_webdav, with onion_shortcut_response_file and             *)
(* onion_shortcut_rename under them.  Several threads of the pool run them *)
(* at once and meet in the file system, so a request is one step for each  *)
(* system call it makes.                                                   *)
(*                                                                         *)
(* A name maps to an inode; an open file stays its inode whatever becomes  *)
(* of the name.  Lengths are counted in blocks, and a block is named after *)
(* the upload it came from.                                                *)
(***************************************************************************)
EXTENDS Integers, Sequences, SequencesExt, FiniteSets

CONSTANTS
  Threads,
  Paths,         \* names below the exported directory, as sequences; <<>> is itself
  Tree,          \* what is there at first: for some of the Paths [dir, size]
  Requests,      \* what clients ask for
  MaxRequests,   \* bound: how many requests are handled
  Buffer,        \* sizeof(tmp), in blocks
  SendfileFrom,  \* from this length on sendfile is used
  ErrorText,     \* what onion_default_error writes, in blocks: headers and a message
  Missing

W == 16          \* size_t counts modulo this

Block == Nat \X Nat    \* the upload it came from, and its place there
Inode == [dir : BOOLEAN, exec : BOOLEAN, blocks : Seq(Block)]
NoRequest == [via |-> "none", method |-> "none", path |-> <<>>]
\* What clients may ask: an exported directory is read, a shared one is changed as well.
IsRequest(r) ==
  /\ r.path \in Paths
  /\ \/ r.via = "export" /\ r.method \in {"GET", "HEAD"}
     \/ r.via = "webdav" /\ r.method \in {"GET", "HEAD", "OPTIONS", "COPY", "PUT", "DELETE", "MKCOL", "MOVE",
                                          "PROPFIND", "PROPPATCH"}
  /\ r.method \in {"GET", "HEAD"} =>
       /\ r.cached \in BOOLEAN
       /\ r.range # Missing => {r.range.start, r.range.end} \subseteq Nat \union {Missing}
  /\ r.method = "PUT" => r.size \in 0..W-1
  /\ r.method = "PROPFIND" => r.depth \in Nat \union {Missing}
  /\ r.method = "PROPPATCH" => r.executable \in BOOLEAN \union {Missing}
ASSUME FilesAssumption ==
  /\ {Buffer, ErrorText} \subseteq Nat \ {0} /\ MaxRequests \in Nat
  /\ Missing \notin Nat /\ Missing \notin Inode /\ Missing \notin BOOLEAN
  /\ \A p \in Paths : p \in Seq(ToSet(p)) /\ (p # <<>> => Front(p) \in Paths)
  /\ IsFiniteSet(DOMAIN Tree) /\ DOMAIN Tree \subseteq Paths
  /\ \A p \in DOMAIN Tree :
       /\ Tree[p].dir \in BOOLEAN /\ Tree[p].size \in 0..W-1
       /\ p # <<>> => Front(p) \in DOMAIN Tree /\ Tree[Front(p)].dir
  /\ \A r \in Requests : IsRequest(r)

VARIABLES
  fs,         \* the inode of each path, or Missing
  inodes,     \* all inodes there were: [dir, blocks, exec]
  otherDevice,\* uploads are made on another file system: rename says EXDEV
  pc, req, op, answer,  \* per thread: where it is, its request, its locals, its answer
  left,       \* requests that may still come
  before,     \* history, per thread: what its path held when the request came
  disturbed,  \* history, per thread: another request changed something on its path
  shortened   \* history: a write to a full disk wrote less than it was given

vars == <<fs, inodes, otherDevice, pc, req, op, answer, left, before, disturbed, shortened>>

NoOp == [fds |-> {}, file |-> Missing, dest |-> Missing, from |-> 0, length |-> 0, tr |-> 0,
         pending |-> {}, mode |-> Missing]
NoAnswer == [code |-> 0, length |-> 0, body |-> <<>>, listed |-> {}, broken |-> FALSE, failed |-> FALSE]

Parent(p) == Front(p)
Children(p) == {q \in Paths : q # <<>> /\ Parent(q) = p /\ fs[q] # Missing}
There(p) == fs[p] # Missing
IsDir(p) == There(p) /\ inodes[fs[p]].dir
Lower(a, b) == IF a < b THEN a ELSE b
\* Of the blocks of an inode, n from position i on
Blocks(ino, i, n) == SubSeq(inodes[ino].blocks, i + 1, Lower(i + n, Len(inodes[ino].blocks)))

\* A step of thread t that stays on its request
Goes(t, next) == pc' = [pc EXCEPT ![t] = next] /\ UNCHANGED <<req, left, before, otherDevice>>
Keep == UNCHANGED <<fs, inodes, disturbed, shortened>>
\* The request is answered.
Answers(t, a) == Goes(t, "done") /\ answer' = [answer EXCEPT ![t] = a]
Code(c) == [NoAnswer EXCEPT !.code = c]
\* The requests of the other threads that see a change of path p
Touches(t, p) ==
  disturbed' = [u \in Threads |-> disturbed[u] \/ (u # t /\ pc[u] # "idle" /\ (IsPrefix(p, req[u].path) \/ IsPrefix(req[u].path, p)))]
-----------------------------------------------------------------------------
(* A request comes, and is over.                                           *)

\* An upload is in its temporary file when the handler is called.
Arrive(t) ==
  /\ pc[t] = "idle" /\ left > 0 /\ left' = left - 1
  /\ \E r \in Requests :
       /\ req' = [req EXCEPT ![t] = r]
       /\ pc' = [pc EXCEPT ![t] = IF r.via = "export" THEN "export" ELSE "webdav"]
       /\ inodes' = IF r.method = "PUT"
                      THEN Append(inodes, [dir |-> FALSE, exec |-> FALSE,
                                           blocks |-> [i \in 1..r.size |-> <<Len(inodes) + 1, i>>]])
                      ELSE inodes
       /\ op' = [op EXCEPT ![t] = [NoOp EXCEPT !.file = IF r.method = "PUT" THEN Len(inodes) + 1 ELSE Missing]]
       /\ before' = [before EXCEPT ![t] = IF fs[r.path] = Missing THEN Missing ELSE inodes[fs[r.path]]]
  /\ UNCHANGED <<fs, otherDevice, answer, disturbed, shortened>>
Leave(t) ==
  /\ pc[t] = "done" /\ pc' = [pc EXCEPT ![t] = "idle"]
  /\ req' = [req EXCEPT ![t] = NoRequest]
  /\ op' = [op EXCEPT ![t] = [NoOp EXCEPT !.fds = op[t].fds]]
  /\ answer' = [answer EXCEPT ![t] = NoAnswer] /\ before' = [before EXCEPT ![t] = Missing]
  /\ disturbed' = [disturbed EXCEPT ![t] = FALSE]
  /\ UNCHANGED <<fs, inodes, otherDevice, left, shortened>>
-----------------------------------------------------------------------------
(* onion_handler_export_local_handler                                      *)

\* What is not there, or is neither directory nor file, is for the next handler: 404 in the end.
Export(t) ==
  /\ pc[t] = "export"
  /\ IF ~There(req[t].path) THEN Answers(t, Code(404))
       ELSE Goes(t, IF IsDir(req[t].path) THEN "opendir" ELSE "open") /\ UNCHANGED answer
  /\ UNCHANGED op /\ Keep

\* onion_webdav_default_check_permissions: the path has to be there, or the directory it is to be in.
Permitted(p) == There(p) \/ There(Parent(p))
\* onion_webdav_options: the same for every path
Options == Code(200)
Check(t) ==
  /\ pc[t] = "webdav"
  /\ LET r == req[t]
         permitted == Permitted(r.path)
     IN CASE ~permitted -> Answers(t, Code(403))
          [] permitted /\ r.method \in {"GET", "HEAD"} -> Goes(t, "open") /\ UNCHANGED answer
          [] permitted /\ r.method = "OPTIONS" -> Answers(t, Options)
          [] permitted /\ r.method = "COPY" -> Answers(t, Code(501))
          [] OTHER -> Goes(t, r.method) /\ UNCHANGED answer
  /\ UNCHANGED op /\ Keep
-----------------------------------------------------------------------------
(* onion_shortcut_response_file                                            *)

Open(t) ==
  /\ pc[t] = "open"
  /\ IF There(req[t].path)
       THEN /\ op' = [op EXCEPT ![t].file = fs[req[t].path], ![t].fds = {"file"}]
            /\ Goes(t, "stat") /\ UNCHANGED answer
       ELSE Answers(t, Code(404)) /\ UNCHANGED op
  /\ Keep

\* A bug: whether there is such a range is not looked at.
SliceUnchecked(size, range) ==
  LET ends == IF range.end = Missing THEN (size - 1) % W ELSE range.end
  IN [ok |-> TRUE, from |-> range.start, length |-> (ends - range.start + 1) % W]
\* What to send of a file of this size: the range asked for, as size_t computes it
Slice(size, range) ==
  LET ends == IF range.end = Missing THEN (size - 1) % W ELSE range.end
  IN [ok |-> range.start <= ends /\ range.start <= size, from |-> range.start,
      length |-> (ends - range.start + 1) % W]
Whole(size) == [ok |-> TRUE, from |-> 0, length |-> size]
\* stat asks for the name once more, and the headers are made from what it says.
Stat(t) ==
  /\ pc[t] = "stat"
  /\ LET r == req[t]
         size == Len(inodes[fs[r.path]].blocks)
         part == IF r.range = Missing \/ r.range.start = Missing THEN Whole(size) ELSE Slice(size, r.range)
         code == IF r.range = Missing THEN 200 ELSE 206
         closed == [op EXCEPT ![t].fds = {}]
     IN CASE ~There(r.path) \/ IsDir(r.path) -> Answers(t, Code(404)) /\ op' = closed
          [] There(r.path) /\ ~IsDir(r.path) /\ ~part.ok -> Answers(t, Code(416)) /\ op' = closed
          [] There(r.path) /\ ~IsDir(r.path) /\ part.ok /\ r.cached -> Answers(t, Code(304)) /\ op' = closed
          [] OTHER ->
               /\ LET sends == IF r.method = "HEAD" THEN 0 ELSE part.length
                  IN /\ op' = [op EXCEPT ![t].from = part.from, ![t].length = sends]
                     /\ Goes(t, IF sends = 0 THEN "close" ELSE IF size >= SendfileFrom THEN "sendfile" ELSE "loop")
               /\ answer' = [answer EXCEPT ![t] = [NoAnswer EXCEPT !.code = code, !.length = part.length]]
  /\ Keep

Sends(t, blocks) ==
  /\ op' = [op EXCEPT ![t].tr = @ + Len(blocks)]
  /\ answer' = [answer EXCEPT ![t].body = @ \o blocks]
More(t) == op[t].length > Buffer /\ op[t].tr < op[t].length - Buffer
\* Full buffers, as long as more than one of them is to come: at the end of the
\* file nothing is read, nothing written, and the loop goes on.
Loop(t) ==
  /\ pc[t] = "loop" /\ More(t)
  /\ Sends(t, Blocks(op[t].file, op[t].from + op[t].tr, Buffer))
  /\ Goes(t, "loop") /\ Keep
Piece(t) == IF More(t) THEN Buffer ELSE op[t].length - op[t].tr
\* onion_response_write writes less: the client has gone.  What is read after that, too, goes nowhere.
LoopBroken(t) ==
  /\ pc[t] = "loop"
  /\ LET blocks == Blocks(op[t].file, op[t].from + op[t].tr, Piece(t))
     IN blocks # <<>> /\ op' = [op EXCEPT ![t].tr = @ + Len(blocks)]
  /\ answer' = [answer EXCEPT ![t].broken = TRUE]
  /\ Goes(t, "close") /\ Keep
\* A bug: a last piece as large as the buffer is not sent.
LoopLastSmall(t) ==
  /\ pc[t] = "loop" /\ ~More(t)
  /\ IF Buffer > op[t].length - op[t].tr
       THEN Sends(t, Blocks(op[t].file, op[t].from + op[t].tr, op[t].length - op[t].tr))
       ELSE UNCHANGED <<op, answer>>
  /\ Goes(t, "close") /\ Keep
LoopLast(t) ==
  /\ pc[t] = "loop" /\ ~More(t)
  /\ IF Buffer >= op[t].length - op[t].tr
       THEN Sends(t, Blocks(op[t].file, op[t].from + op[t].tr, op[t].length - op[t].tr))
       ELSE UNCHANGED <<op, answer>>
  /\ Goes(t, "close") /\ Keep
\* What onion_default_error writes: the name of no file
ErrorPage == [i \in 1..ErrorText |-> <<0, i>>]
\* One call for everything.  When the file has less, it is an internal error, and
\* onion_request_process has its page written behind what was sent.
Sendfile(t) ==
  /\ pc[t] = "sendfile"
  /\ LET blocks == Blocks(op[t].file, op[t].from, op[t].length)
         short == Len(blocks) # op[t].length
     IN answer' = [answer EXCEPT ![t].body = IF short THEN blocks \o ErrorPage ELSE blocks, ![t].failed = short]
  /\ Goes(t, "close") /\ UNCHANGED op /\ Keep
\* It sends less because the client has gone: nobody reads the page of the error.
SendfileBroken(t) ==
  /\ pc[t] = "sendfile"
  /\ LET blocks == Blocks(op[t].file, op[t].from, op[t].length)
     IN \E n \in 0..Len(blocks) : answer' = [answer EXCEPT ![t].body = SubSeq(blocks, 1, n), ![t].broken = TRUE]
  /\ Goes(t, "close") /\ UNCHANGED op /\ Keep
Close(t) ==
  /\ pc[t] = "close"
  /\ op' = [op EXCEPT ![t].fds = {}]
  /\ Answers(t, answer[t]) /\ Keep
-----------------------------------------------------------------------------
(* Directories: the page of export_local, the multistatus of a PROPFIND    *)

\* onion_webdav_parse_propfind: what it cannot parse is a mask, too, the bits of OCS_INTERNAL_ERROR.
KnownProps == {"resourcetype", "getcontentlength", "getlastmodified", "creationdate", "getetag", "getcontenttype",
               "displayname", "executable"}
Asked(r) == IF r.props = Missing THEN {"getlastmodified", "creationdate"} ELSE r.props \intersect KnownProps
\* onion_webdav_write_props: what is said of a resource, and what is said not to be found
OnlyFiles == {"getcontentlength", "executable"}
Props(path, dir, asked) ==
  [path |-> path, dir |-> dir,
   found |-> asked \ ({"displayname"} \union (IF dir THEN OnlyFiles ELSE {"getcontenttype"})),
   missing |-> asked \intersect ({"displayname"} \union (IF dir THEN {"getcontentlength"} ELSE {"getcontenttype"}))]
Line(t, p, dir) == IF req[t].via = "export" THEN [path |-> p, dir |-> dir] ELSE Props(p, dir, Asked(req[t]))

\* onion_webdav_propfind: a depth there is, and not "infinity"; then the path itself.
Propfind(t) ==
  /\ pc[t] = "PROPFIND"
  /\ CASE req[t].depth = Missing -> Answers(t, Code(500))
       [] req[t].depth # Missing /\ ~There(req[t].path) ->
            Goes(t, "opendir") /\ answer' = [answer EXCEPT ![t] = Code(404)]
       [] OTHER -> /\ Goes(t, IF req[t].depth > 0 THEN "opendir" ELSE "listed")
                   /\ answer' = [answer EXCEPT ![t] = [Code(207) EXCEPT !.listed = {Line(t, req[t].path, IsDir(req[t].path))}]]
  /\ UNCHANGED op /\ Keep
\* Without a directory the page is left to the next handler, the multistatus has no children.
Opendir(t) ==
  /\ pc[t] = "opendir"
  /\ IF IsDir(req[t].path)
       THEN /\ op' = [op EXCEPT ![t].pending = Children(req[t].path), ![t].fds = {"dir"}]
            /\ answer' = IF req[t].via = "export" THEN [answer EXCEPT ![t] = Code(200)] ELSE answer
            /\ Goes(t, "readdir")
       ELSE /\ UNCHANGED op
            /\ IF req[t].via = "export" THEN Answers(t, Code(404)) ELSE Goes(t, "listed") /\ UNCHANGED answer
  /\ Keep
\* The page has a line for every name, webdav only for what stat still finds; what the page
\* says of a name that has gone is left over from another one.
Readdir(t) ==
  /\ pc[t] = "readdir"
  /\ \E p \in op[t].pending :
       /\ op' = [op EXCEPT ![t].pending = @ \ {p}]
       /\ \/ There(p) /\ answer' = [answer EXCEPT ![t].listed = @ \union {Line(t, p, IsDir(p))}]
          \/ ~There(p) /\ req[t].via = "export" /\ \E d \in BOOLEAN : answer' = [answer EXCEPT ![t].listed = @ \union {Line(t, p, d)}]
          \/ ~There(p) /\ req[t].via = "webdav" /\ UNCHANGED answer
  /\ Goes(t, "readdir") /\ Keep
Closedir(t) ==
  /\ pc[t] = "readdir" /\ op[t].pending = {}
  /\ op' = [op EXCEPT ![t].fds = {}] /\ Goes(t, "listed") /\ UNCHANGED answer /\ Keep
Listed(t) == pc[t] = "listed" /\ Answers(t, answer[t]) /\ UNCHANGED op /\ Keep
-----------------------------------------------------------------------------
(* What changes the tree                                                   *)

Changes(t, p, ino) == fs' = [fs EXCEPT ![p] = ino] /\ Touches(t, p) /\ UNCHANGED <<inodes, shortened>>

\* remove(): a directory only when it is empty
Delete(t) ==
  /\ pc[t] = "DELETE"
  /\ LET p == req[t].path
     IN IF There(p) /\ Children(p) = {} THEN Changes(t, p, Missing) /\ Answers(t, Code(200))
        ELSE Keep /\ Answers(t, Code(500))
  /\ UNCHANGED op
Mkcol(t) ==
  /\ pc[t] = "MKCOL"
  /\ LET p == req[t].path
     IN IF ~There(p) /\ IsDir(Parent(p))
          THEN /\ inodes' = Append(inodes, [dir |-> TRUE, exec |-> TRUE, blocks |-> <<>>])
               /\ fs' = [fs EXCEPT ![p] = Len(inodes) + 1] /\ Touches(t, p) /\ UNCHANGED shortened
               /\ Answers(t, Code(201))
          ELSE Keep /\ Answers(t, Code(403))
  /\ UNCHANGED op
\* The file is renamed to filename, which is made of the path of the request as orig is;
\* the Destination is only looked at.
Move(t) ==
  /\ pc[t] = "MOVE"
  /\ Answers(t, CASE req[t].dest = Missing -> Code(500)
                  [] req[t].dest # Missing /\ req[t].dest = "outside" -> Code(403)
                  [] OTHER -> Code(IF There(req[t].path) THEN 201 ELSE 403))
  /\ UNCHANGED op /\ Keep
\* onion_webdav_proppatch: the mode is read, then written with the new bit.
PatchStat(t) ==
  /\ pc[t] = "PROPPATCH"
  /\ IF req[t].executable = Missing THEN Answers(t, Code(500)) /\ UNCHANGED op
       ELSE /\ op' = [op EXCEPT ![t].mode = req[t].executable]
            /\ Goes(t, "chmod") /\ UNCHANGED answer
  /\ Keep
PatchChmod(t) ==
  /\ pc[t] = "chmod"
  /\ IF There(req[t].path)
       THEN /\ inodes' = [inodes EXCEPT ![fs[req[t].path]].exec = op[t].mode]
            /\ Touches(t, req[t].path) /\ UNCHANGED <<fs, shortened>>
       ELSE Keep
  /\ Answers(t, Code(200)) /\ UNCHANGED op
-----------------------------------------------------------------------------
(* onion_webdav_put: onion_shortcut_rename of the temporary file           *)

Put(t) ==
  /\ pc[t] = "PUT"
  /\ LET p == req[t].path
         renames == ~otherDevice /\ ~IsDir(p) /\ IsDir(Parent(p))
     IN CASE renames -> Changes(t, p, op[t].file) /\ Answers(t, Code(201))
          [] otherDevice /\ IsDir(Parent(p)) -> Keep /\ Goes(t, "create") /\ UNCHANGED answer
          [] OTHER -> Keep /\ Answers(t, Code(403))
  /\ UNCHANGED op
\* EXDEV: both are opened, the new one emptied; without it the temporary file is gone all the same.
PutCreate(t) ==
  /\ pc[t] = "create"
  /\ LET p == req[t].path
     IN CASE IsDir(p) \/ ~IsDir(Parent(p)) -> Keep /\ Answers(t, Code(403)) /\ UNCHANGED op
          [] IsDir(Parent(p)) /\ There(p) /\ ~IsDir(p) ->
               /\ inodes' = [inodes EXCEPT ![fs[p]].blocks = <<>>]
               /\ op' = [op EXCEPT ![t].dest = fs[p], ![t].fds = {"orig", "dest"}]
               /\ Touches(t, p) /\ Goes(t, "copy") /\ UNCHANGED <<fs, answer, shortened>>
          [] OTHER ->
               /\ inodes' = Append(inodes, [dir |-> FALSE, exec |-> FALSE, blocks |-> <<>>])
               /\ fs' = [fs EXCEPT ![p] = Len(inodes) + 1]
               /\ op' = [op EXCEPT ![t].dest = Len(inodes) + 1, ![t].fds = {"orig", "dest"}]
               /\ Touches(t, p) /\ Goes(t, "copy") /\ UNCHANGED <<answer, shortened>>
\* A bug: the loop is left after one buffer.
CopiedOnce(t) == op[t].tr > 0 \/ inodes[op[t].file].blocks = <<>>
\* read() says there is no more.
Copied(t) == Blocks(op[t].file, op[t].tr, Buffer) = <<>>
\* Written at the place this descriptor has reached
Written(old, at, blocks) ==
  [i \in 1..(IF Len(old) > at + Len(blocks) THEN Len(old) ELSE at + Len(blocks)) |->
    IF i > at /\ i <= at + Len(blocks) THEN blocks[i - at] ELSE IF i <= Len(old) THEN old[i] ELSE <<0, 0>>]
PutCopy(t) ==
  /\ pc[t] = "copy" /\ ~Copied(t)
  /\ LET blocks == Blocks(op[t].file, op[t].tr, Buffer)
     IN /\ \E n \in 1..Len(blocks) :
             /\ inodes' = [inodes EXCEPT ![op[t].dest].blocks = Written(@, op[t].from, SubSeq(blocks, 1, n))]
             /\ op' = [op EXCEPT ![t].tr = @ + Len(blocks), ![t].from = @ + n]
             /\ shortened' = (shortened \/ n < Len(blocks))
  /\ Touches(t, req[t].path) /\ Goes(t, "copy") /\ UNCHANGED <<fs, answer>>
\* The disk is full: the loop ends, both are closed, the temporary file is removed.
PutFails(t) ==
  /\ pc[t] = "copy" /\ ~Copied(t)
  /\ op' = [op EXCEPT ![t].fds = {}] /\ Keep /\ Answers(t, Code(403))
PutEnd(t) ==
  /\ pc[t] = "copy" /\ Copied(t)
  /\ op' = [op EXCEPT ![t].fds = {}] /\ Keep /\ Answers(t, Code(201))
-----------------------------------------------------------------------------
At(i) == SetToSeq(DOMAIN Tree)[i]
Init ==
  /\ inodes = [i \in 1..Cardinality(DOMAIN Tree) |->
                 [dir |-> Tree[At(i)].dir, exec |-> Tree[At(i)].dir,
                  blocks |-> [b \in 1..Tree[At(i)].size |-> <<i, b>>]]]
  /\ fs = [p \in Paths |-> IF p \in DOMAIN Tree THEN CHOOSE i \in 1..Cardinality(DOMAIN Tree) : At(i) = p ELSE Missing]
  /\ otherDevice \in BOOLEAN
  /\ pc = [t \in Threads |-> "idle"]
  /\ req = [t \in Threads |-> NoRequest]
  /\ op = [t \in Threads |-> NoOp] /\ answer = [t \in Threads |-> NoAnswer]
  /\ left = MaxRequests /\ before = [t \in Threads |-> Missing]
  /\ disturbed = [t \in Threads |-> FALSE] /\ shortened = FALSE

Handle(t) ==
  \/ Export(t) \/ Check(t) \/ Open(t) \/ Stat(t) \/ Loop(t) \/ LoopLast(t) \/ Sendfile(t) \/ Close(t)
  \/ Propfind(t) \/ Opendir(t) \/ Readdir(t) \/ Closedir(t) \/ Listed(t)
  \/ Delete(t) \/ Mkcol(t) \/ Move(t) \/ PatchStat(t) \/ PatchChmod(t)
  \/ Put(t) \/ PutCreate(t) \/ PutCopy(t) \/ PutEnd(t)
Next == \E t \in Threads : Handle(t) \/ Arrive(t) \/ Leave(t) \/ LoopBroken(t) \/ SendfileBroken(t) \/ PutFails(t)
Spec == Init /\ [][Next]_vars
FairSpec == Spec /\ \A t \in Threads : WF_vars(Handle(t))
-----------------------------------------------------------------------------
TypeOK ==
  /\ \A p \in Paths : There(p) => fs[p] \in DOMAIN inodes /\ (p # <<>> => IsDir(Parent(p)))
  /\ \A t \in Threads : op[t].tr <= op[t].length \/ req[t].method = "PUT"
  /\ \A t \in Threads : pc[t] = "idle" => answer[t] = NoAnswer /\ before[t] = Missing

Done(t) == pc[t] = "done"
Alone(t) == Done(t) /\ ~disturbed[t]
Holds(p) == IF There(p) THEN inodes[fs[p]] ELSE Missing
IsGet(t) == req[t].method \in {"GET", "HEAD"}
\* A range that is not within the file is announced as if it were.
WithinFile(size, range) ==
  range = Missing \/ range.start = Missing \/ (range.end = Missing /\ size > 0) \/ (range.end # Missing /\ range.end < size)
\* The first and the last block of the range, counted from 1
First(t) == LET range == req[t].range IN IF range = Missing \/ range.start = Missing THEN 1 ELSE range.start + 1
Final(t) == LET range == req[t].range
            IN IF range = Missing \/ range.start = Missing \/ range.end = Missing THEN Len(before[t].blocks) ELSE range.end + 1
\* A file that nobody changed is sent as it is, the range that was asked for and nothing else,
\* unless the client goes; and however it changes meanwhile, no more than Content-Length is sent,
\* so that the next response on the connection starts where it should, unless sendfile finds less
\* than stat had said (onion_shortcut_response_file).
GetsTheFile ==
  TypeOK /\ \A t \in Threads : Done(t) /\ IsGet(t) =>
    LET a == answer[t]
        file == before[t]
    IN /\ a.failed \/ Len(a.body) <= a.length
       /\ Alone(t) /\ a.code \in {200, 206} /\ req[t].method = "GET" /\ ~a.broken /\ file # Missing
            /\ ~file.dir /\ WithinFile(Len(file.blocks), req[t].range) =>
              a.body = SubSeq(file.blocks, First(t), Final(t)) /\ a.length = Len(a.body)
       /\ Alone(t) => (a.code \in {403, 404}) = (file = Missing \/ (file.dir /\ req[t].via = "webdav"))

\* onion_shortcut_response_file: "This shortcut returns the given file contents", and nothing
\* else: the page of an error is not among them.
ReturnsFileContents ==
  \A t \in Threads : Done(t) /\ IsGet(t) /\ answer[t].code \in {200, 206} =>
    ToSet(answer[t].body) \intersect ToSet(ErrorPage) = {}

\* Whatever fails, a request gives back the descriptors it opened.
DescriptorsClosed == \A t \in Threads : pc[t] \in {"done", "idle"} => op[t].fds = {}

\* The lines of a multistatus are those of the path and, unless the depth is 0, of what is in it;
\* what is asked for is found or is said to be missing, and not both.  The page has a line for each name.
Multistatus(t) ==
  LET p == req[t].path
  IN /\ {<<l.path, l.dir>> : l \in answer[t].listed} =
          {<<q, IsDir(q)>> : q \in {p} \union (IF req[t].depth > 0 THEN Children(p) ELSE {})}
     /\ \A l \in answer[t].listed :
          /\ l.found \intersect l.missing = {}
          /\ l.found \union l.missing = Asked(req[t]) \ (IF l.dir THEN {"executable"} ELSE {})
Page(t) == answer[t].listed = {[path |-> q, dir |-> IsDir(q)] : q \in Children(req[t].path)}
Effect(t) ==
  LET p == req[t].path
      ok == answer[t].code < 300
  IN CASE req[t].method = "PUT" /\ ok -> shortened \/ (There(p) /\ Holds(p).blocks = inodes[op[t].file].blocks)
       [] req[t].method = "DELETE" /\ ok -> ~There(p) /\ before[t] # Missing
       [] req[t].method = "MKCOL" /\ ok -> IsDir(p) /\ before[t] = Missing
       [] req[t].method = "PROPPATCH" /\ ok /\ before[t] # Missing ->
            There(p) /\ Holds(p) = [before[t] EXCEPT !.exec = req[t].executable]
       [] req[t].method = "PROPFIND" /\ ok -> Multistatus(t)
       [] req[t].method = "GET" /\ req[t].via = "export" /\ IsDir(p) -> Page(t)
       [] OTHER -> (req[t].method = "PUT" /\ otherDevice) \/ Holds(p) = before[t]
\* What an answer says of an upload, a deletion, a new directory, a listing or a property that is
\* set is so of the tree, as long as no other request changed the same path meanwhile and no write
\* fell short; all else changes nothing, unless a copy from another file system failed half way
\* (onion_webdav_handler, onion_shortcut_rename): a refusal, and the 201 of a MOVE and the 200 of a
\* PROPPATCH for a path that is not there, which say more than they do.  No descriptor is left open.
EffectDone == DescriptorsClosed /\ \A t \in Threads : Alone(t) => Effect(t)

\* onion_webdav_move: "Moves a resource".  When it answers that it did, the resource has gone
\* from where it was.
MoveMoves ==
  \A t \in Threads : Alone(t) /\ req[t].method = "MOVE" /\ answer[t].code = 201 => ~There(req[t].path)

\* The loop of onion_shortcut_response_file is where its file ends, and has more to send.
Starves(t) == pc[t] = "loop" /\ More(t) /\ op[t].from + op[t].tr >= Len(inodes[op[t].file].blocks)
\* Every request is answered, whatever the others do meanwhile, except one that reads a file for
\* ever: and that can only be when it is shorter than it was, or than the range asked for.
AlwaysAnswered ==
  \A t \in Threads :
    pc[t] # "idle" ~>
      (pc[t] = "done" \/ (Starves(t) /\ (disturbed[t] \/ ~WithinFile(Len(before[t].blocks), req[t].range))))
-----------------------------------------------------------------------------
(* Why these hold *)

Sending == {"stat", "loop", "sendfile", "close"}
Listing == {"opendir", "readdir", "listed"}
Calls == {"DELETE", "MKCOL", "MOVE", "PROPFIND", "PROPPATCH", "PUT"}
Places == {"idle", "export", "webdav", "open", "chmod", "create", "copy", "done"} \union Sending \union Listing \union Calls
Ops ==
  [fds : SUBSET {"file", "dir", "orig", "dest"}, file : Nat \union {Missing}, dest : Nat \union {Missing},
   from : Nat, length : Nat, tr : Nat, pending : SUBSET Paths, mode : BOOLEAN \union {Missing}]
Lines ==
  [path : Paths, dir : BOOLEAN]
  \union [path : Paths, dir : BOOLEAN, found : SUBSET KnownProps, missing : SUBSET KnownProps]
AnAnswer ==
  [code : Nat, length : Nat, body : Seq(Block), listed : SUBSET Lines, broken : BOOLEAN, failed : BOOLEAN]
Types ==
  /\ inodes \in Seq(Inode) /\ fs \in [Paths -> DOMAIN inodes \union {Missing}]
  /\ \A i \in DOMAIN inodes : Len(inodes[i].blocks) < W
  /\ {otherDevice, shortened} \subseteq BOOLEAN /\ left \in Nat
  /\ pc \in [Threads -> Places]
  /\ req \in [Threads -> Requests \union {NoRequest}] /\ op \in [Threads -> Ops]
  /\ answer \in [Threads -> AnAnswer] /\ before \in [Threads -> Inode \union {Missing}]
  /\ disturbed \in [Threads -> BOOLEAN]

\* The tree is one: no file has two names, and what has a name is in a directory.
Rooted ==
  /\ \A p, q \in Paths : There(p) /\ fs[p] = fs[q] => p = q
  /\ \A p \in Paths : There(p) /\ p # <<>> => IsDir(Parent(p))
\* A temporary file is one request's, and has no name below the directory before that request is
\* done; and none when it is copied.
Uploaded(t) ==
  req[t].method = "PUT" =>
    /\ op[t].file \in DOMAIN inodes /\ ~inodes[op[t].file].dir
    /\ \A p \in Paths : fs[p] = op[t].file => p = req[t].path /\ pc[t] = "done" /\ ~otherDevice
    /\ \A u \in Threads : op[u].dest # op[t].file
    /\ \A u \in Threads \ {t} : req[u].method = "PUT" => op[u].file # op[t].file
\* What an upload is copied to has its path, or no name any more.
Targeted(t) ==
  op[t].dest # Missing =>
    /\ op[t].dest \in DOMAIN inodes /\ ~inodes[op[t].dest].dir
    /\ \A p \in Paths : fs[p] = op[t].dest => p = req[t].path

\* Where a request is, and what it holds there, whatever others do
Placed(t) ==
  /\ pc[t] = "idle" => req[t] = NoRequest /\ before[t] = Missing /\ op[t].dest = Missing
  /\ pc[t] # "idle" => req[t] \in Requests
  /\ pc[t] = "export" => req[t].via = "export"
  /\ pc[t] = "webdav" => req[t].via = "webdav"
  /\ pc[t] \in {"open"} \union Sending => IsGet(t)
  /\ pc[t] \in Listing => req[t].via = "export" \/ req[t].method = "PROPFIND"
  /\ pc[t] \in Calls => req[t].method = pc[t]
  /\ pc[t] = "chmod" => req[t].method = "PROPPATCH" /\ op[t].mode \in BOOLEAN /\ op[t].mode = req[t].executable
  /\ pc[t] \in {"create", "copy"} => req[t].method = "PUT" /\ otherDevice
  /\ op[t].fds # {} => pc[t] \in Sending \union {"readdir", "copy"}
  /\ pc[t] \in {"idle", "export", "webdav", "open", "stat", "chmod", "create", "copy"} \union Calls => answer[t] = NoAnswer
  /\ pc[t] \in {"export", "webdav", "open", "stat", "create"} \union Calls => op[t].tr = 0 /\ op[t].from = 0
Sent(t) ==
  /\ answer[t].failed \/ Len(answer[t].body) <= answer[t].length
  /\ req[t].method # "PUT" => op[t].tr <= op[t].length
  /\ pc[t] \in {"loop", "sendfile"} =>
       req[t].method = "GET" /\ op[t].length = answer[t].length
  /\ pc[t] \in {"stat", "loop", "sendfile"} => op[t].file \in DOMAIN inodes
  /\ pc[t] = "loop" => op[t].tr = Len(answer[t].body)
  /\ pc[t] = "copy" => /\ op[t].dest # Missing
                       /\ op[t].from <= op[t].tr /\ op[t].tr <= Len(inodes[op[t].file].blocks)

\* And what it knows of its path, as long as no other request has changed it
File(t) == before[t] # Missing /\ ~before[t].dir
Within(t) == WithinFile(Len(before[t].blocks), req[t].range)
Reads(t) ==
  /\ pc[t] = "open" /\ req[t].via = "export" => File(t)
  /\ pc[t] = "stat" => /\ There(req[t].path) /\ op[t].file = fs[req[t].path]
                       /\ req[t].via = "export" => File(t)
  /\ pc[t] \in {"loop", "sendfile", "close"} => File(t) /\ answer[t].code \in {200, 206}
  /\ pc[t] \in {"loop", "sendfile"} =>
       /\ op[t].file = fs[req[t].path]
       /\ Within(t) => /\ op[t].from = First(t) - 1 /\ op[t].length = Final(t) - op[t].from
                       /\ Final(t) <= Len(before[t].blocks)
  /\ pc[t] = "loop" /\ Within(t) =>
       answer[t].body = SubSeq(before[t].blocks, First(t), op[t].from + op[t].tr)
  /\ pc[t] = "close" /\ req[t].method = "GET" /\ ~answer[t].broken /\ Within(t) =>
       /\ answer[t].body = SubSeq(before[t].blocks, First(t), Final(t))
       /\ answer[t].length = Len(answer[t].body)
\* The lines for these resources
LinesOf(t, S) == {Line(t, q, IsDir(q)) : q \in S}
Itself(t) == IF req[t].via = "export" THEN {} ELSE {req[t].path}
Lists(t) ==
  LET p == req[t].path
      code == answer[t].code
      listed == answer[t].listed
  IN /\ pc[t] = "opendir" /\ req[t].via = "export" => before[t] # Missing /\ before[t].dir
     /\ pc[t] = "opendir" /\ req[t].via = "webdav" =>
          \/ code = 404 /\ ~There(p)
          \/ code = 207 /\ listed = LinesOf(t, {p}) /\ req[t].depth > 0
     /\ pc[t] = "readdir" =>
          /\ IsDir(p) /\ op[t].pending \subseteq Children(p)
          /\ listed = LinesOf(t, Itself(t) \union (Children(p) \ op[t].pending))
          /\ IF req[t].via = "export" THEN code = 200 ELSE code = 207 /\ req[t].depth > 0
     /\ pc[t] = "listed" /\ req[t].via = "export" =>
          IsDir(p) /\ code = 200 /\ listed = LinesOf(t, Children(p))
     /\ pc[t] = "listed" /\ req[t].via = "webdav" =>
          \/ code = 404
          \/ code = 207 /\ listed = LinesOf(t, {p} \union (IF req[t].depth > 0 THEN Children(p) ELSE {}))
Copies(t) ==
  pc[t] = "copy" =>
    /\ fs[req[t].path] = op[t].dest
    /\ ~shortened => /\ op[t].from = op[t].tr
                     /\ inodes[op[t].dest].blocks = SubSeq(inodes[op[t].file].blocks, 1, op[t].tr)
Finds(t) ==
  (pc[t] = "done" /\ IsGet(t)) =>
    /\ answer[t].code \in {200, 206} /\ req[t].method = "GET" /\ ~answer[t].broken /\ File(t) /\ Within(t) =>
         /\ answer[t].body = SubSeq(before[t].blocks, First(t), Final(t))
         /\ answer[t].length = Len(answer[t].body)
    /\ answer[t].code \in {403, 404} <=> (before[t] = Missing \/ (before[t].dir /\ req[t].via = "webdav"))
Knows(t) ==
  /\ pc[t] \notin {"copy", "done"} => Holds(req[t].path) = before[t]
  /\ Reads(t) /\ Lists(t) /\ Copies(t) /\ Finds(t)
  /\ pc[t] = "done" => Effect(t)

FilesInv ==
  /\ Types /\ Rooted
  /\ \A t \in Threads : Uploaded(t) /\ Targeted(t) /\ Placed(t) /\ Sent(t)
  /\ \A t \in Threads : pc[t] # "idle" /\ ~disturbed[t] => Knows(t)
=============================================================================
