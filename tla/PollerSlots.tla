---------------------------- MODULE PollerSlots ----------------------------
(***************************************************************************)
(* A connection from accept to close, over the slots of poller.c.          *)
(*                                                                         *)
(* A slot lives in a static array, at the index of its descriptor, so it   *)
(* is never allocated: onion_poller_slot_new writes over whatever was      *)
(* there.  The slots of a poller are chained through "next" for the walks  *)
(* of the timer, and registered one-shot in epoll.  The kernel gives the   *)
(* lowest free number to every new descriptor, so a number comes back as   *)
(* soon as it is closed.                                                   *)
(*                                                                         *)
(* Each system call, each critical section of p->mutex and each access to  *)
(* a slot or a request outside it is one step.                             *)
(***************************************************************************)
EXTENDS Naturals, FiniteSets

CONSTANTS
  Threads,       \* the pool
  ListenPoints,
  Requests,      \* bound: the connections that will be made
  MaxFd,         \* bound: descriptors 1..MaxFd
  MaxListens,    \* bound: calls of onion_listen
  MayYield,      \* handlers may return OCS_YIELD
  None

Fds == 1..MaxFd
EventFd == 1
TimerFd == 2
Own == {EventFd, TimerFd}
Nil == 0               \* a null pointer, and a descriptor that is closed (-1)

ASSUME SlotsAssumption ==
  /\ IsFiniteSet(ListenPoints)
  /\ MaxFd \in Nat /\ MaxFd > Cardinality(ListenPoints) + 2
  /\ ListenPoints \cap Requests = {}
  /\ {None, "own"} \cap (ListenPoints \cup Requests) = {} /\ None # "own"
  /\ MaxListens \in Nat
  /\ MayYield \in BOOLEAN

VARIABLES
  file,      \* the open file behind each descriptor
  head,      \* poller->head
  nxt,       \* el->next
  data,      \* el->data, and with it el->f
  closer,    \* el->shutdown is onion_request_free
  epoll,     \* the registration of each descriptor
  listenfd,  \* op->listenfd
  fd,        \* req->connection.fd
  live,      \* requests allocated and not freed
  yielded,   \* requests that another thread took over
  phase,     \* "off", "listening", "stopping"
  listens,
  pc,
  el,        \* the slot a thread works on
  req,       \* the request a thread works on
  refused,   \* history: connections that epoll_ctl refused to register
  overtaken  \* history: a request was freed while a thread of the pool had it

chain == <<head, nxt>>
slots == <<head, nxt, data, closer>>
conns == <<fd, live, yielded>>
server == <<listenfd, phase, listens>>
history == <<refused, overtaken>>
vars == <<file, head, nxt, data, closer, epoll, listenfd, fd, live, yielded, phase,
          listens, pc, el, req, refused, overtaken>>

Goto(t, label) == pc' = [pc EXCEPT ![t] = label]

\* The number the kernel gives to a new descriptor.
Free == {f \in Fds : file[f] = None}
Lowest == CHOOSE f \in Free : \A g \in Free : f <= g

\* The chain from head, as far as it can be without a repetition.
Chain[i \in 0..MaxFd] ==
  IF i = 0 THEN head ELSE IF Chain[i - 1] = Nil THEN Nil ELSE nxt[Chain[i - 1]]
Listed == {Chain[i] : i \in 0..MaxFd} \ {Nil}
Ends == Chain[MaxFd] = Nil
-----------------------------------------------------------------------------
\* onion_poller_new: the timerfd is chained behind the eventfd.
Init ==
  /\ file = [f \in Fds |-> IF f \in Own THEN "own" ELSE None]
  /\ head = EventFd
  /\ nxt = [f \in Fds |-> IF f = EventFd THEN TimerFd ELSE Nil]
  /\ data = [f \in Fds |-> None]
  /\ closer = [f \in Fds |-> FALSE]
  /\ epoll = [f \in Fds |-> IF f \in Own THEN "armed" ELSE "absent"]
  /\ listenfd = [l \in ListenPoints |-> Nil]
  /\ fd = [r \in Requests |-> Nil]
  /\ live = {}
  /\ yielded = {}
  /\ phase = "off"
  /\ listens = 0
  /\ pc = [t \in Threads |-> "wait"]
  /\ el = [t \in Threads |-> Nil]
  /\ req = [t \in Threads |-> None]
  /\ refused = {}
  /\ overtaken = FALSE
-----------------------------------------------------------------------------
(* The operations of poller.c *)

\* onion_poller_slot_new, and what its caller sets before the slot is added.
SlotNew(f, d, c) ==
  /\ data' = [data EXCEPT ![f] = d]
  /\ closer' = [closer EXCEPT ![f] = c]

\* The critical section of onion_poller_add: the head stays the head.
LinkLast(f, n) ==      \* a bug: what followed the head is dropped
  /\ head' = head
  /\ nxt' = [n EXCEPT ![head] = f]

Link(f, n) ==
  /\ head' = head
  /\ nxt' = [n EXCEPT ![f] = n[head], ![head] = f]

\* The critical section of onion_poller_remove.
UnlinkTail(f) ==       \* a bug: what follows the slot goes with it
  /\ head' = head
  /\ nxt' = [g \in Fds |-> IF nxt[g] = f THEN Nil ELSE nxt[g]]

Unlink(f) ==
  IF head = f
    THEN head' = nxt[f] /\ nxt' = nxt
    ELSE /\ head' = head
         /\ nxt' = [g \in Fds |-> IF g \in Listed /\ nxt[g] = f THEN nxt[f] ELSE nxt[g]]

DisarmLevel(f) == epoll    \* a bug: no EPOLLONESHOT
Disarm(f) == [epoll EXCEPT ![f] = "disabled"]

\* close: the kernel drops the registration with the file.
Closed(f) ==
  /\ file' = [file EXCEPT ![f] = None]
  /\ epoll' = [epoll EXCEPT ![f] = "absent"]
-----------------------------------------------------------------------------
(* onion_listen and onion_listen_stop *)

\* The pool is not running: socket, slot and registration in one step.
Listen(l) ==
  /\ phase = "off"
  /\ listens < MaxListens
  /\ listenfd[l] = Nil
  /\ Free # {}
  /\ listenfd' = [listenfd EXCEPT ![l] = Lowest]
  /\ file' = [file EXCEPT ![Lowest] = l]
  /\ SlotNew(Lowest, l, FALSE)
  /\ Link(Lowest, [nxt EXCEPT ![Lowest] = Nil])
  /\ epoll' = [epoll EXCEPT ![Lowest] = "armed"]
  /\ UNCHANGED <<conns, phase, listens, pc, el, req, history>>

StartPool ==
  /\ phase = "off"
  /\ \A l \in ListenPoints : listenfd[l] # Nil
  /\ phase' = "listening"
  /\ listens' = listens + 1
  /\ UNCHANGED <<file, slots, epoll, listenfd, conns, pc, el, req, history>>

\* onion_listen_point_listen_stop: the slot stays where it is.
StopListening(l) ==
  /\ phase \in {"listening", "stopping"}
  /\ listenfd[l] # Nil
  /\ phase' = "stopping"
  /\ listenfd' = [listenfd EXCEPT ![l] = Nil]
  /\ Closed(listenfd[l])
  /\ UNCHANGED <<slots, conns, listens, pc, el, req, history>>

\* Every thread has left the loop and was joined.
StopPool ==
  /\ phase = "stopping"
  /\ \A l \in ListenPoints : listenfd[l] = Nil
  /\ \A t \in Threads : pc[t] = "wait"
  /\ phase' = "off"
  /\ UNCHANGED <<file, slots, epoll, listenfd, conns, listens, pc, el, req, history>>
-----------------------------------------------------------------------------
(* onion_poller_poll *)

\* epoll_wait returns a slot and disables it (EPOLLONESHOT).
Take(t, f) ==
  /\ pc[t] = "wait"
  /\ phase # "off"
  /\ f \notin Own
  /\ epoll[f] = "armed"
  /\ epoll' = Disarm(f)
  /\ el' = [el EXCEPT ![t] = f]
  /\ Goto(t, "call")
  /\ UNCHANGED <<file, slots, server, conns, req, history>>

\* el->f(el->data)
Call(t) ==
  /\ pc[t] = "call"
  /\ req' = [req EXCEPT ![t] = IF data[el[t]] \in Requests THEN data[el[t]] ELSE None]
  /\ Goto(t, IF data[el[t]] \in ListenPoints THEN "accept" ELSE "handler")
  /\ UNCHANGED <<file, slots, epoll, server, conns, el, history>>

\* A bug: epoll_ctl(EPOLL_CTL_MOD) is missing.
RearmForgotten(t) ==
  /\ pc[t] = "rearm"
  /\ req' = [req EXCEPT ![t] = None]
  /\ Goto(t, "wait")
  /\ UNCHANGED <<file, slots, epoll, server, conns, el, history>>

\* The registration is enabled again; epoll_ctl fails when there is none.
Rearm(t) ==
  /\ pc[t] = "rearm"
  /\ epoll' = [epoll EXCEPT ![el[t]] = IF @ = "absent" THEN @ ELSE "armed"]
  /\ req' = [req EXCEPT ![t] = None]
  /\ Goto(t, "wait")
  /\ UNCHANGED <<file, slots, server, conns, el, history>>

\* onion_poller_remove, in three steps: epoll_ctl ...
Unregister(t) ==
  /\ pc[t] = "remove"
  /\ epoll' = [epoll EXCEPT ![el[t]] = "absent"]
  /\ Goto(t, "unlink")
  /\ UNCHANGED <<file, slots, server, conns, el, req, history>>

\* ... the chain (an unknown descriptor is not an error) ...
Remove(t) ==
  /\ pc[t] = "unlink"
  /\ Unlink(el[t])
  /\ IF el[t] \in Listed
       THEN Goto(t, "release") /\ req' = req
       ELSE Goto(t, "wait") /\ req' = [req EXCEPT ![t] = None]
  /\ UNCHANGED <<file, data, closer, epoll, server, conns, el, history>>

\* ... and onion_poller_slot_free: onion_request_free closes the descriptor.
Release(t) ==
  /\ pc[t] = "release"
  /\ IF closer[el[t]]
       THEN /\ Closed(fd[data[el[t]]])
            /\ live' = live \ {data[el[t]]}
       ELSE UNCHANGED <<file, epoll, live>>
  /\ req' = [req EXCEPT ![t] = None]
  /\ Goto(t, "wait")
  /\ UNCHANGED <<slots, server, fd, yielded, el, history>>

-----------------------------------------------------------------------------
(* onion_listen_point_accept *)

\* accept4 gives the lowest free descriptor; nothing is accepted any more once
\* the listen point is closed.
Accept(t) ==
  /\ pc[t] = "accept"
  /\ \E l \in ListenPoints : data[el[t]] = l /\ listenfd[l] # Nil
  /\ Free # {}
  /\ \E r \in Requests \ live :
       /\ fd[r] = Nil
       /\ fd' = [fd EXCEPT ![r] = Lowest]
       /\ live' = live \cup {r}
       /\ file' = [file EXCEPT ![Lowest] = r]
       /\ req' = [req EXCEPT ![t] = r]
  /\ Goto(t, "slot")
  /\ UNCHANGED <<slots, epoll, server, yielded, el, history>>

\* The client is gone again, or the listen point is closed.
AcceptFails(t) ==
  /\ pc[t] = "accept"
  /\ Goto(t, "rearm")
  /\ UNCHANGED <<file, slots, epoll, server, conns, el, req, history>>

\* onion_poller_slot_new, set_timeout, set_shutdown: no lock is held.
FillSlot(t) ==
  /\ pc[t] = "slot"
  /\ SlotNew(fd[req[t]], req[t], TRUE)
  /\ nxt' = [nxt EXCEPT ![fd[req[t]]] = Nil]
  /\ Goto(t, "link")
  /\ UNCHANGED <<file, head, epoll, server, conns, el, req, history>>

AddSlot(t) ==
  /\ pc[t] = "link"
  /\ Link(fd[req[t]], nxt)
  /\ Goto(t, "register")
  /\ UNCHANGED <<file, data, closer, epoll, server, conns, el, req, history>>

\* From here on another thread may serve the connection.
Register(t) ==
  /\ pc[t] = "register"
  /\ epoll' = [epoll EXCEPT ![fd[req[t]]] = "armed"]
  /\ req' = [req EXCEPT ![t] = None]
  /\ Goto(t, "rearm")
  /\ UNCHANGED <<file, slots, server, conns, el, history>>

\* epoll_ctl has no memory or too many watches: onion_poller_add returns as if it had
\* registered the slot, and leaves it in the chain.
RegisterFails(t) ==
  /\ pc[t] = "register"
  /\ refused' = refused \cup {req[t]}
  /\ req' = [req EXCEPT ![t] = None]
  /\ Goto(t, "rearm")
  /\ UNCHANGED <<file, slots, epoll, server, conns, el, overtaken>>
-----------------------------------------------------------------------------
(* The read_ready callback of a connection *)

\* More data is needed, or the connection is kept alive.
HandlerKeeps(t) ==
  /\ pc[t] = "handler"
  /\ Goto(t, "rearm")
  /\ UNCHANGED <<file, slots, epoll, server, conns, el, req, history>>

HandlerCloses(t) ==
  /\ pc[t] = "handler"
  /\ Goto(t, "remove")
  /\ UNCHANGED <<file, slots, epoll, server, conns, el, req, history>>

\* The user's handler gives request and response to another thread, and returns
\* OCS_YIELD.
HandlerYields(t) ==
  /\ pc[t] = "handler"
  /\ MayYield
  /\ yielded' = yielded \cup {req[t]}
  /\ Goto(t, "flush")
  /\ UNCHANGED <<file, slots, epoll, server, fd, live, el, req, history>>

\* onion_handler_handle flushes the response of whatever handler answered.
Flush(t) ==
  /\ pc[t] = "flush"
  /\ Goto(t, "detach")
  /\ UNCHANGED <<file, slots, epoll, server, conns, el, req, history>>

\* A bug: the slot keeps onion_request_free.
DetachKept(t) ==
  /\ pc[t] = "detach"
  /\ fd[req[t]] \in Listed
  /\ Goto(t, "remove")
  /\ UNCHANGED <<file, slots, epoll, server, conns, el, req, history>>

\* onion_request_process: the slot of req->connection.fd loses its shutdown.
\* A slot that is not found is a null pointer: the program ends there.
Detach(t) ==
  /\ pc[t] = "detach"
  /\ fd[req[t]] \in Listed
  /\ closer' = [closer EXCEPT ![fd[req[t]]] = FALSE]
  /\ Goto(t, "remove")
  /\ UNCHANGED <<file, head, nxt, data, epoll, server, conns, el, req, history>>

\* The other thread is done: onion_response_free, onion_request_free.  Nothing tells it
\* whether the thread of the pool has let go of the request.
WorkerFrees(r) ==
  /\ r \in yielded
  /\ yielded' = yielded \ {r}
  /\ live' = live \ {r}
  /\ Closed(fd[r])
  /\ overtaken' = (overtaken \/ \E t \in Threads : req[t] = r)
  /\ UNCHANGED <<slots, server, fd, pc, el, req, refused>>
-----------------------------------------------------------------------------
Next ==
  \/ \E l \in ListenPoints : Listen(l) \/ StopListening(l)
  \/ StartPool \/ StopPool
  \/ \E t \in Threads :
       \/ \E f \in Fds : Take(t, f)
       \/ Call(t) \/ Rearm(t) \/ Unregister(t) \/ Remove(t) \/ Release(t)
       \/ Accept(t) \/ AcceptFails(t) \/ FillSlot(t) \/ AddSlot(t)
       \/ Register(t) \/ RegisterFails(t)
       \/ HandlerKeeps(t) \/ HandlerCloses(t)
       \/ HandlerYields(t) \/ Flush(t) \/ Detach(t)
  \/ \E r \in Requests : WorkerFrees(r)

Spec == Init /\ [][Next]_vars
-----------------------------------------------------------------------------
TypeOK ==
  /\ file \in [Fds -> ListenPoints \cup Requests \cup {"own", None}]
  /\ head \in Fds /\ nxt \in [Fds -> Fds \cup {Nil}]
  /\ data \in [Fds -> ListenPoints \cup Requests \cup {None}]
  /\ closer \in [Fds -> BOOLEAN]
  /\ epoll \in [Fds -> {"absent", "armed", "disabled"}]
  /\ listenfd \in [ListenPoints -> Fds \cup {Nil}]
  /\ fd \in [Requests -> Fds \cup {Nil}]
  /\ live \subseteq Requests /\ yielded \subseteq Requests
  /\ phase \in {"off", "listening", "stopping"}
  /\ listens \in 0..MaxListens
  /\ pc \in [Threads -> {"wait", "call", "rearm", "remove", "unlink", "release", "accept",
                         "slot", "link", "register", "handler", "flush", "detach"}]
  /\ el \in [Threads -> Fds \cup {Nil}]
  /\ req \in [Threads -> Requests \cup {None}]
  /\ refused \subseteq Requests /\ overtaken \in BOOLEAN

(***************************************************************************)
(* A worker that frees a request while the poller's thread still has it    *)
(* closes a descriptor whose slot is in the chain: nothing is promised     *)
(* from then on.                                                           *)
(***************************************************************************)

\* The walks of the timer end and meet the poller's own slots, and the slot of a connection
\* in the chain belongs to the connection that has the descriptor: the timer shuts no other
\* file (poller.c:278).
ChainSound ==
  overtaken \/
    /\ TypeOK
    /\ Ends /\ Own \subseteq Listed
    /\ \A f \in Listed : data[f] \in Requests => file[f] = data[f]

\* One thread at a time runs the callback of a connection, and it is the
\* connection whose descriptor reported the event.
CallbackExclusive ==
  overtaken \/
    \A t, u \in Threads :
      pc[t] \in {"handler", "flush", "detach", "remove"} /\ req[t] # None =>
        /\ req[t] = req[u] /\ pc[u] \in {"handler", "flush", "detach", "remove"} => t = u
        /\ file[el[t]] = req[t]

\* "Yield thread to the poller, ensures request and response are not freed"
\* (longpoll.c:98): no thread of the pool uses, or frees, a request that was freed; nor
\* does the thread that took it over.
NoUseAfterFree ==
  /\ yielded \subseteq live
  /\ \A t \in Threads :
       /\ pc[t] \in {"slot", "link", "register", "handler", "flush", "detach"} =>
            req[t] \in live \/ req[t] = None
       /\ pc[t] = "release" /\ closer[el[t]] => data[el[t]] \in live

\* Only a worker that overtakes the poller's thread makes it use a request that was freed:
\* neither numbers that come back nor slots that are used again do.
FreedOnlyByWorker == overtaken \/ NoUseAfterFree

\* Connections nobody works on which no request and no timeout will find, since they are
\* not in the chain or not in epoll with their slot.
Forgotten ==
  {r \in live \ yielded :
     /\ \A t \in Threads : req[t] # r
     /\ ~ /\ fd[r] \in Listed
          /\ data[fd[r]] = r /\ closer[fd[r]]
          /\ epoll[fd[r]] = "armed" \/ \E t \in Threads : el[t] = fd[r] /\ pc[t] = "call"}

\* A connection is forgotten only when epoll refused it.
NoneForgotten == Forgotten \subseteq refused

\* "When new data is available [...] the given function is called" (poller.c:396): of every
\* connection that was added.
EachServed == overtaken \/ Forgotten = {}

-----------------------------------------------------------------------------
(* Why these hold: an inductive invariant                                  *)

\* The request a thread of the pool works on; before the callback it is in the slot.
Works(t) == IF pc[t] = "call" THEN data[el[t]] ELSE req[t]

\* Descriptors: what is behind each, and that a closed one has no registration.
Files ==
  /\ \A f \in Own : file[f] = "own" /\ data[f] = None
  /\ \A f \in Fds, l \in ListenPoints : file[f] = l <=> listenfd[l] = f
  /\ \A f \in Fds, r \in Requests : file[f] = r <=> r \in live /\ fd[r] = f
  /\ \A r \in live : fd[r] \in Fds
  /\ \A f \in Fds : file[f] = None => epoll[f] = "absent"

\* The slot of a listen point that was stopped stays in the chain; its number does
\* not come back, because nothing is accepted any more.
Stopped ==
  /\ \A l \in ListenPoints : listenfd[l] = Nil
  /\ phase = "stopping" \/ (phase = "off" /\ listens >= MaxListens)

Listening ==
  /\ phase # "off" => listens >= MaxListens
  /\ \A l \in ListenPoints : listenfd[l] # Nil =>
       /\ data[listenfd[l]] = l /\ listenfd[l] \in Listed
       /\ phase # "stopping"
       /\ phase = "off" => listens < MaxListens
  /\ \A f \in Fds : data[f] \in ListenPoints => listenfd[data[f]] = f \/ Stopped
  /\ \A r \in live : data[fd[r]] \notin ListenPoints

\* The chain ends, and a slot in it is the poller's own, a listen point's, or that of a
\* live connection.
Linked ==
  /\ head = EventFd /\ Ends /\ Own \subseteq Listed
  /\ \A f \in Listed \ Own : data[f] \in ListenPoints \/ (data[f] \in live /\ fd[data[f]] = f)
  /\ \A f \in Fds \ Own : epoll[f] # "absent" => f \in Listed
  /\ \A f \in Fds : epoll[f] = "armed" /\ data[f] \in Requests =>
       /\ data[f] \notin yielded /\ closer[f]
       /\ \A t \in Threads : Works(t) # data[f]

\* What a thread knows of its slot and its request at each point.
Accepting(t) ==
  /\ pc[t] \in {"accept", "slot", "link", "register"} => data[el[t]] \in ListenPoints
  /\ pc[t] \in {"slot", "link", "register"} =>
       /\ req[t] \in live \ yielded
       /\ epoll[fd[req[t]]] = "absent"
       /\ (fd[req[t]] \in Listed) <=> (pc[t] = "register")
       /\ pc[t] # "slot" => data[fd[req[t]]] = req[t] /\ closer[fd[req[t]]]

Serving(t) ==
  /\ pc[t] \in {"handler", "flush", "detach", "remove", "unlink", "release"}
       \/ (pc[t] = "rearm" /\ req[t] # None) =>
       /\ req[t] \in live /\ fd[req[t]] = el[t] /\ data[el[t]] = req[t]
       /\ (el[t] \in Listed) <=> (pc[t] # "release")
       /\ epoll[el[t]] = IF pc[t] \in {"unlink", "release"} THEN "absent" ELSE "disabled"
       /\ pc[t] \in {"handler", "rearm"} => req[t] \notin yielded /\ closer[el[t]]
       /\ pc[t] \in {"flush", "detach"} => req[t] \in yielded
       /\ pc[t] \in {"remove", "unlink", "release"} => (closer[el[t]] <=> req[t] \notin yielded)
  /\ pc[t] = "call" =>
       /\ el[t] \in Listed \ Own
       /\ data[el[t]] \in Requests =>
            epoll[el[t]] = "disabled" /\ data[el[t]] \notin yielded /\ closer[el[t]]
  /\ pc[t] \in {"wait", "call", "accept"} => req[t] = None
  /\ pc[t] = "rearm" /\ req[t] = None => data[el[t]] \in ListenPoints

\* No two threads work on one request.
Apart ==
  \A t, u \in Threads : Works(t) \in Requests /\ Works(t) = Works(u) => t = u

\* A request that another thread has is out of the chain, or the pool's thread that gave
\* it away has not let go of it.
HandedOver ==
  /\ yielded \subseteq live
  /\ yielded # {} => MayYield
  /\ \A r \in yielded : fd[r] \in Listed =>
       \E t \in Threads : req[t] = r /\ pc[t] \in {"flush", "detach", "remove", "unlink"}

\* The inductive invariant while the descriptors of the slots in the chain are open.
Sound ==
  /\ TypeOK /\ Files /\ Listening /\ Linked
  /\ \A t \in Threads : Accepting(t) /\ Serving(t)
  /\ Apart /\ HandedOver /\ NoneForgotten

SlotsInv == overtaken \in BOOLEAN /\ (overtaken \/ Sound)
-----------------------------------------------------------------------------
\* The chain of slots implements a set of descriptors, as long as none is closed that is
\* still in it.
Set == INSTANCE PollerSet
         WITH Descriptors <- Fds, Own <- Own, watched <- Listed, misused <- overtaken
ImplementsSet == Set!Spec
=============================================================================
