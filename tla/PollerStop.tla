----------------------------- MODULE PollerStop -----------------------------
(***************************************************************************)
(* Starting and stopping a threaded server: onion_listen (onion.c) spawns  *)
(* the pool, every thread runs onion_poller_poll (poller.c), and           *)
(* onion_listen_stop asks them all to leave.  The request to leave travels *)
(* through three pieces of shared state that are never updated together:   *)
(* the flag p->stop, the counter p->npollers, and an eventfd that is       *)
(* registered one-shot in the epoll set and is handed on from one leaving  *)
(* thread to the next.                                                     *)
(*                                                                         *)
(* Every critical section of p->mutex and every system call is one step.   *)
(* Handlers of the other descriptors are reduced to what they may do to    *)
(* this protocol: return, call onion_listen_stop, or take server->mutex    *)
(* (onion_client_data).                                                    *)
(***************************************************************************)
EXTENDS Naturals, FiniteSets

CONSTANTS
  Threads,     \* the nthreads threads of the pool, the listening one included
  Main,        \* the thread that runs onion_listen
  Stoppers,    \* threads outside the pool that call onion_listen_stop
  Detachable,  \* whether the server may be detached, may not, or either: a set of booleans
  MaxListens,  \* bound: calls of onion_listen
  MaxStops,    \* bound: calls of onion_listen_stop
  Nobody       \* server->mutex is free

ASSUME PoolAssumption ==
  /\ IsFiniteSet(Threads)
  /\ Main \in Threads
  /\ Threads \cap Stoppers = {}
  /\ Nobody \notin Threads \cup Stoppers
  /\ Detachable \subseteq BOOLEAN
  /\ MaxListens \in Nat
  /\ MaxStops \in Nat

VARIABLES
  detached,   \* O_DETACHED in server->flags: onion_listen_stop joins the listening thread
  stop,       \* p->stop
  npollers,   \* p->npollers
  eventfd,    \* p->eventfd holds a non-zero count
  armed,      \* the eventfd slot is enabled in the epoll set (EPOLLONESHOT)
  listening,  \* O_LISTENING in server->flags
  mutex,      \* owner of server->mutex
  pc,         \* where each thread is
  ret,        \* where a thread goes after onion_poller_stop
  n,          \* the local copy of npollers in onion_poller_stop
  listens,    \* onion_listen calls so far
  stops,      \* onion_listen_stop calls so far
  told,       \* history: threads polling when some onion_poller_stop began
  asked,      \* history: this onion_listen was stopped by a call
  complete    \* history: a stop began while the whole pool was polling

poller == <<stop, npollers, eventfd, armed>>
server == <<detached, listening, mutex>>
locals == <<pc, ret, n>>
bounds == <<listens, stops>>
history == <<told, asked, complete>>
vars == <<detached, stop, npollers, eventfd, armed, listening, mutex, pc, ret, n,
          listens, stops, told, asked, complete>>

Agents == Threads \cup Stoppers

\* Between npollers++ and npollers-- of onion_poller_poll.
LoopLabels == {"check", "wait", "callback", "client", "lock", "mark", "drain",
               "count", "signal", "join", "rearm", "leave"}
Polling == {t \in Threads : pc[t] \in LoopLabels}

Goto(a, label) == pc' = [pc EXCEPT ![a] = label]
-----------------------------------------------------------------------------
Init ==
  /\ detached \in Detachable
  /\ stop = FALSE
  /\ npollers = 0
  /\ eventfd = FALSE
  /\ armed = TRUE
  /\ listening = FALSE
  /\ mutex = Nobody
  /\ pc = [a \in Agents |-> "idle"]
  /\ ret = [a \in Agents |-> "idle"]
  /\ n = [a \in Agents |-> 0]
  /\ listens = 0
  /\ stops = 0
  /\ told = {}
  /\ asked = FALSE
  /\ complete = FALSE
-----------------------------------------------------------------------------
(* Bugs this code could have, each the form an action below would take.  They *)
(* are not part of the specification: they show what the properties detect.  *)

\* onion_listen returns without joining the pool.
ListenReturnUnjoined ==
  /\ pc[Main] = "left"
  /\ Goto(Main, "idle")
  /\ listening' = FALSE
  /\ UNCHANGED <<poller, detached, mutex, ret, n, bounds, history>>

\* The eventfd callback returns without its slot being set again.
RearmForgotten(t) ==
  /\ pc[t] = "rearm"
  /\ Goto(t, "check")
  /\ UNCHANGED <<poller, server, ret, n, bounds, history>>

\* A caller counts itself among the pollers it need not wake.
StopSignalOthers(a) ==
  /\ pc[a] = "signal"
  /\ eventfd' = (eventfd \/ n[a] > 1)
  /\ Goto(a, IF ret[a] = "rearm" THEN "rearm" ELSE "join")
  /\ UNCHANGED <<stop, npollers, armed, server, ret, n, bounds, history>>
-----------------------------------------------------------------------------
(* onion_listen, in thread Main *)

\* Listen points are open and O_LISTENING is set, nobody polls yet.  A second
\* onion_listen of a detached server runs in its caller: not modelled.
ListenOpen ==
  /\ pc[Main] = "idle"
  /\ listens < MaxListens
  /\ detached => listens = 0
  /\ listening' = TRUE
  /\ listens' = listens + 1
  /\ asked' = FALSE
  /\ complete' = FALSE
  /\ Goto(Main, "opened")
  /\ UNCHANGED <<poller, detached, mutex, ret, n, stops, told>>

\* The pool is created; each thread reaches onion_poller_poll in its own time.
ListenSpawn ==
  /\ pc[Main] = "opened"
  /\ pc' = [a \in Agents |-> IF a \in Threads THEN "enter" ELSE pc[a]]
  /\ UNCHANGED <<poller, server, ret, n, bounds, history>>

\* Main has left its loop and has joined every other thread.
ListenReturn ==
  /\ \A t \in Threads : pc[t] = "left"
  /\ pc' = [a \in Agents |-> IF a \in Threads THEN "idle" ELSE pc[a]]
  /\ listening' = FALSE
  /\ UNCHANGED <<poller, detached, mutex, ret, n, bounds, history>>
-----------------------------------------------------------------------------
(* onion_poller_poll, in every thread of the pool *)

Enter(t) ==
  /\ pc[t] = "enter"
  /\ npollers' = npollers + 1
  /\ stop' = FALSE
  /\ Goto(t, "check")
  /\ UNCHANGED <<eventfd, armed, server, ret, n, bounds, history>>

\* The eventfd slot is never removed, so p->head stands and only stop counts.
CheckStop(t) ==
  /\ pc[t] = "check"
  /\ Goto(t, IF stop THEN "leave" ELSE "wait")
  /\ UNCHANGED <<poller, server, ret, n, bounds, history>>

\* epoll_wait returns the eventfd slot and disables it.
TakeStopEvent(t) ==
  /\ pc[t] = "wait"
  /\ eventfd /\ armed
  /\ armed' = FALSE
  /\ Goto(t, "mark")
  /\ ret' = [ret EXCEPT ![t] = "rearm"]
  /\ UNCHANGED <<stop, npollers, eventfd, server, n, bounds, history>>

\* epoll_wait returns another descriptor.
TakeOtherEvent(t) ==
  /\ pc[t] = "wait"
  /\ Goto(t, "callback")
  /\ UNCHANGED <<poller, server, ret, n, bounds, history>>

\* epoll_wait fails with EINTR: the loop goes round.
Interrupted(t) ==
  /\ pc[t] = "wait"
  /\ Goto(t, "check")
  /\ UNCHANGED <<poller, server, ret, n, bounds, history>>

\* EPOLL_CTL_MOD on the eventfd slot after its callback returned 1.
Rearm(t) ==
  /\ pc[t] = "rearm"
  /\ armed' = TRUE
  /\ Goto(t, "check")
  /\ UNCHANGED <<stop, npollers, eventfd, server, ret, n, bounds, history>>

Leave(t) ==
  /\ pc[t] = "leave"
  /\ npollers' = npollers - 1
  /\ told' = told \ {t}
  /\ Goto(t, "left")
  /\ UNCHANGED <<stop, eventfd, armed, server, ret, n, bounds, asked, complete>>
-----------------------------------------------------------------------------
(* Callbacks of the other descriptors *)

CallbackReturns(t) ==
  /\ pc[t] = "callback"
  /\ Goto(t, "check")
  /\ UNCHANGED <<poller, server, ret, n, bounds, history>>

CallbackStops(t) ==
  /\ pc[t] = "callback"
  /\ stops < MaxStops
  /\ stops' = stops + 1
  /\ Goto(t, "lock")
  /\ ret' = [ret EXCEPT ![t] = "check"]
  /\ UNCHANGED <<poller, server, n, listens, history>>

CallbackUsesServer(t) ==
  /\ pc[t] = "callback"
  /\ Goto(t, "client")
  /\ UNCHANGED <<poller, server, ret, n, bounds, history>>

\* onion_client_data: lock, read, unlock.
ClientData(t) ==
  /\ pc[t] = "client"
  /\ mutex = Nobody
  /\ Goto(t, "check")
  /\ UNCHANGED <<poller, server, ret, n, bounds, history>>
-----------------------------------------------------------------------------
(* onion_listen_stop, and onion_poller_stop inside it *)

StopperCalls(s) ==
  /\ pc[s] = "idle"
  /\ stops < MaxStops
  /\ stops' = stops + 1
  /\ Goto(s, "lock")
  /\ UNCHANGED <<poller, server, ret, n, listens, history>>

\* Takes server->mutex, and gives it back at once when nothing listens.
StopLock(a) ==
  /\ pc[a] = "lock"
  /\ mutex = Nobody
  /\ IF listening
       THEN /\ mutex' = a
            /\ asked' = TRUE
            /\ Goto(a, "mark")
       ELSE /\ Goto(a, ret[a])
            /\ UNCHANGED <<mutex, asked>>
  /\ UNCHANGED <<poller, detached, listening, ret, n, bounds, told, complete>>

StopMark(a) ==
  /\ pc[a] = "mark"
  /\ stop' = TRUE
  /\ told' = told \cup Polling
  /\ complete' = (complete \/ Polling = Threads)
  /\ Goto(a, "drain")
  /\ UNCHANGED <<npollers, eventfd, armed, server, ret, n, bounds, asked>>

StopDrain(a) ==
  /\ pc[a] = "drain"
  /\ eventfd' = FALSE
  /\ Goto(a, "count")
  /\ UNCHANGED <<stop, npollers, armed, server, ret, n, bounds, history>>

StopCount(a) ==
  /\ pc[a] = "count"
  /\ n' = [n EXCEPT ![a] = npollers]
  /\ Goto(a, "signal")
  /\ UNCHANGED <<poller, server, ret, bounds, history>>

StopSignal(a) ==
  /\ pc[a] = "signal"
  /\ eventfd' = (eventfd \/ n[a] > 0)
  /\ Goto(a, IF ret[a] = "rearm" THEN "rearm" ELSE "join")
  /\ UNCHANGED <<stop, npollers, armed, server, ret, n, bounds, history>>

\* pthread_join of the listening thread when detached (a thread that joins
\* itself gets EDEADLK and goes on), then server->mutex is released.
StopJoin(a) ==
  /\ pc[a] = "join"
  /\ detached => a = Main \/ pc[Main] = "idle"
  /\ mutex' = Nobody
  /\ Goto(a, ret[a])
  /\ UNCHANGED <<poller, detached, listening, ret, n, bounds, history>>
-----------------------------------------------------------------------------
Listen == ListenOpen \/ ListenSpawn \/ ListenReturn

\* What a thread of the pool does without waiting for the outside world.
PollStep(t) ==
  \/ Enter(t) \/ CheckStop(t) \/ Rearm(t) \/ Leave(t) \/ ClientData(t)

Callback(t) == CallbackReturns(t) \/ CallbackStops(t) \/ CallbackUsesServer(t)

StopStep(a) ==
  \/ StopLock(a) \/ StopMark(a) \/ StopDrain(a)
  \/ StopCount(a) \/ StopSignal(a) \/ StopJoin(a)

Finished ==
  /\ \A a \in Agents : pc[a] = "idle"
  /\ listens = MaxListens \/ (detached /\ listens > 0)
  /\ stops = MaxStops
  /\ UNCHANGED vars

\* A thread of the pool waits for server->mutex, in onion_client_data or in a stop of its own.
Awaited == \E t \in Threads : pc[t] \in {"client", "lock"}

\* The listening thread is joined with server->mutex held: by a thread that it is to join
\* itself, or while one of these waits for the mutex.  Neither goes on, ever.
JoinedForEver ==
  \E a \in Agents \ {Main} : detached /\ pc[a] = "join" /\ (a \in Threads \/ Awaited)
Joined == JoinedForEver /\ UNCHANGED vars

Next ==
  \/ Listen
  \/ \E t \in Threads : \/ PollStep(t) \/ Callback(t)
                        \/ TakeStopEvent(t) \/ TakeOtherEvent(t) \/ Interrupted(t)
  \/ \E s \in Stoppers : StopperCalls(s)
  \/ \E a \in Agents : StopStep(a)
  \/ Finished \/ Joined

Spec == Init /\ [][Next]_vars

(***************************************************************************)
(* Threads run and handlers return.  Nothing makes a client send data, a   *)
(* signal arrive or a stopper call.  The kernel serves ready descriptors   *)
(* in FIFO order, so an armed, readable eventfd is not passed over for     *)
(* ever while threads keep coming back to epoll_wait: strong fairness of   *)
(* taking it, for the pool as a whole.                                     *)
(***************************************************************************)
Fairness ==
  /\ WF_vars(ListenSpawn) /\ WF_vars(ListenReturn)
  /\ \A t \in Threads : WF_vars(PollStep(t)) /\ WF_vars(Callback(t))
  /\ \A a \in Agents : WF_vars(StopStep(a))
  /\ SF_vars(\E t \in Threads : TakeStopEvent(t))

FairSpec == Spec /\ Fairness
-----------------------------------------------------------------------------
TypeOK ==
  /\ detached \in BOOLEAN
  /\ stop \in BOOLEAN /\ eventfd \in BOOLEAN /\ armed \in BOOLEAN
  /\ npollers \in Nat
  /\ listening \in BOOLEAN
  /\ mutex \in Agents \cup {Nobody}
  /\ pc \in [Agents -> LoopLabels \cup {"idle", "opened", "enter", "left"}]
  /\ ret \in [Agents -> {"idle", "check", "rearm"}]
  /\ n \in [Agents -> Nat]
  /\ listens \in Nat /\ stops \in Nat
  /\ told \subseteq Threads
  /\ asked \in BOOLEAN /\ complete \in BOOLEAN

\* onion_poller_stop decides from npollers whether a wake-up is needed: the
\* counter is exactly the number of threads inside the polling loop.
PollersCounted == npollers = Cardinality(Polling)

\* Inside the callback of the eventfd slot.
InStopHelper(t) ==
  /\ ret[t] = "rearm"
  /\ pc[t] \in {"mark", "drain", "count", "signal", "rearm"}

\* The one-shot registration serialises the eventfd callback: at most one
\* thread runs it, and the slot is disarmed exactly while one does.
StopHelperExclusive ==
  /\ armed <=> ~ \E t \in Threads : InStopHelper(t)
  /\ \A t, u \in Threads : InStopHelper(t) /\ InStopHelper(u) => t = u

\* Some caller of onion_poller_stop is still going to write the eventfd.
WillSignal(a) ==
  \/ pc[a] \in {"drain", "count"}
  \/ pc[a] = "signal" /\ n[a] > 0

\* No lost wake-up: while a thread that was polling when a stop began is still
\* polling, the eventfd is readable or a caller is about to make it so, however
\* the reads and writes of several callers interleave.
WakeupNotLost ==
  told # {} => eventfd \/ \E a \in Agents : WillSignal(a)

\* onion_listen_stop gives the server mutex to one caller at a time.
StopSerialised ==
  \A a \in Agents :
    ret[a] # "rearm" /\ pc[a] \in {"mark", "drain", "count", "signal", "join"}
      <=> mutex = a

\* Every thread of the pool is outside onion_listen, or every one is inside it.
Phases ==
  IF pc[Main] \in {"idle", "opened"}
    THEN \A t \in Threads \ {Main} : pc[t] = "idle"
    ELSE \A t \in Threads : pc[t] \notin {"idle", "opened"}

\* Where each caller of onion_poller_stop goes on afterwards.
Returns ==
  /\ \A s \in Stoppers :
       /\ ret[s] = "idle"
       /\ pc[s] \in {"idle", "lock", "mark", "drain", "count", "signal", "join"}
  /\ \A t \in Threads :
       /\ pc[t] \in {"lock", "join"} => ret[t] = "check"
       /\ pc[t] \in {"mark", "drain", "count", "signal"} => ret[t] \in {"check", "rearm"}
       /\ pc[t] = "rearm" => ret[t] = "rearm"

\* The inductive invariant: the safety properties of this module and what they
\* rest on.
StopInv ==
  /\ TypeOK /\ Phases /\ Returns
  /\ PollersCounted
  /\ StopHelperExclusive
  /\ StopSerialised
  /\ told \subseteq Polling
  /\ WakeupNotLost

\* A stop that finds the whole pool polling ends onion_listen: every thread leaves, including
\* those that were handling a request at the time, in whatever order the wake-up is handed on.
\* A detached server has one way to stay: the listening thread is joined by its own pool, or
\* with the mutex held that a thread of the pool waits for (JoinedForEver).
StopEndsListen == complete ~> (pc[Main] = "idle" \/ JoinedForEver)

\* "After this call no listening is still open, and listen could be called again"
\* (onion.c:551): there is a moment after the call, for whoever makes it outside the pool.
StopReturns == \A s \in Stoppers : mutex = s /\ complete ~> mutex # s

\* "After this call [...] listen could be called again" (onion.c:551): the listen that
\* follows goes on until it is stopped itself; no thread leaves it before.
LeavesOnlyWhenAsked ==
  [][\A t \in Threads : pc[t] = "check" /\ pc'[t] = "leave" => asked]_vars

\* "After this call no listening is still open" (onion.c:551): a stop accepted while the
\* server listens ends onion_listen.
AcceptedStopEndsListen == asked ~> pc[Main] = "idle"
=============================================================================
