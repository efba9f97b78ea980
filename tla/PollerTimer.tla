---------------------------- MODULE PollerTimer ----------------------------
(***************************************************************************)
(* The timeouts of poller.c.  Every slot has a limit, the second at which  *)
(* it has waited too long; one timerfd wakes a thread of the pool, whose   *)
(* callback onion_poller_timer shuts the slots that are over their limit   *)
(* and arms the timerfd for the next one.  The same function is called by  *)
(* every thread that sets a limit (onion_poller_timer_check).              *)
(*                                                                         *)
(* Only the walk over the slots holds the mutex.  The limits, the second   *)
(* of the last walk, current_timeout_limit and the timerfd itself are      *)
(* shared without it, so each access to them is one step.                  *)
(***************************************************************************)
EXTENDS Naturals, FiniteSets

CONSTANTS
  Threads,   \* threads of the pool
  Conns,     \* slots of client connections
  Timeout,   \* server->timeout in seconds
  Day,       \* the longest the timerfd is armed for (24 hours)
  MaxTime,   \* bound: the clock stops here
  Nobody     \* no thread, no connection

ASSUME TimerAssumption ==
  /\ Timeout \in Nat \ {0}
  /\ Day \in Nat \ {0}
  /\ MaxTime \in Nat \ {0}
  /\ Nobody \notin Threads \cup Conns
  /\ "timer" \notin Conns \cup {Nobody}

Inf == MaxTime + Timeout + Day + 2   \* INT_MAX, or a timerfd that is disarmed
Timer == "timer"                     \* the slot of the timerfd

VARIABLES
  now,      \* onion_time()
  conn,     \* "closed", "waiting" (in the list, enabled in epoll) or "handling"
  limit,    \* el->timeout_limit
  shut,     \* shutdown(fd, SHUT_RD) was called
  last,     \* onion_poller_last_time
  current,  \* p->current_timeout_limit
  expiry,   \* when the timerfd becomes readable
  enabled,  \* the slot of the timerfd is enabled in epoll
  scanner,  \* owner of p->mutex while the list is walked
  todo,     \* slots the walk has still to see
  pc,
  job,      \* the slot whose callback a thread runs
  keep,     \* the callback returned >= 0
  ctime,    \* local ctime
  next,     \* local next_timeout
  orig,     \* local origval
  victim,   \* the slot found over its limit
  active,   \* history: when each connection last had an event or was accepted
  before    \* history: the same, before the event that a thread has just taken

slots == <<conn, limit, shut>>
heard == <<active, before>>
timer == <<current, expiry, enabled>>
walk == <<scanner, todo, victim>>
locals == <<ctime, next, orig>>
vars == <<now, conn, limit, shut, last, current, expiry, enabled, scanner, todo,
          pc, job, keep, ctime, next, orig, victim, active, before>>

Goto(t, label) == pc' = [pc EXCEPT ![t] = label]

\* A walk of thread t finds the slot of c over its limit.
OverLimitLate(c, t) == limit[c] < ctime[t]   \* a bug: "<" for "<="
OverLimit(c, t) == limit[c] <= ctime[t]
-----------------------------------------------------------------------------
\* onion_poller_new has run onion_poller_timer once.
Init ==
  /\ now = 1
  /\ conn = [c \in Conns |-> "closed"]
  /\ limit = [c \in Conns |-> Inf]
  /\ shut = [c \in Conns |-> FALSE]
  /\ last = 1
  /\ current = 1 + Day
  /\ expiry = 1 + Day
  /\ enabled = TRUE
  /\ scanner = Nobody
  /\ todo = {}
  /\ pc = [t \in Threads |-> "wait"]
  /\ job = [t \in Threads |-> Nobody]
  /\ keep = [t \in Threads |-> TRUE]
  /\ ctime = [t \in Threads |-> 0]
  /\ next = [t \in Threads |-> 0]
  /\ orig = [t \in Threads |-> 0]
  /\ victim = Nobody
  /\ active = [c \in Conns |-> 0]
  /\ before = [c \in Conns |-> 0]
-----------------------------------------------------------------------------
(* Time.  Between system calls a thread is quick at the scale of a second:    *)
(* one second may end while it runs timer code, not two.  A thread of the     *)
(* pool takes an expired timerfd within a second.  Handlers take any time.    *)

InTimerCode(t) == pc[t] \notin {"wait", "handler"}

Tick ==
  /\ now < MaxTime
  /\ \A t \in Threads : InTimerCode(t) => ctime[t] = now
  /\ enabled => now <= expiry
  /\ now' = now + 1
  /\ UNCHANGED <<slots, last, timer, walk, pc, job, keep, locals, heard>>
-----------------------------------------------------------------------------
(* Connections *)

\* onion_listen_point_accept in thread t: set_timeout, then onion_poller_add.
Accept(t, c) ==
  /\ pc[t] = "wait"
  /\ conn[c] = "closed"
  /\ scanner = Nobody
  /\ conn' = [conn EXCEPT ![c] = "waiting"]
  /\ limit' = [limit EXCEPT ![c] = now + Timeout]
  /\ shut' = [shut EXCEPT ![c] = FALSE]
  /\ active' = [active EXCEPT ![c] = now]
  /\ job' = [job EXCEPT ![t] = Nobody]
  /\ ctime' = [ctime EXCEPT ![t] = now]
  /\ next' = [next EXCEPT ![t] = now + Timeout]
  /\ Goto(t, "check")
  /\ UNCHANGED <<now, last, timer, walk, keep, orig, before>>

\* epoll_wait returns the slot of c and disables it.
TakeConn(t, c) ==
  /\ pc[t] = "wait"
  /\ conn[c] = "waiting"
  /\ conn' = [conn EXCEPT ![c] = "handling"]
  /\ before' = [before EXCEPT ![c] = active[c]]
  /\ active' = [active EXCEPT ![c] = now]
  /\ job' = [job EXCEPT ![t] = c]
  /\ ctime' = [ctime EXCEPT ![t] = now]
  /\ Goto(t, "taken")
  /\ UNCHANGED <<now, limit, shut, last, timer, walk, keep, next, orig>>

\* A bug: the limit stays while the handler runs.
LiftLimitNot(t) ==
  /\ pc[t] = "taken"
  /\ before' = [before EXCEPT ![job[t]] = 0]
  /\ ctime' = [ctime EXCEPT ![t] = 0]
  /\ Goto(t, "handler")
  /\ UNCHANGED <<now, slots, last, timer, walk, job, keep, next, orig, active>>

\* The limit is lifted, and the callback called.
LiftLimit(t) ==
  /\ pc[t] = "taken"
  /\ limit' = [limit EXCEPT ![job[t]] = Inf]
  /\ before' = [before EXCEPT ![job[t]] = 0]
  /\ ctime' = [ctime EXCEPT ![t] = 0]
  /\ Goto(t, "handler")
  /\ UNCHANGED <<now, conn, shut, last, timer, walk, job, keep, next, orig, active>>

\* EPOLLHUP: the connection is closed without calling its callback.
TakeHangUp(t, c) ==
  /\ pc[t] = "wait"
  /\ conn[c] = "waiting"
  /\ conn' = [conn EXCEPT ![c] = "handling"]
  /\ job' = [job EXCEPT ![t] = c]
  /\ keep' = [keep EXCEPT ![t] = FALSE]
  /\ ctime' = [ctime EXCEPT ![t] = now]
  /\ Goto(t, "finish")
  /\ UNCHANGED <<now, limit, shut, last, timer, walk, next, orig, heard>>

\* The callback returns; the slot gets a new limit.
HandlerReturns(t) ==
  /\ pc[t] = "handler"
  /\ keep' \in {[keep EXCEPT ![t] = k] : k \in BOOLEAN}
  /\ limit' = [limit EXCEPT ![job[t]] = now + Timeout]
  /\ active' = [active EXCEPT ![job[t]] = now]
  /\ ctime' = [ctime EXCEPT ![t] = now]
  /\ next' = [next EXCEPT ![t] = now + Timeout]
  /\ Goto(t, "check")
  /\ UNCHANGED <<now, conn, shut, last, timer, walk, job, orig, before>>

\* onion_poller_timer_check; next holds its argument.
Check(t) ==
  /\ pc[t] = "check"
  /\ Goto(t, IF next[t] < current THEN "clock" ELSE "finish")
  /\ UNCHANGED <<now, slots, last, timer, walk, job, keep, locals, heard>>

\* The callback's locals are dead (set back only to keep the state small).
Forget(t) ==
  /\ job' = [job EXCEPT ![t] = Nobody]
  /\ keep' = [keep EXCEPT ![t] = TRUE]
  /\ ctime' = [ctime EXCEPT ![t] = 0]
  /\ next' = [next EXCEPT ![t] = 0]
  /\ orig' = [orig EXCEPT ![t] = 0]

Closed(c) ==
  /\ conn' = [conn EXCEPT ![c] = "closed"]
  /\ limit' = [limit EXCEPT ![c] = Inf]
  /\ shut' = [shut EXCEPT ![c] = FALSE]
  /\ active' = [active EXCEPT ![c] = 0]

\* Back in onion_poller_poll: the slot is enabled again, or removed and closed.
FinishConn(t) ==
  /\ pc[t] = "finish"
  /\ job[t] \in Conns
  /\ IF keep[t]
       THEN /\ conn' = [conn EXCEPT ![job[t]] = "waiting"]
            /\ UNCHANGED <<limit, shut, heard>>
       ELSE /\ scanner = Nobody
            /\ Closed(job[t])
  /\ Forget(t)
  /\ Goto(t, "wait")
  /\ UNCHANGED <<now, last, timer, walk, before>>

\* A bug: the slot of the timerfd is not enabled again.
FinishTimerDisabled(t) ==
  /\ pc[t] = "finish"
  /\ job[t] = Timer
  /\ Forget(t)
  /\ Goto(t, "wait")
  /\ UNCHANGED <<now, slots, last, timer, walk, heard>>

FinishTimer(t) ==
  /\ pc[t] = "finish"
  /\ job[t] = Timer
  /\ enabled' = TRUE
  /\ Forget(t)
  /\ Goto(t, "wait")
  /\ UNCHANGED <<now, slots, last, current, expiry, walk, heard>>

\* The accept callback is done.
FinishAccept(t) ==
  /\ pc[t] = "finish"
  /\ job[t] = Nobody
  /\ Forget(t)
  /\ Goto(t, "wait")
  /\ UNCHANGED <<now, slots, last, timer, walk, heard>>
-----------------------------------------------------------------------------
(* onion_poller_timer *)

\* epoll_wait returns the slot of the timerfd.
TakeTimer(t) ==
  /\ pc[t] = "wait"
  /\ enabled /\ expiry <= now
  /\ enabled' = FALSE
  /\ job' = [job EXCEPT ![t] = Timer]
  /\ ctime' = [ctime EXCEPT ![t] = now]
  /\ Goto(t, "clock")
  /\ UNCHANGED <<now, slots, last, current, expiry, walk, keep, next, orig, heard>>

Clock(t) ==
  /\ pc[t] = "clock"
  /\ ctime' = [ctime EXCEPT ![t] = now]
  /\ next' = [next EXCEPT ![t] = now + Day]
  /\ Goto(t, "last")
  /\ UNCHANGED <<now, slots, last, timer, walk, job, keep, orig, heard>>

\* "Do this only once per second max."
CheckLast(t) ==
  /\ pc[t] = "last"
  /\ Goto(t, IF ctime[t] # last THEN "mark" ELSE "load")
  /\ UNCHANGED <<now, slots, last, timer, walk, job, keep, locals, heard>>

MarkLast(t) ==
  /\ pc[t] = "mark"
  /\ last' = ctime[t]
  /\ Goto(t, "lock")
  /\ UNCHANGED <<now, slots, timer, walk, job, keep, locals, heard>>

Lock(t) ==
  /\ pc[t] = "lock"
  /\ scanner = Nobody
  /\ scanner' = t
  /\ todo' = {c \in Conns : conn[c] # "closed"}
  /\ Goto(t, "scan")
  /\ UNCHANGED <<now, slots, last, timer, victim, job, keep, locals, heard>>

\* A slot over its limit is found...
FindExpired(t) ==
  /\ pc[t] = "scan"
  /\ \E c \in todo :
       /\ OverLimit(c, t)
       /\ victim' = c
       /\ todo' = todo \ {c}
  /\ Goto(t, "shut")
  /\ UNCHANGED <<now, slots, last, timer, scanner, job, keep, locals, heard>>

\* ... and shut.
Shut(t) ==
  /\ pc[t] = "shut"
  /\ limit' = [limit EXCEPT ![victim] = Inf]
  /\ shut' = [shut EXCEPT ![victim] = TRUE]
  /\ victim' = Nobody
  /\ Goto(t, "scan")
  /\ UNCHANGED <<now, conn, last, timer, scanner, todo, job, keep, locals, heard>>

\* A slot within its limit may be the next to expire.
PassOver(t) ==
  /\ pc[t] = "scan"
  /\ \E c \in todo :
       /\ ~OverLimit(c, t)
       /\ todo' = todo \ {c}
       /\ next' = [next EXCEPT ![t] = IF limit[c] < @ THEN limit[c] ELSE @]
  /\ UNCHANGED <<now, slots, last, timer, scanner, victim, pc, job, keep, ctime, orig,
                 heard>>

Unlock(t) ==
  /\ pc[t] = "scan"
  /\ todo = {}
  /\ scanner' = Nobody
  /\ Goto(t, "load")
  /\ UNCHANGED <<now, slots, last, timer, todo, victim, job, keep, locals, heard>>

Load(t) ==
  /\ pc[t] = "load"
  /\ orig' = [orig EXCEPT ![t] = current]
  /\ Goto(t, "cas")
  /\ UNCHANGED <<now, slots, last, timer, walk, job, keep, ctime, next, heard>>

\* __sync_val_compare_and_swap, repeated only when somebody else has stored a
\* later limit meanwhile.
Cas(t) ==
  /\ pc[t] = "cas"
  /\ current' = IF current = orig[t] THEN next[t] ELSE current
  /\ Goto(t, IF current # orig[t] /\ current > next[t] THEN "load" ELSE "settime")
  /\ UNCHANGED <<now, slots, last, expiry, enabled, walk, job, keep, locals, heard>>

\* timerfd_settime is relative, and a zero disarms the timer.
Settime(t) ==
  /\ pc[t] = "settime"
  /\ expiry' = IF next[t] > ctime[t] THEN now + (next[t] - ctime[t]) ELSE Inf
  /\ Goto(t, "finish")
  /\ UNCHANGED <<now, slots, last, current, enabled, walk, job, keep, locals, heard>>
-----------------------------------------------------------------------------
Next ==
  \/ Tick
  \/ \E t \in Threads :
       \/ \E c \in Conns : Accept(t, c) \/ TakeConn(t, c) \/ TakeHangUp(t, c)
       \/ LiftLimit(t) \/ HandlerReturns(t) \/ Check(t)
       \/ FinishConn(t) \/ FinishTimer(t) \/ FinishAccept(t)
       \/ TakeTimer(t) \/ Clock(t) \/ CheckLast(t) \/ MarkLast(t) \/ Lock(t)
       \/ FindExpired(t) \/ Shut(t) \/ PassOver(t) \/ Unlock(t)
       \/ Load(t) \/ Cas(t) \/ Settime(t)

Spec == Init /\ [][Next]_vars
-----------------------------------------------------------------------------
TypeOK ==
  /\ now \in 1..MaxTime
  /\ conn \in [Conns -> {"closed", "waiting", "handling"}]
  /\ limit \in [Conns -> 1..Inf]
  /\ shut \in [Conns -> BOOLEAN]
  /\ last \in 1..MaxTime
  /\ current \in 1..Inf /\ expiry \in 1..Inf /\ enabled \in BOOLEAN
  /\ scanner \in Threads \cup {Nobody}
  /\ todo \subseteq Conns
  /\ pc \in [Threads -> {"wait", "taken", "handler", "check", "finish", "clock", "last",
                         "mark", "lock", "scan", "shut", "load", "cas", "settime"}]
  /\ job \in [Threads -> Conns \cup {Timer, Nobody}]
  /\ keep \in [Threads -> BOOLEAN]
  /\ ctime \in [Threads -> 0..MaxTime]
  /\ next \in [Threads -> 0..Inf] /\ orig \in [Threads -> 0..Inf]
  /\ victim \in Conns \cup {Nobody}
  /\ active \in [Conns -> 0..MaxTime] /\ before \in [Conns -> 0..MaxTime]

Idle(c) == conn[c] = "waiting" /\ ~shut[c]

\* How late a thread may be: a second each to arm the timerfd and to take it,
\* and two ends of a second while it runs the timer code.
Slack == 4

\* Whatever the walks and the stores race to, the timerfd is never disarmed and
\* never set beyond a day: some walk always follows.
TimerAlive == expiry <= now + Day

\* No silent connection stays for ever: although walks are skipped and the
\* timerfd is overwritten, it is shut within a day of its limit.
OverdueAtMostADay == \A c \in Conns : Idle(c) => now <= limit[c] + Day + Slack

\* A thread has taken an event of c and has not yet lifted its limit.
Taking(c) == \E t \in Threads : pc[t] = "taken" /\ job[t] = c

\* A walk gives a connection up only after Timeout seconds without an event, and at the
\* latest within a second of the event that ends them: it may still find the old limit of
\* a connection that has just spoken, but never that of one which spoke in time.
GivesUpOnlyIdle ==
  [][\A c \in Conns : victim # c /\ victim' = c =>
       \/ now >= active[c] + Timeout
       \/ Taking(c) /\ now <= active[c] + 1 /\ now >= before[c] + Timeout]_vars

\* "no timeout when on the handler" (poller.c:548): no connection is shut while its
\* callback runs.
NoTimeoutInHandler ==
  [][\A c \in Conns, t \in Threads :
       pc[t] = "handler" /\ job[t] = c => shut'[c] = shut[c]]_vars
=============================================================================
