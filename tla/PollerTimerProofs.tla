------------------------- MODULE PollerTimerProofs -------------------------
(***************************************************************************)
(* The time limits of poller.c, for any number of threads and connections. *)
(* However the unlocked stores of onion_poller_timer meet: the timerfd is  *)
(* always armed, and within a day (TimerInv); a connection that stays      *)
(* silent is shut at most a day, and the seconds threads take, after its   *)
(* limit (DueInv); and none is shut before its limit (LimitBehind).        *)
(***************************************************************************)
EXTENDS PollerTimer, TLAPS

\* A thread that has computed next_timeout and has not yet armed the timerfd.
Arming == {"last", "mark", "lock", "scan", "shut", "load", "cas", "settime"}

\* next_timeout is later than the walk, and within a day of it.
NextInDay ==
  \A t \in Threads :
    pc[t] \in Arming => 0 < ctime[t] /\ ctime[t] < next[t] /\ next[t] <= ctime[t] + Day

TimerInv == TypeOK /\ NextInDay /\ TimerAlive

\* The constants are numbers, and so is the time nothing reaches.
LEMMA InfNat ==
  /\ Timeout \in Nat /\ Timeout > 0 /\ Day \in Nat /\ Day > 0 /\ MaxTime \in Nat /\ MaxTime > 0
  /\ Inf \in Nat /\ Inf = MaxTime + Timeout + Day + 2
BY TimerAssumption DEF Inf

\* An update keeps the type of a function, in its domain or not.
LEMMA UpdateTyped ==
  ASSUME NEW A, NEW S, NEW f \in [A -> S], NEW a, NEW v \in S
  PROVE  [f EXCEPT ![a] = v] \in [A -> S]
OBVIOUS

\* onion_poller_new has armed the timerfd for a day.
LEMMA InitHolds == Init => TimerInv
BY InfNat, TimerAssumption DEF Init, TimerInv, TypeOK, NextInDay, Arming, TimerAlive

\* Time passes: what was armed is only nearer.
LEMMA TickKeeps == TimerInv /\ Tick => TimerInv'
BY InfNat DEF Tick, slots, heard, timer, walk, locals, TimerInv, TypeOK, NextInDay, TimerAlive

\* Connections come, are served and go; a thread that sets a limit enters
\* onion_poller_timer_check.
LEMMA ConnectionKeeps ==
  ASSUME TimerInv, NEW t \in Threads,
         \/ \E c \in Conns : Accept(t, c) \/ TakeConn(t, c) \/ TakeHangUp(t, c)
         \/ LiftLimit(t) \/ HandlerReturns(t) \/ Check(t)
         \/ FinishConn(t) \/ FinishTimer(t) \/ FinishAccept(t)
  PROVE  TimerInv'
<1> USE InfNat DEF slots, heard, timer, walk, locals, Goto, TimerInv, TypeOK, NextInDay, Arming,
                   TimerAlive
<1>1. ASSUME NEW c \in Conns, Accept(t, c) PROVE TimerInv'
  BY <1>1 DEF Accept
<1>2. ASSUME NEW c \in Conns, TakeConn(t, c) PROVE TimerInv'
  BY <1>2 DEF TakeConn
<1>3. ASSUME NEW c \in Conns, TakeHangUp(t, c) PROVE TimerInv'
  BY <1>3 DEF TakeHangUp
<1>3a. CASE LiftLimit(t)
  <2>1. TypeOK'
    <3>1. limit' \in [Conns -> 1..Inf]
      BY <1>3a, Inf \in 1..Inf, UpdateTyped DEF LiftLimit
    <3>2. before' \in [Conns -> 0..MaxTime]
      BY <1>3a, 0 \in 0..MaxTime, UpdateTyped DEF LiftLimit
    <3>3. ctime' \in [Threads -> 0..MaxTime] /\ pc' = [pc EXCEPT ![t] = "handler"]
      BY <1>3a DEF LiftLimit
    <3> QED
      BY <1>3a, <3>1, <3>2, <3>3 DEF LiftLimit
  <2>2. NextInDay'
    BY <1>3a DEF LiftLimit
  <2>3. TimerAlive'
    BY <1>3a DEF LiftLimit
  <2> QED
    BY <2>1, <2>2, <2>3
<1>4. CASE HandlerReturns(t)
  <2>1. TypeOK'
    <3>1. keep' \in [Threads -> BOOLEAN]
      BY <1>4 DEF HandlerReturns
    <3>2. limit' \in [Conns -> 1..Inf]
      BY <1>4, now + Timeout \in 1..Inf, UpdateTyped DEF HandlerReturns
    <3>3. active' \in [Conns -> 0..MaxTime]
      BY <1>4, now \in 0..MaxTime, UpdateTyped DEF HandlerReturns
    <3>4. ctime' \in [Threads -> 0..MaxTime] /\ next' \in [Threads -> 0..Inf]
      BY <1>4 DEF HandlerReturns
    <3> QED
      BY <1>4, <3>1, <3>2, <3>3, <3>4 DEF HandlerReturns
  <2>2. NextInDay'
    BY <1>4 DEF HandlerReturns
  <2>3. TimerAlive'
    BY <1>4 DEF HandlerReturns
  <2> QED
    BY <2>1, <2>2, <2>3
<1>5. CASE Check(t)
  <2>1. pc[t] = "check" /\ pc' = [pc EXCEPT ![t] = IF next[t] < current THEN "clock" ELSE "finish"]
    BY <1>5 DEF Check
  <2> QED
    BY <1>5, <2>1 DEF Check
<1>6. CASE FinishConn(t)
  <2>1. TypeOK'
    <3>1. conn' \in [Conns -> {"closed", "waiting", "handling"}]
      BY <1>6 DEF FinishConn, Forget, Closed
    <3>2. limit' \in [Conns -> 1..Inf] /\ active' \in [Conns -> 0..MaxTime]
      BY <1>6 DEF FinishConn, Forget, Closed
    <3>3. shut' \in [Conns -> BOOLEAN]
      BY <1>6 DEF FinishConn, Forget, Closed
    <3>4. keep' \in [Threads -> BOOLEAN]
      BY <1>6 DEF FinishConn, Forget, Closed
    <3>5. job' \in [Threads -> Conns \cup {Timer, Nobody}]
      BY <1>6 DEF FinishConn, Forget, Closed
    <3> QED
      BY <1>6, <3>1, <3>2, <3>3, <3>4, <3>5 DEF FinishConn, Forget, Closed
  <2>2. NextInDay'
    BY <1>6 DEF FinishConn, Forget, Closed
  <2>3. TimerAlive'
    BY <1>6 DEF FinishConn, Forget, Closed
  <2> QED
    BY <2>1, <2>2, <2>3
<1>7. CASE FinishTimer(t)
  BY <1>7 DEF FinishTimer, Forget
<1>8. CASE FinishAccept(t)
  BY <1>8 DEF FinishAccept, Forget
<1> QED
  BY <1>1, <1>2, <1>3, <1>3a, <1>4, <1>5, <1>6, <1>7, <1>8

\* onion_poller_timer: next_timeout stays later than the walk, because a slot
\* that is not over its limit expires later than the walk.
LEMMA TimerKeeps ==
  ASSUME TimerInv, NEW t \in Threads,
         \/ TakeTimer(t) \/ Clock(t) \/ CheckLast(t) \/ MarkLast(t) \/ Lock(t)
         \/ FindExpired(t) \/ Shut(t) \/ PassOver(t) \/ Unlock(t)
         \/ Load(t) \/ Cas(t) \/ Settime(t)
  PROVE  TimerInv'
<1> USE InfNat DEF slots, heard, timer, walk, locals, Goto, TimerInv, TypeOK, NextInDay, Arming,
                   TimerAlive
<1>1. CASE TakeTimer(t)
  <2>1. TypeOK'
    <3>1. job' \in [Threads -> Conns \cup {Timer, Nobody}]
      BY <1>1 DEF TakeTimer
    <3>2. ctime' \in [Threads -> 0..MaxTime]
      BY <1>1 DEF TakeTimer
    <3>3. pc' = [pc EXCEPT ![t] = "clock"]
      BY <1>1 DEF TakeTimer
    <3> QED
      BY <1>1, <3>1, <3>2, <3>3 DEF TakeTimer
  <2>2. NextInDay'
    BY <1>1 DEF TakeTimer
  <2>3. TimerAlive'
    BY <1>1 DEF TakeTimer
  <2> QED
    BY <2>1, <2>2, <2>3
<1>2. CASE Clock(t)
  BY <1>2 DEF Clock
<1>3. CASE CheckLast(t)
  BY <1>3 DEF CheckLast
<1>4. CASE MarkLast(t)
  BY <1>4 DEF MarkLast
<1>5. CASE Lock(t)
  BY <1>5 DEF Lock
<1>6. CASE FindExpired(t)
  BY <1>6 DEF FindExpired
<1>7. CASE Shut(t)
  <2>1. TypeOK'
    <3>1. limit' \in [Conns -> 1..Inf]
      BY <1>7, Inf \in 1..Inf, UpdateTyped DEF Shut
    <3>2. shut' \in [Conns -> BOOLEAN]
      BY <1>7 DEF Shut
    <3>3. pc' = [pc EXCEPT ![t] = "scan"]
      BY <1>7 DEF Shut
    <3> QED
      BY <1>7, <3>1, <3>2, <3>3 DEF Shut
  <2>2. NextInDay'
    BY <1>7 DEF Shut
  <2>3. TimerAlive'
    BY <1>7 DEF Shut
  <2> QED
    BY <2>1, <2>2, <2>3
<1>8. CASE PassOver(t)
  BY <1>8 DEF PassOver, OverLimit
<1>9. CASE Unlock(t)
  BY <1>9 DEF Unlock
<1>10. CASE Load(t)
  BY <1>10 DEF Load
<1>11. CASE Cas(t)
  BY <1>11 DEF Cas
<1>12. CASE Settime(t)
  BY <1>12 DEF Settime
<1> QED
  BY <1>1, <1>2, <1>3, <1>4, <1>5, <1>6, <1>7, <1>8, <1>9, <1>10, <1>11, <1>12

\* A stutter changes nothing.
LEMMA StutterKeeps == TimerInv /\ UNCHANGED vars => TimerInv'
BY DEF vars, TimerInv, TypeOK, NextInDay, TimerAlive, Arming

\* The invariant holds in every reachable state.
THEOREM TimerInvHolds == Spec => []TimerInv
<1>1. Init => TimerInv
  BY InitHolds
<1>2. TimerInv /\ [Next]_vars => TimerInv'
  BY TickKeeps, ConnectionKeeps, TimerKeeps, StutterKeeps DEF Next
<1> QED
  BY <1>1, <1>2, PTL DEF Spec

\* The variables keep their types: in particular no limit, and no time the
\* timerfd is armed for, leaves the range of the clock.
THEOREM TypesHold == Spec => []TypeOK
BY TimerInvHolds, PTL DEF TimerInv

\* The timerfd is never disarmed (a zero it_value) and never set beyond a day.
THEOREM TimerAliveHolds == Spec => []TimerAlive
BY TimerInvHolds, PTL DEF TimerInv
-----------------------------------------------------------------------------
(* When a silent connection is shut.  A walk that begins at or after the limit *)
(* of a slot shuts it, and the timerfd brings one within a day of the limit:   *)
(* whoever sets it later than that knows of such a walk.                       *)

\* The walk of t has still to come to the slot of c, and will find it over its limit.
Walking(t, c) ==
  /\ limit[c] <= ctime[t]
  /\ \/ pc[t] = "lock"
     \/ pc[t] \in {"scan", "shut"} /\ c \in todo
     \/ pc[t] = "shut" /\ c = victim

Doomed(c) == \E t \in Threads : Walking(t, c)

\* One second may end while a thread runs timer code.
Clocked ==
  /\ \A t \in Threads : InTimerCode(t) => ctime[t] <= now /\ now <= ctime[t] + 1
  /\ last <= now

\* Who walks, who has the slot of the timerfd or of a connection, and which slots have
\* a limit.
Owners ==
  /\ \A t \in Threads : pc[t] \in {"scan", "shut"} <=> scanner = t
  /\ \A t \in Threads : job[t] = Timer => pc[t] \in Arming \cup {"clock", "finish"}
  /\ ~enabled => \E t \in Threads : job[t] = Timer
  /\ \A t \in Threads :
       /\ pc[t] \in {"taken", "handler"} => job[t] \in Conns
       /\ job[t] \in Conns => conn[job[t]] = "handling"
       /\ \A u \in Threads : job[t] \in Conns /\ job[u] = job[t] => u = t
  /\ \A c \in Conns : conn[c] = "closed" => limit[c] = Inf

\* A walk skips nothing: neither the one that has marked its second as walked, nor one that
\* is done or was left to it.
Walked(c) ==
  /\ limit[c] <= last => Doomed(c)
  /\ \A t \in Threads :
       /\ pc[t] \in {"scan", "shut"} /\ limit[c] <= ctime[t] => Walking(t, c)
       /\ pc[t] \in {"load", "cas", "settime"} /\ limit[c] <= ctime[t] => Doomed(c)

\* An enabled timerfd is taken within a second, and when its slot is enabled again it has
\* been armed anew.
Taken ==
  /\ enabled => now <= expiry + 1
  /\ \A t \in Threads : job[t] = Timer /\ pc[t] = "finish" => ctime[t] < expiry

\* The timerfd expires within a day of every limit, or a walk is under way.
Armed(c) ==
  \/ Doomed(c)
  \/ /\ expiry <= limit[c] + Day
     /\ \A t \in Threads :
          job[t] = Timer => ctime[t] <= limit[c] + Day + (IF pc[t] = "clock" THEN 1 ELSE 2)

\* Hence the time of the walk.
InTime(c) ==
  \/ now <= limit[c] + Day + 3
  \/ \E t \in Threads : Walking(t, c) /\ ctime[t] <= limit[c] + Day + 3

DueInv ==
  /\ Clocked /\ Owners /\ Taken
  /\ \A c \in Conns : Walked(c) /\ Armed(c) /\ InTime(c)

\* A limit is Timeout seconds behind the last event, or behind the last but one, when a
\* thread has just taken the last.
LimitBehind ==
  \A c \in Conns :
    \/ active[c] + Timeout <= limit[c]
    \/ \E t \in Threads :
         /\ pc[t] = "taken" /\ job[t] = c /\ active[c] = ctime[t]
         /\ before[c] + Timeout <= limit[c]

\* Nobody lets two seconds pass in timer code.
LEMMA ClockedStep ==
  ASSUME TimerInv, TimerInv', Clocked, [Next]_vars
  PROVE  Clocked'
<1> USE InfNat, TimerAssumption
    DEF slots, heard, timer, walk, locals, Goto, TimerInv, TypeOK, Clocked, InTimerCode
<1>1. CASE Tick
  BY <1>1 DEF Tick
<1>2. ASSUME NEW t \in Threads, NEW d \in Conns, Accept(t, d) PROVE Clocked'
  BY <1>2 DEF Accept
<1>3. ASSUME NEW t \in Threads, NEW d \in Conns, TakeConn(t, d) PROVE Clocked'
  BY <1>3 DEF TakeConn
<1>4. ASSUME NEW t \in Threads, NEW d \in Conns, TakeHangUp(t, d) PROVE Clocked'
  BY <1>4 DEF TakeHangUp
<1>4a. ASSUME NEW t \in Threads, LiftLimit(t) PROVE Clocked'
  BY <1>4a DEF LiftLimit
<1>5. ASSUME NEW t \in Threads, HandlerReturns(t) PROVE Clocked'
  BY <1>5 DEF HandlerReturns
<1>6. ASSUME NEW t \in Threads, Check(t) PROVE Clocked'
  BY <1>6 DEF Check
<1>7. ASSUME NEW t \in Threads, FinishConn(t) PROVE Clocked'
  BY <1>7 DEF FinishConn, Forget, Closed
<1>8. ASSUME NEW t \in Threads, FinishTimer(t) PROVE Clocked'
  BY <1>8 DEF FinishTimer, Forget
<1>9. ASSUME NEW t \in Threads, FinishAccept(t) PROVE Clocked'
  BY <1>9 DEF FinishAccept, Forget
<1>10. ASSUME NEW t \in Threads, TakeTimer(t) PROVE Clocked'
  BY <1>10 DEF TakeTimer
<1>11. ASSUME NEW t \in Threads, Clock(t) PROVE Clocked'
  BY <1>11 DEF Clock
<1>12. ASSUME NEW t \in Threads, CheckLast(t) PROVE Clocked'
  BY <1>12 DEF CheckLast
<1>13. ASSUME NEW t \in Threads, MarkLast(t) PROVE Clocked'
  BY <1>13 DEF MarkLast
<1>14. ASSUME NEW t \in Threads, Lock(t) PROVE Clocked'
  BY <1>14 DEF Lock
<1>15. ASSUME NEW t \in Threads, FindExpired(t) PROVE Clocked'
  BY <1>15 DEF FindExpired, OverLimit
<1>16. ASSUME NEW t \in Threads, Shut(t) PROVE Clocked'
  BY <1>16 DEF Shut
<1>17. ASSUME NEW t \in Threads, PassOver(t) PROVE Clocked'
  BY <1>17 DEF PassOver, OverLimit
<1>18. ASSUME NEW t \in Threads, Unlock(t) PROVE Clocked'
  BY <1>18 DEF Unlock
<1>19. ASSUME NEW t \in Threads, Load(t) PROVE Clocked'
  BY <1>19 DEF Load
<1>20. ASSUME NEW t \in Threads, Cas(t) PROVE Clocked'
  BY <1>20 DEF Cas
<1>21. ASSUME NEW t \in Threads, Settime(t) PROVE Clocked'
  BY <1>21 DEF Settime
<1>22. CASE UNCHANGED vars
  BY <1>22 DEF vars
<1> QED
  BY ONLY <1>1, <1>2, <1>3, <1>4, <1>4a, <1>5, <1>6, <1>7, <1>8, <1>9, <1>10, <1>11, <1>12,
     <1>13, <1>14, <1>15, <1>16, <1>17, <1>18, <1>19, <1>20, <1>21, <1>22,
     [Next]_vars DEF Next

\* The mutex, the slot of the timerfd and the limits keep their owners.
LEMMA OwnersStep ==
  ASSUME TimerInv, TimerInv', Owners, [Next]_vars
  PROVE  Owners'
<1> USE InfNat, TimerAssumption
    DEF slots, heard, timer, walk, locals, Goto, TimerInv, TypeOK, Owners, Arming, InTimerCode, Timer
<1>1. CASE Tick
  BY <1>1 DEF Tick
<1>2. ASSUME NEW t \in Threads, NEW d \in Conns, Accept(t, d) PROVE Owners'
  <2>1. \A u \in Threads : pc'[u] \in {"scan", "shut"} <=> scanner' = u
    BY <1>2 DEF Accept
  <2>2. \A u \in Threads : job'[u] = Timer => pc'[u] \in Arming \cup {"clock", "finish"}
    BY <1>2 DEF Accept
  <2>3. ~enabled' => \E u \in Threads : job'[u] = Timer
    BY <1>2 DEF Accept
  <2>4. \A u \in Threads :
          /\ pc'[u] \in {"taken", "handler"} => job'[u] \in Conns
          /\ job'[u] \in Conns => conn'[job'[u]] = "handling"
    BY <1>2 DEF Accept
  <2>5. \A u, v \in Threads : job'[u] \in Conns /\ job'[v] = job'[u] => v = u
    BY <1>2 DEF Accept
  <2>6. \A c \in Conns : conn'[c] = "closed" => limit'[c] = Inf
    BY <1>2 DEF Accept
  <2> QED
    BY ONLY <2>1, <2>2, <2>3, <2>4, <2>5, <2>6 DEF Owners
<1>3. ASSUME NEW t \in Threads, NEW d \in Conns, TakeConn(t, d) PROVE Owners'
  <2>1. \A u \in Threads : pc'[u] \in {"scan", "shut"} <=> scanner' = u
    BY <1>3 DEF TakeConn
  <2>2. \A u \in Threads : job'[u] = Timer => pc'[u] \in Arming \cup {"clock", "finish"}
    BY <1>3 DEF TakeConn
  <2>3. ~enabled' => \E u \in Threads : job'[u] = Timer
    BY <1>3 DEF TakeConn
  <2>4. \A u \in Threads :
          /\ pc'[u] \in {"taken", "handler"} => job'[u] \in Conns
          /\ job'[u] \in Conns => conn'[job'[u]] = "handling"
    BY <1>3 DEF TakeConn
  <2>5. \A u, v \in Threads : job'[u] \in Conns /\ job'[v] = job'[u] => v = u
    BY <1>3 DEF TakeConn
  <2>6. \A c \in Conns : conn'[c] = "closed" => limit'[c] = Inf
    BY <1>3 DEF TakeConn
  <2> QED
    BY ONLY <2>1, <2>2, <2>3, <2>4, <2>5, <2>6 DEF Owners
<1>4. ASSUME NEW t \in Threads, NEW d \in Conns, TakeHangUp(t, d) PROVE Owners'
  <2>1. \A u \in Threads : pc'[u] \in {"scan", "shut"} <=> scanner' = u
    BY <1>4 DEF TakeHangUp
  <2>2. \A u \in Threads : job'[u] = Timer => pc'[u] \in Arming \cup {"clock", "finish"}
    BY <1>4 DEF TakeHangUp
  <2>3. ~enabled' => \E u \in Threads : job'[u] = Timer
    BY <1>4 DEF TakeHangUp
  <2>4. \A u \in Threads :
          /\ pc'[u] \in {"taken", "handler"} => job'[u] \in Conns
          /\ job'[u] \in Conns => conn'[job'[u]] = "handling"
    BY <1>4 DEF TakeHangUp
  <2>5. \A u, v \in Threads : job'[u] \in Conns /\ job'[v] = job'[u] => v = u
    BY <1>4 DEF TakeHangUp
  <2>6. \A c \in Conns : conn'[c] = "closed" => limit'[c] = Inf
    BY <1>4 DEF TakeHangUp
  <2> QED
    BY ONLY <2>1, <2>2, <2>3, <2>4, <2>5, <2>6 DEF Owners
<1>4a. ASSUME NEW t \in Threads, LiftLimit(t) PROVE Owners'
  <2>1. \A u \in Threads : pc'[u] \in {"scan", "shut"} <=> scanner' = u
    BY <1>4a DEF LiftLimit
  <2>2. \A u \in Threads : job'[u] = Timer => pc'[u] \in Arming \cup {"clock", "finish"}
    BY <1>4a DEF LiftLimit
  <2>3. ~enabled' => \E u \in Threads : job'[u] = Timer
    BY <1>4a DEF LiftLimit
  <2>4. \A u \in Threads :
          /\ pc'[u] \in {"taken", "handler"} => job'[u] \in Conns
          /\ job'[u] \in Conns => conn'[job'[u]] = "handling"
    BY <1>4a DEF LiftLimit
  <2>5. \A u, v \in Threads : job'[u] \in Conns /\ job'[v] = job'[u] => v = u
    BY <1>4a DEF LiftLimit
  <2>6. \A c \in Conns : conn'[c] = "closed" => limit'[c] = Inf
    BY <1>4a DEF LiftLimit
  <2> QED
    BY ONLY <2>1, <2>2, <2>3, <2>4, <2>5, <2>6 DEF Owners
<1>5. ASSUME NEW t \in Threads, HandlerReturns(t) PROVE Owners'
  <2>1. \A u \in Threads : pc'[u] \in {"scan", "shut"} <=> scanner' = u
    BY <1>5 DEF HandlerReturns
  <2>2. \A u \in Threads : job'[u] = Timer => pc'[u] \in Arming \cup {"clock", "finish"}
    BY <1>5 DEF HandlerReturns
  <2>3. ~enabled' => \E u \in Threads : job'[u] = Timer
    BY <1>5 DEF HandlerReturns
  <2>4. \A u \in Threads :
          /\ pc'[u] \in {"taken", "handler"} => job'[u] \in Conns
          /\ job'[u] \in Conns => conn'[job'[u]] = "handling"
    BY <1>5 DEF HandlerReturns
  <2>5. \A u, v \in Threads : job'[u] \in Conns /\ job'[v] = job'[u] => v = u
    BY <1>5 DEF HandlerReturns
  <2>6. \A c \in Conns : conn'[c] = "closed" => limit'[c] = Inf
    BY <1>5 DEF HandlerReturns
  <2> QED
    BY ONLY <2>1, <2>2, <2>3, <2>4, <2>5, <2>6 DEF Owners
<1>6. ASSUME NEW t \in Threads, Check(t) PROVE Owners'
  BY <1>6 DEF Check
<1>7. ASSUME NEW t \in Threads, FinishConn(t) PROVE Owners'
  <2>1. \A u \in Threads : pc'[u] \in {"scan", "shut"} <=> scanner' = u
    BY <1>7 DEF FinishConn, Forget, Closed
  <2>2. \A u \in Threads : job'[u] = Timer => pc'[u] \in Arming \cup {"clock", "finish"}
    BY <1>7 DEF FinishConn, Forget, Closed
  <2>3. ~enabled' => \E u \in Threads : job'[u] = Timer
    BY <1>7 DEF FinishConn, Forget, Closed
  <2>4. \A u \in Threads :
          /\ pc'[u] \in {"taken", "handler"} => job'[u] \in Conns
          /\ job'[u] \in Conns => conn'[job'[u]] = "handling"
    BY <1>7 DEF FinishConn, Forget, Closed
  <2>5. \A u, v \in Threads : job'[u] \in Conns /\ job'[v] = job'[u] => v = u
    BY <1>7 DEF FinishConn, Forget, Closed
  <2>6. \A c \in Conns : conn'[c] = "closed" => limit'[c] = Inf
    BY <1>7 DEF FinishConn, Forget, Closed
  <2> QED
    BY ONLY <2>1, <2>2, <2>3, <2>4, <2>5, <2>6 DEF Owners
<1>8. ASSUME NEW t \in Threads, FinishTimer(t) PROVE Owners'
  <2>1. \A u \in Threads : pc'[u] \in {"scan", "shut"} <=> scanner' = u
    BY <1>8 DEF FinishTimer, Forget
  <2>2. \A u \in Threads : job'[u] = Timer => pc'[u] \in Arming \cup {"clock", "finish"}
    BY <1>8 DEF FinishTimer, Forget
  <2>3. ~enabled' => \E u \in Threads : job'[u] = Timer
    BY <1>8 DEF FinishTimer, Forget
  <2>4. \A u \in Threads :
          /\ pc'[u] \in {"taken", "handler"} => job'[u] \in Conns
          /\ job'[u] \in Conns => conn'[job'[u]] = "handling"
    BY <1>8 DEF FinishTimer, Forget
  <2>5. \A u, v \in Threads : job'[u] \in Conns /\ job'[v] = job'[u] => v = u
    BY <1>8 DEF FinishTimer, Forget
  <2>6. \A c \in Conns : conn'[c] = "closed" => limit'[c] = Inf
    BY <1>8 DEF FinishTimer, Forget
  <2> QED
    BY ONLY <2>1, <2>2, <2>3, <2>4, <2>5, <2>6 DEF Owners
<1>9. ASSUME NEW t \in Threads, FinishAccept(t) PROVE Owners'
  <2>1. \A u \in Threads : pc'[u] \in {"scan", "shut"} <=> scanner' = u
    BY <1>9 DEF FinishAccept, Forget
  <2>2. \A u \in Threads : job'[u] = Timer => pc'[u] \in Arming \cup {"clock", "finish"}
    BY <1>9 DEF FinishAccept, Forget
  <2>3. ~enabled' => \E u \in Threads : job'[u] = Timer
    BY <1>9 DEF FinishAccept, Forget
  <2>4. \A u \in Threads :
          /\ pc'[u] \in {"taken", "handler"} => job'[u] \in Conns
          /\ job'[u] \in Conns => conn'[job'[u]] = "handling"
    BY <1>9 DEF FinishAccept, Forget
  <2>5. \A u, v \in Threads : job'[u] \in Conns /\ job'[v] = job'[u] => v = u
    BY <1>9 DEF FinishAccept, Forget
  <2>6. \A c \in Conns : conn'[c] = "closed" => limit'[c] = Inf
    BY <1>9 DEF FinishAccept, Forget
  <2> QED
    BY ONLY <2>1, <2>2, <2>3, <2>4, <2>5, <2>6 DEF Owners
<1>10. ASSUME NEW t \in Threads, TakeTimer(t) PROVE Owners'
  BY <1>10 DEF TakeTimer
<1>11. ASSUME NEW t \in Threads, Clock(t) PROVE Owners'
  BY <1>11 DEF Clock
<1>12. ASSUME NEW t \in Threads, CheckLast(t) PROVE Owners'
  BY <1>12 DEF CheckLast
<1>13. ASSUME NEW t \in Threads, MarkLast(t) PROVE Owners'
  BY <1>13 DEF MarkLast
<1>14. ASSUME NEW t \in Threads, Lock(t) PROVE Owners'
  BY <1>14 DEF Lock
<1>15. ASSUME NEW t \in Threads, FindExpired(t) PROVE Owners'
  BY <1>15 DEF FindExpired, OverLimit
<1>16. ASSUME NEW t \in Threads, Shut(t) PROVE Owners'
  BY <1>16 DEF Shut
<1>17. ASSUME NEW t \in Threads, PassOver(t) PROVE Owners'
  BY <1>17 DEF PassOver, OverLimit
<1>18. ASSUME NEW t \in Threads, Unlock(t) PROVE Owners'
  BY <1>18 DEF Unlock
<1>19. ASSUME NEW t \in Threads, Load(t) PROVE Owners'
  BY <1>19 DEF Load
<1>20. ASSUME NEW t \in Threads, Cas(t) PROVE Owners'
  BY <1>20 DEF Cas
<1>21. ASSUME NEW t \in Threads, Settime(t) PROVE Owners'
  BY <1>21 DEF Settime
<1>22. CASE UNCHANGED vars
  BY <1>22 DEF vars
<1> QED
  BY ONLY <1>1, <1>2, <1>3, <1>4, <1>4a, <1>5, <1>6, <1>7, <1>8, <1>9, <1>10, <1>11, <1>12,
     <1>13, <1>14, <1>15, <1>16, <1>17, <1>18, <1>19, <1>20, <1>21, <1>22,
     [Next]_vars DEF Next

\* A limit is kept, or moves behind the clock.
LEMMA LimitStep ==
  ASSUME TimerInv, TimerInv', [Next]_vars, NEW c \in Conns
  PROVE  limit'[c] = limit[c] \/ now' < limit'[c]
<1> USE InfNat, TimerAssumption
    DEF slots, heard, timer, walk, locals, Goto, TimerInv, TypeOK
<1>1. CASE Tick
  BY <1>1 DEF Tick
<1>2. ASSUME NEW t \in Threads, NEW d \in Conns, Accept(t, d)
      PROVE  limit'[c] = limit[c] \/ now' < limit'[c]
  BY <1>2 DEF Accept
<1>3. ASSUME NEW t \in Threads, NEW d \in Conns, TakeConn(t, d)
      PROVE  limit'[c] = limit[c] \/ now' < limit'[c]
  BY <1>3 DEF TakeConn
<1>4. ASSUME NEW t \in Threads, NEW d \in Conns, TakeHangUp(t, d)
      PROVE  limit'[c] = limit[c] \/ now' < limit'[c]
  BY <1>4 DEF TakeHangUp
<1>4a. ASSUME NEW t \in Threads, LiftLimit(t) PROVE limit'[c] = limit[c] \/ now' < limit'[c]
  BY <1>4a DEF LiftLimit
<1>5. ASSUME NEW t \in Threads, HandlerReturns(t) PROVE limit'[c] = limit[c] \/ now' < limit'[c]
  BY <1>5 DEF HandlerReturns
<1>6. ASSUME NEW t \in Threads, Check(t) PROVE limit'[c] = limit[c] \/ now' < limit'[c]
  BY <1>6 DEF Check
<1>7. ASSUME NEW t \in Threads, FinishConn(t) PROVE limit'[c] = limit[c] \/ now' < limit'[c]
  BY <1>7 DEF FinishConn, Forget, Closed
<1>8. ASSUME NEW t \in Threads, FinishTimer(t) PROVE limit'[c] = limit[c] \/ now' < limit'[c]
  BY <1>8 DEF FinishTimer, Forget
<1>9. ASSUME NEW t \in Threads, FinishAccept(t) PROVE limit'[c] = limit[c] \/ now' < limit'[c]
  BY <1>9 DEF FinishAccept, Forget
<1>10. ASSUME NEW t \in Threads, TakeTimer(t) PROVE limit'[c] = limit[c] \/ now' < limit'[c]
  BY <1>10 DEF TakeTimer
<1>11. ASSUME NEW t \in Threads, Clock(t) PROVE limit'[c] = limit[c] \/ now' < limit'[c]
  BY <1>11 DEF Clock
<1>12. ASSUME NEW t \in Threads, CheckLast(t) PROVE limit'[c] = limit[c] \/ now' < limit'[c]
  BY <1>12 DEF CheckLast
<1>13. ASSUME NEW t \in Threads, MarkLast(t) PROVE limit'[c] = limit[c] \/ now' < limit'[c]
  BY <1>13 DEF MarkLast
<1>14. ASSUME NEW t \in Threads, Lock(t) PROVE limit'[c] = limit[c] \/ now' < limit'[c]
  BY <1>14 DEF Lock
<1>15. ASSUME NEW t \in Threads, FindExpired(t) PROVE limit'[c] = limit[c] \/ now' < limit'[c]
  BY <1>15 DEF FindExpired, OverLimit
<1>16. ASSUME NEW t \in Threads, Shut(t) PROVE limit'[c] = limit[c] \/ now' < limit'[c]
  BY <1>16 DEF Shut
<1>17. ASSUME NEW t \in Threads, PassOver(t) PROVE limit'[c] = limit[c] \/ now' < limit'[c]
  BY <1>17 DEF PassOver, OverLimit
<1>18. ASSUME NEW t \in Threads, Unlock(t) PROVE limit'[c] = limit[c] \/ now' < limit'[c]
  BY <1>18 DEF Unlock
<1>19. ASSUME NEW t \in Threads, Load(t) PROVE limit'[c] = limit[c] \/ now' < limit'[c]
  BY <1>19 DEF Load
<1>20. ASSUME NEW t \in Threads, Cas(t) PROVE limit'[c] = limit[c] \/ now' < limit'[c]
  BY <1>20 DEF Cas
<1>21. ASSUME NEW t \in Threads, Settime(t) PROVE limit'[c] = limit[c] \/ now' < limit'[c]
  BY <1>21 DEF Settime
<1>22. CASE UNCHANGED vars
  BY <1>22 DEF vars
<1> QED
  BY ONLY <1>1, <1>2, <1>3, <1>4, <1>4a, <1>5, <1>6, <1>7, <1>8, <1>9, <1>10, <1>11, <1>12,
     <1>13, <1>14, <1>15, <1>16, <1>17, <1>18, <1>19, <1>20, <1>21, <1>22,
     [Next]_vars DEF Next

\* A walk that is to find a slot over its limit goes on until it has.
LEMMA WalkingStep ==
  ASSUME TimerInv, TimerInv', Clocked, Owners, [Next]_vars,
         NEW u \in Threads, NEW c \in Conns, Walking(u, c)
  PROVE  (Walking(u, c)' /\ ctime'[u] = ctime[u]) \/ now' < limit'[c]
<1> USE InfNat, TimerAssumption
    DEF slots, heard, timer, walk, locals, Goto, TimerInv, TypeOK, Walking, Clocked, Owners, InTimerCode
<1>1. CASE Tick
  BY <1>1 DEF Tick
<1>2. ASSUME NEW t \in Threads, NEW d \in Conns, Accept(t, d)
      PROVE  (Walking(u, c)' /\ ctime'[u] = ctime[u]) \/ now' < limit'[c]
  BY <1>2 DEF Accept
<1>3. ASSUME NEW t \in Threads, NEW d \in Conns, TakeConn(t, d)
      PROVE  (Walking(u, c)' /\ ctime'[u] = ctime[u]) \/ now' < limit'[c]
  BY <1>3 DEF TakeConn
<1>4. ASSUME NEW t \in Threads, NEW d \in Conns, TakeHangUp(t, d)
      PROVE  (Walking(u, c)' /\ ctime'[u] = ctime[u]) \/ now' < limit'[c]
  BY <1>4 DEF TakeHangUp
<1>4a. ASSUME NEW t \in Threads, LiftLimit(t)
      PROVE  (Walking(u, c)' /\ ctime'[u] = ctime[u]) \/ now' < limit'[c]
  BY <1>4a DEF LiftLimit
<1>5. ASSUME NEW t \in Threads, HandlerReturns(t)
      PROVE  (Walking(u, c)' /\ ctime'[u] = ctime[u]) \/ now' < limit'[c]
  BY <1>5 DEF HandlerReturns
<1>6. ASSUME NEW t \in Threads, Check(t)
      PROVE  (Walking(u, c)' /\ ctime'[u] = ctime[u]) \/ now' < limit'[c]
  BY <1>6 DEF Check
<1>7. ASSUME NEW t \in Threads, FinishConn(t)
      PROVE  (Walking(u, c)' /\ ctime'[u] = ctime[u]) \/ now' < limit'[c]
  BY <1>7 DEF FinishConn, Forget, Closed
<1>8. ASSUME NEW t \in Threads, FinishTimer(t)
      PROVE  (Walking(u, c)' /\ ctime'[u] = ctime[u]) \/ now' < limit'[c]
  BY <1>8 DEF FinishTimer, Forget
<1>9. ASSUME NEW t \in Threads, FinishAccept(t)
      PROVE  (Walking(u, c)' /\ ctime'[u] = ctime[u]) \/ now' < limit'[c]
  BY <1>9 DEF FinishAccept, Forget
<1>10. ASSUME NEW t \in Threads, TakeTimer(t)
       PROVE  (Walking(u, c)' /\ ctime'[u] = ctime[u]) \/ now' < limit'[c]
  BY <1>10 DEF TakeTimer
<1>11. ASSUME NEW t \in Threads, Clock(t)
       PROVE  (Walking(u, c)' /\ ctime'[u] = ctime[u]) \/ now' < limit'[c]
  BY <1>11 DEF Clock
<1>12. ASSUME NEW t \in Threads, CheckLast(t)
       PROVE  (Walking(u, c)' /\ ctime'[u] = ctime[u]) \/ now' < limit'[c]
  BY <1>12 DEF CheckLast
<1>13. ASSUME NEW t \in Threads, MarkLast(t)
       PROVE  (Walking(u, c)' /\ ctime'[u] = ctime[u]) \/ now' < limit'[c]
  BY <1>13 DEF MarkLast
<1>14. ASSUME NEW t \in Threads, Lock(t)
       PROVE  (Walking(u, c)' /\ ctime'[u] = ctime[u]) \/ now' < limit'[c]
  BY <1>14 DEF Lock
<1>15. ASSUME NEW t \in Threads, FindExpired(t)
       PROVE  (Walking(u, c)' /\ ctime'[u] = ctime[u]) \/ now' < limit'[c]
  BY <1>15 DEF FindExpired, OverLimit
<1>16. ASSUME NEW t \in Threads, Shut(t)
       PROVE  (Walking(u, c)' /\ ctime'[u] = ctime[u]) \/ now' < limit'[c]
  BY <1>16 DEF Shut
<1>17. ASSUME NEW t \in Threads, PassOver(t)
       PROVE  (Walking(u, c)' /\ ctime'[u] = ctime[u]) \/ now' < limit'[c]
  BY <1>17 DEF PassOver, OverLimit
<1>18. ASSUME NEW t \in Threads, Unlock(t)
       PROVE  (Walking(u, c)' /\ ctime'[u] = ctime[u]) \/ now' < limit'[c]
  BY <1>18 DEF Unlock
<1>19. ASSUME NEW t \in Threads, Load(t)
       PROVE  (Walking(u, c)' /\ ctime'[u] = ctime[u]) \/ now' < limit'[c]
  BY <1>19 DEF Load
<1>20. ASSUME NEW t \in Threads, Cas(t)
       PROVE  (Walking(u, c)' /\ ctime'[u] = ctime[u]) \/ now' < limit'[c]
  BY <1>20 DEF Cas
<1>21. ASSUME NEW t \in Threads, Settime(t)
       PROVE  (Walking(u, c)' /\ ctime'[u] = ctime[u]) \/ now' < limit'[c]
  BY <1>21 DEF Settime
<1>22. CASE UNCHANGED vars
  BY <1>22 DEF vars
<1> QED
  BY ONLY <1>1, <1>2, <1>3, <1>4, <1>4a, <1>5, <1>6, <1>7, <1>8, <1>9, <1>10, <1>11, <1>12,
     <1>13, <1>14, <1>15, <1>16, <1>17, <1>18, <1>19, <1>20, <1>21, <1>22,
     [Next]_vars DEF Next

\* What is left to a walk is walked over: the case of a limit that is kept.
LEMMA WalkedStep ==
  ASSUME TimerInv, TimerInv', NEW c \in Conns, Clocked, Owners, Clocked', Owners',
         Walked(c), [Next]_vars,
         limit'[c] = limit[c], limit[c] <= now', Doomed(c) => Doomed(c)',
         \A u \in Threads : Walking(u, c) => Walking(u, c)'
  PROVE  Walked(c)'
<1> USE InfNat, TimerAssumption
    DEF slots, heard, timer, walk, locals, Goto, TimerInv, TypeOK, Walked, Clocked, Owners, InTimerCode
<1>1. CASE Tick
  <2>1. limit'[c] <= last' => Doomed(c)'
    BY <1>1 DEF Tick
  <2>2. ASSUME NEW u \in Threads, pc'[u] \in {"scan", "shut"}, limit'[c] <= ctime'[u]
        PROVE  Walking(u, c)'
    BY <1>1, <2>2 DEF Tick
  <2>3. ASSUME NEW u \in Threads, pc'[u] \in {"load", "cas", "settime"}, limit'[c] <= ctime'[u]
        PROVE  Doomed(c)'
    BY <1>1, <2>3 DEF Tick
  <2> QED
    BY ONLY <2>1, <2>2, <2>3 DEF Walked
<1>2. ASSUME NEW t \in Threads, NEW d \in Conns, Accept(t, d) PROVE Walked(c)'
  <2>1. limit'[c] <= last' => Doomed(c)'
    BY <1>2 DEF Accept
  <2>2. ASSUME NEW u \in Threads, pc'[u] \in {"scan", "shut"}, limit'[c] <= ctime'[u]
        PROVE  Walking(u, c)'
    BY <1>2, <2>2 DEF Accept
  <2>3. ASSUME NEW u \in Threads, pc'[u] \in {"load", "cas", "settime"}, limit'[c] <= ctime'[u]
        PROVE  Doomed(c)'
    BY <1>2, <2>3 DEF Accept
  <2> QED
    BY ONLY <2>1, <2>2, <2>3 DEF Walked
<1>3. ASSUME NEW t \in Threads, NEW d \in Conns, TakeConn(t, d) PROVE Walked(c)'
  <2>1. limit'[c] <= last' => Doomed(c)'
    BY <1>3 DEF TakeConn
  <2>2. ASSUME NEW u \in Threads, pc'[u] \in {"scan", "shut"}, limit'[c] <= ctime'[u]
        PROVE  Walking(u, c)'
    BY <1>3, <2>2 DEF TakeConn
  <2>3. ASSUME NEW u \in Threads, pc'[u] \in {"load", "cas", "settime"}, limit'[c] <= ctime'[u]
        PROVE  Doomed(c)'
    BY <1>3, <2>3 DEF TakeConn
  <2> QED
    BY ONLY <2>1, <2>2, <2>3 DEF Walked
<1>4. ASSUME NEW t \in Threads, NEW d \in Conns, TakeHangUp(t, d) PROVE Walked(c)'
  <2>1. limit'[c] <= last' => Doomed(c)'
    BY <1>4 DEF TakeHangUp
  <2>2. ASSUME NEW u \in Threads, pc'[u] \in {"scan", "shut"}, limit'[c] <= ctime'[u]
        PROVE  Walking(u, c)'
    BY <1>4, <2>2 DEF TakeHangUp
  <2>3. ASSUME NEW u \in Threads, pc'[u] \in {"load", "cas", "settime"}, limit'[c] <= ctime'[u]
        PROVE  Doomed(c)'
    BY <1>4, <2>3 DEF TakeHangUp
  <2> QED
    BY ONLY <2>1, <2>2, <2>3 DEF Walked
<1>4a. ASSUME NEW t \in Threads, LiftLimit(t) PROVE Walked(c)'
  <2>1. limit'[c] <= last' => Doomed(c)'
    BY <1>4a DEF LiftLimit
  <2>2. ASSUME NEW u \in Threads, pc'[u] \in {"scan", "shut"}, limit'[c] <= ctime'[u]
        PROVE  Walking(u, c)'
    BY <1>4a, <2>2 DEF LiftLimit
  <2>3. ASSUME NEW u \in Threads, pc'[u] \in {"load", "cas", "settime"}, limit'[c] <= ctime'[u]
        PROVE  Doomed(c)'
    BY <1>4a, <2>3 DEF LiftLimit
  <2> QED
    BY ONLY <2>1, <2>2, <2>3 DEF Walked
<1>5. ASSUME NEW t \in Threads, HandlerReturns(t) PROVE Walked(c)'
  <2>1. limit'[c] <= last' => Doomed(c)'
    BY <1>5 DEF HandlerReturns
  <2>2. ASSUME NEW u \in Threads, pc'[u] \in {"scan", "shut"}, limit'[c] <= ctime'[u]
        PROVE  Walking(u, c)'
    BY <1>5, <2>2 DEF HandlerReturns
  <2>3. ASSUME NEW u \in Threads, pc'[u] \in {"load", "cas", "settime"}, limit'[c] <= ctime'[u]
        PROVE  Doomed(c)'
    BY <1>5, <2>3 DEF HandlerReturns
  <2> QED
    BY ONLY <2>1, <2>2, <2>3 DEF Walked
<1>6. ASSUME NEW t \in Threads, Check(t) PROVE Walked(c)'
  <2>1. limit'[c] <= last' => Doomed(c)'
    BY <1>6 DEF Check
  <2>2. ASSUME NEW u \in Threads, pc'[u] \in {"scan", "shut"}, limit'[c] <= ctime'[u]
        PROVE  Walking(u, c)'
    BY <1>6, <2>2 DEF Check
  <2>3. ASSUME NEW u \in Threads, pc'[u] \in {"load", "cas", "settime"}, limit'[c] <= ctime'[u]
        PROVE  Doomed(c)'
    BY <1>6, <2>3 DEF Check
  <2> QED
    BY ONLY <2>1, <2>2, <2>3 DEF Walked
<1>7. ASSUME NEW t \in Threads, FinishConn(t) PROVE Walked(c)'
  <2>1. limit'[c] <= last' => Doomed(c)'
    BY <1>7 DEF FinishConn, Forget, Closed
  <2>2. ASSUME NEW u \in Threads, pc'[u] \in {"scan", "shut"}, limit'[c] <= ctime'[u]
        PROVE  Walking(u, c)'
    BY <1>7, <2>2 DEF FinishConn, Forget, Closed
  <2>3. ASSUME NEW u \in Threads, pc'[u] \in {"load", "cas", "settime"}, limit'[c] <= ctime'[u]
        PROVE  Doomed(c)'
    BY <1>7, <2>3 DEF FinishConn, Forget, Closed
  <2> QED
    BY ONLY <2>1, <2>2, <2>3 DEF Walked
<1>8. ASSUME NEW t \in Threads, FinishTimer(t) PROVE Walked(c)'
  <2>1. limit'[c] <= last' => Doomed(c)'
    BY <1>8 DEF FinishTimer, Forget
  <2>2. ASSUME NEW u \in Threads, pc'[u] \in {"scan", "shut"}, limit'[c] <= ctime'[u]
        PROVE  Walking(u, c)'
    BY <1>8, <2>2 DEF FinishTimer, Forget
  <2>3. ASSUME NEW u \in Threads, pc'[u] \in {"load", "cas", "settime"}, limit'[c] <= ctime'[u]
        PROVE  Doomed(c)'
    BY <1>8, <2>3 DEF FinishTimer, Forget
  <2> QED
    BY ONLY <2>1, <2>2, <2>3 DEF Walked
<1>9. ASSUME NEW t \in Threads, FinishAccept(t) PROVE Walked(c)'
  <2>1. limit'[c] <= last' => Doomed(c)'
    BY <1>9 DEF FinishAccept, Forget
  <2>2. ASSUME NEW u \in Threads, pc'[u] \in {"scan", "shut"}, limit'[c] <= ctime'[u]
        PROVE  Walking(u, c)'
    BY <1>9, <2>2 DEF FinishAccept, Forget
  <2>3. ASSUME NEW u \in Threads, pc'[u] \in {"load", "cas", "settime"}, limit'[c] <= ctime'[u]
        PROVE  Doomed(c)'
    BY <1>9, <2>3 DEF FinishAccept, Forget
  <2> QED
    BY ONLY <2>1, <2>2, <2>3 DEF Walked
<1>10. ASSUME NEW t \in Threads, TakeTimer(t) PROVE Walked(c)'
  <2>1. limit'[c] <= last' => Doomed(c)'
    BY <1>10 DEF TakeTimer
  <2>2. ASSUME NEW u \in Threads, pc'[u] \in {"scan", "shut"}, limit'[c] <= ctime'[u]
        PROVE  Walking(u, c)'
    BY <1>10, <2>2 DEF TakeTimer
  <2>3. ASSUME NEW u \in Threads, pc'[u] \in {"load", "cas", "settime"}, limit'[c] <= ctime'[u]
        PROVE  Doomed(c)'
    BY <1>10, <2>3 DEF TakeTimer
  <2> QED
    BY ONLY <2>1, <2>2, <2>3 DEF Walked
<1>11. ASSUME NEW t \in Threads, Clock(t) PROVE Walked(c)'
  <2>1. limit'[c] <= last' => Doomed(c)'
    BY <1>11 DEF Clock
  <2>2. ASSUME NEW u \in Threads, pc'[u] \in {"scan", "shut"}, limit'[c] <= ctime'[u]
        PROVE  Walking(u, c)'
    BY <1>11, <2>2 DEF Clock
  <2>3. ASSUME NEW u \in Threads, pc'[u] \in {"load", "cas", "settime"}, limit'[c] <= ctime'[u]
        PROVE  Doomed(c)'
    BY <1>11, <2>3 DEF Clock
  <2> QED
    BY ONLY <2>1, <2>2, <2>3 DEF Walked
<1>12. ASSUME NEW t \in Threads, CheckLast(t) PROVE Walked(c)'
  <2>1. limit'[c] <= last' => Doomed(c)'
    BY <1>12 DEF CheckLast
  <2>2. ASSUME NEW u \in Threads, pc'[u] \in {"scan", "shut"}, limit'[c] <= ctime'[u]
        PROVE  Walking(u, c)'
    BY <1>12, <2>2 DEF CheckLast
  <2>3. ASSUME NEW u \in Threads, pc'[u] \in {"load", "cas", "settime"}, limit'[c] <= ctime'[u]
        PROVE  Doomed(c)'
    BY <1>12, <2>3 DEF CheckLast
  <2> QED
    BY ONLY <2>1, <2>2, <2>3 DEF Walked
<1>13. ASSUME NEW t \in Threads, MarkLast(t) PROVE Walked(c)'
  <2>1. limit'[c] <= last' => Doomed(c)'
    <3>1. limit'[c] <= last' => Walking(t, c)'
      BY <1>13 DEF MarkLast, Walking
    <3> QED
      BY <3>1 DEF Doomed
  <2>2. ASSUME NEW u \in Threads, pc'[u] \in {"scan", "shut"}, limit'[c] <= ctime'[u]
        PROVE  Walking(u, c)'
    BY <1>13, <2>2 DEF MarkLast
  <2>3. ASSUME NEW u \in Threads, pc'[u] \in {"load", "cas", "settime"}, limit'[c] <= ctime'[u]
        PROVE  Doomed(c)'
    BY <1>13, <2>3 DEF MarkLast
  <2> QED
    BY ONLY <2>1, <2>2, <2>3 DEF Walked
<1>14. ASSUME NEW t \in Threads, Lock(t) PROVE Walked(c)'
  <2>1. limit'[c] <= last' => Doomed(c)'
    BY <1>14 DEF Lock
  <2>2. ASSUME NEW u \in Threads, pc'[u] \in {"scan", "shut"}, limit'[c] <= ctime'[u]
        PROVE  Walking(u, c)'
    BY <1>14, <2>2 DEF Lock, Walking
  <2>3. ASSUME NEW u \in Threads, pc'[u] \in {"load", "cas", "settime"}, limit'[c] <= ctime'[u]
        PROVE  Doomed(c)'
    BY <1>14, <2>3 DEF Lock
  <2> QED
    BY ONLY <2>1, <2>2, <2>3 DEF Walked
<1>15. ASSUME NEW t \in Threads, FindExpired(t) PROVE Walked(c)'
  <2>1. limit'[c] <= last' => Doomed(c)'
    BY <1>15 DEF FindExpired, OverLimit
  <2>2. ASSUME NEW u \in Threads, pc'[u] \in {"scan", "shut"}, limit'[c] <= ctime'[u]
        PROVE  Walking(u, c)'
    BY <1>15, <2>2 DEF FindExpired, OverLimit
  <2>3. ASSUME NEW u \in Threads, pc'[u] \in {"load", "cas", "settime"}, limit'[c] <= ctime'[u]
        PROVE  Doomed(c)'
    BY <1>15, <2>3 DEF FindExpired, OverLimit
  <2> QED
    BY ONLY <2>1, <2>2, <2>3 DEF Walked
<1>16. ASSUME NEW t \in Threads, Shut(t) PROVE Walked(c)'
  <2>1. limit'[c] <= last' => Doomed(c)'
    BY <1>16 DEF Shut
  <2>2. ASSUME NEW u \in Threads, pc'[u] \in {"scan", "shut"}, limit'[c] <= ctime'[u]
        PROVE  Walking(u, c)'
    BY <1>16, <2>2 DEF Shut
  <2>3. ASSUME NEW u \in Threads, pc'[u] \in {"load", "cas", "settime"}, limit'[c] <= ctime'[u]
        PROVE  Doomed(c)'
    BY <1>16, <2>3 DEF Shut
  <2> QED
    BY ONLY <2>1, <2>2, <2>3 DEF Walked
<1>17. ASSUME NEW t \in Threads, PassOver(t) PROVE Walked(c)'
  <2>1. limit'[c] <= last' => Doomed(c)'
    BY <1>17 DEF PassOver, OverLimit
  <2>2. ASSUME NEW u \in Threads, pc'[u] \in {"scan", "shut"}, limit'[c] <= ctime'[u]
        PROVE  Walking(u, c)'
    BY <1>17, <2>2 DEF PassOver, OverLimit
  <2>3. ASSUME NEW u \in Threads, pc'[u] \in {"load", "cas", "settime"}, limit'[c] <= ctime'[u]
        PROVE  Doomed(c)'
    BY <1>17, <2>3 DEF PassOver, OverLimit
  <2> QED
    BY ONLY <2>1, <2>2, <2>3 DEF Walked
<1>18. ASSUME NEW t \in Threads, Unlock(t) PROVE Walked(c)'
  <2>1. limit'[c] <= last' => Doomed(c)'
    BY <1>18 DEF Unlock
  <2>2. ASSUME NEW u \in Threads, pc'[u] \in {"scan", "shut"}, limit'[c] <= ctime'[u]
        PROVE  Walking(u, c)'
    BY <1>18, <2>2 DEF Unlock
  <2>3. ASSUME NEW u \in Threads, pc'[u] \in {"load", "cas", "settime"}, limit'[c] <= ctime'[u]
        PROVE  Doomed(c)'
    <3>1. pc[t] = "scan" /\ ~Walking(t, c)
      BY ONLY <1>18 DEF Unlock, Walking
    <3>2. ~(limit[c] <= ctime[t])
      BY <3>1
    <3> QED
      BY <1>18, <2>3, <3>2 DEF Unlock
  <2> QED
    BY ONLY <2>1, <2>2, <2>3 DEF Walked
<1>19. ASSUME NEW t \in Threads, Load(t) PROVE Walked(c)'
  <2>1. limit'[c] <= last' => Doomed(c)'
    BY <1>19 DEF Load
  <2>2. ASSUME NEW u \in Threads, pc'[u] \in {"scan", "shut"}, limit'[c] <= ctime'[u]
        PROVE  Walking(u, c)'
    BY <1>19, <2>2 DEF Load
  <2>3. ASSUME NEW u \in Threads, pc'[u] \in {"load", "cas", "settime"}, limit'[c] <= ctime'[u]
        PROVE  Doomed(c)'
    BY <1>19, <2>3 DEF Load
  <2> QED
    BY ONLY <2>1, <2>2, <2>3 DEF Walked
<1>20. ASSUME NEW t \in Threads, Cas(t) PROVE Walked(c)'
  <2>1. limit'[c] <= last' => Doomed(c)'
    BY <1>20 DEF Cas
  <2>2. ASSUME NEW u \in Threads, pc'[u] \in {"scan", "shut"}, limit'[c] <= ctime'[u]
        PROVE  Walking(u, c)'
    BY <1>20, <2>2 DEF Cas
  <2>3. ASSUME NEW u \in Threads, pc'[u] \in {"load", "cas", "settime"}, limit'[c] <= ctime'[u]
        PROVE  Doomed(c)'
    BY <1>20, <2>3 DEF Cas
  <2> QED
    BY ONLY <2>1, <2>2, <2>3 DEF Walked
<1>21. ASSUME NEW t \in Threads, Settime(t) PROVE Walked(c)'
  <2>1. limit'[c] <= last' => Doomed(c)'
    BY <1>21 DEF Settime
  <2>2. ASSUME NEW u \in Threads, pc'[u] \in {"scan", "shut"}, limit'[c] <= ctime'[u]
        PROVE  Walking(u, c)'
    BY <1>21, <2>2 DEF Settime
  <2>3. ASSUME NEW u \in Threads, pc'[u] \in {"load", "cas", "settime"}, limit'[c] <= ctime'[u]
        PROVE  Doomed(c)'
    BY <1>21, <2>3 DEF Settime
  <2> QED
    BY ONLY <2>1, <2>2, <2>3 DEF Walked
<1>22. CASE UNCHANGED vars
  <2>1. limit'[c] <= last' => Doomed(c)'
    BY <1>22 DEF vars
  <2>2. ASSUME NEW u \in Threads, pc'[u] \in {"scan", "shut"}, limit'[c] <= ctime'[u]
        PROVE  Walking(u, c)'
    BY <1>22, <2>2 DEF vars
  <2>3. ASSUME NEW u \in Threads, pc'[u] \in {"load", "cas", "settime"}, limit'[c] <= ctime'[u]
        PROVE  Doomed(c)'
    BY <1>22, <2>3 DEF vars
  <2> QED
    BY ONLY <2>1, <2>2, <2>3 DEF Walked
<1> QED
  BY ONLY <1>1, <1>2, <1>3, <1>4, <1>4a, <1>5, <1>6, <1>7, <1>8, <1>9, <1>10, <1>11, <1>12,
     <1>13, <1>14, <1>15, <1>16, <1>17, <1>18, <1>19, <1>20, <1>21, <1>22,
     [Next]_vars DEF Next

\* The timerfd is taken in time, and set again before its slot is enabled.
LEMMA TakenStep ==
  ASSUME TimerInv, TimerInv', Clocked, Clocked', Owners, Taken, [Next]_vars
  PROVE  Taken'
<1> USE InfNat, TimerAssumption
    DEF slots, heard, timer, walk, locals, Goto, TimerInv, TypeOK,
        Taken, Clocked, Owners, InTimerCode, NextInDay, Arming, Timer
<1>1. CASE Tick
  BY <1>1 DEF Tick
<1>2. ASSUME NEW t \in Threads, NEW d \in Conns, Accept(t, d) PROVE Taken'
  BY <1>2 DEF Accept
<1>3. ASSUME NEW t \in Threads, NEW d \in Conns, TakeConn(t, d) PROVE Taken'
  BY <1>3 DEF TakeConn
<1>4. ASSUME NEW t \in Threads, NEW d \in Conns, TakeHangUp(t, d) PROVE Taken'
  BY <1>4 DEF TakeHangUp
<1>4a. ASSUME NEW t \in Threads, LiftLimit(t) PROVE Taken'
  BY <1>4a DEF LiftLimit
<1>5. ASSUME NEW t \in Threads, HandlerReturns(t) PROVE Taken'
  BY <1>5 DEF HandlerReturns
<1>6. ASSUME NEW t \in Threads, Check(t) PROVE Taken'
  BY <1>6 DEF Check
<1>7. ASSUME NEW t \in Threads, FinishConn(t) PROVE Taken'
  BY <1>7 DEF FinishConn, Forget, Closed
<1>8. ASSUME NEW t \in Threads, FinishTimer(t) PROVE Taken'
  BY <1>8 DEF FinishTimer, Forget
<1>9. ASSUME NEW t \in Threads, FinishAccept(t) PROVE Taken'
  BY <1>9 DEF FinishAccept, Forget
<1>10. ASSUME NEW t \in Threads, TakeTimer(t) PROVE Taken'
  BY <1>10 DEF TakeTimer
<1>11. ASSUME NEW t \in Threads, Clock(t) PROVE Taken'
  BY <1>11 DEF Clock
<1>12. ASSUME NEW t \in Threads, CheckLast(t) PROVE Taken'
  BY <1>12 DEF CheckLast
<1>13. ASSUME NEW t \in Threads, MarkLast(t) PROVE Taken'
  BY <1>13 DEF MarkLast
<1>14. ASSUME NEW t \in Threads, Lock(t) PROVE Taken'
  BY <1>14 DEF Lock
<1>15. ASSUME NEW t \in Threads, FindExpired(t) PROVE Taken'
  BY <1>15 DEF FindExpired, OverLimit
<1>16. ASSUME NEW t \in Threads, Shut(t) PROVE Taken'
  BY <1>16 DEF Shut
<1>17. ASSUME NEW t \in Threads, PassOver(t) PROVE Taken'
  BY <1>17 DEF PassOver, OverLimit
<1>18. ASSUME NEW t \in Threads, Unlock(t) PROVE Taken'
  BY <1>18 DEF Unlock
<1>19. ASSUME NEW t \in Threads, Load(t) PROVE Taken'
  BY <1>19 DEF Load
<1>20. ASSUME NEW t \in Threads, Cas(t) PROVE Taken'
  BY <1>20 DEF Cas
<1>21. ASSUME NEW t \in Threads, Settime(t) PROVE Taken'
  BY <1>21 DEF Settime
<1>22. CASE UNCHANGED vars
  BY <1>22 DEF vars
<1> QED
  BY ONLY <1>1, <1>2, <1>3, <1>4, <1>4a, <1>5, <1>6, <1>7, <1>8, <1>9, <1>10, <1>11, <1>12,
     <1>13, <1>14, <1>15, <1>16, <1>17, <1>18, <1>19, <1>20, <1>21, <1>22,
     [Next]_vars DEF Next

\* The timerfd is not set beyond a day of a limit that nobody walks to.
LEMMA ArmedStep ==
  ASSUME TimerInv, TimerInv', NEW c \in Conns, Clocked, Owners, Clocked', Owners',
         Walked(c), Taken, Armed(c), [Next]_vars,
         limit'[c] = limit[c], limit[c] <= now', Doomed(c) => Doomed(c)'
  PROVE  Armed(c)'
<1> USE InfNat, TimerAssumption
    DEF slots, heard, timer, walk, locals, Goto, TimerInv, TypeOK,
        Armed, Walked, Taken, Clocked, Owners, InTimerCode, NextInDay, Arming, Timer
<1>1. CASE Tick
  BY <1>1 DEF Tick
<1>2. ASSUME NEW t \in Threads, NEW d \in Conns, Accept(t, d) PROVE Armed(c)'
  BY <1>2 DEF Accept
<1>3. ASSUME NEW t \in Threads, NEW d \in Conns, TakeConn(t, d) PROVE Armed(c)'
  BY <1>3 DEF TakeConn
<1>4. ASSUME NEW t \in Threads, NEW d \in Conns, TakeHangUp(t, d) PROVE Armed(c)'
  BY <1>4 DEF TakeHangUp
<1>4a. ASSUME NEW t \in Threads, LiftLimit(t) PROVE Armed(c)'
  BY <1>4a DEF LiftLimit
<1>5. ASSUME NEW t \in Threads, HandlerReturns(t) PROVE Armed(c)'
  BY <1>5 DEF HandlerReturns
<1>6. ASSUME NEW t \in Threads, Check(t) PROVE Armed(c)'
  BY <1>6 DEF Check
<1>7. ASSUME NEW t \in Threads, FinishConn(t) PROVE Armed(c)'
  BY <1>7 DEF FinishConn, Forget, Closed
<1>8. ASSUME NEW t \in Threads, FinishTimer(t) PROVE Armed(c)'
  BY <1>8 DEF FinishTimer, Forget
<1>9. ASSUME NEW t \in Threads, FinishAccept(t) PROVE Armed(c)'
  BY <1>9 DEF FinishAccept, Forget
<1>10. ASSUME NEW t \in Threads, TakeTimer(t) PROVE Armed(c)'
  BY <1>10 DEF TakeTimer
<1>11. ASSUME NEW t \in Threads, Clock(t) PROVE Armed(c)'
  BY <1>11 DEF Clock
<1>12. ASSUME NEW t \in Threads, CheckLast(t) PROVE Armed(c)'
  BY <1>12 DEF CheckLast
<1>13. ASSUME NEW t \in Threads, MarkLast(t) PROVE Armed(c)'
  BY <1>13 DEF MarkLast
<1>14. ASSUME NEW t \in Threads, Lock(t) PROVE Armed(c)'
  BY <1>14 DEF Lock
<1>15. ASSUME NEW t \in Threads, FindExpired(t) PROVE Armed(c)'
  BY <1>15 DEF FindExpired, OverLimit
<1>16. ASSUME NEW t \in Threads, Shut(t) PROVE Armed(c)'
  BY <1>16 DEF Shut
<1>17. ASSUME NEW t \in Threads, PassOver(t) PROVE Armed(c)'
  BY <1>17 DEF PassOver, OverLimit
<1>18. ASSUME NEW t \in Threads, Unlock(t) PROVE Armed(c)'
  BY <1>18 DEF Unlock
<1>19. ASSUME NEW t \in Threads, Load(t) PROVE Armed(c)'
  BY <1>19 DEF Load
<1>20. ASSUME NEW t \in Threads, Cas(t) PROVE Armed(c)'
  BY <1>20 DEF Cas
<1>21. ASSUME NEW t \in Threads, Settime(t) PROVE Armed(c)'
  BY <1>21 DEF Settime
<1>22. CASE UNCHANGED vars
  BY <1>22 DEF vars
<1> QED
  BY ONLY <1>1, <1>2, <1>3, <1>4, <1>4a, <1>5, <1>6, <1>7, <1>8, <1>9, <1>10, <1>11, <1>12,
     <1>13, <1>14, <1>15, <1>16, <1>17, <1>18, <1>19, <1>20, <1>21, <1>22,
     [Next]_vars DEF Next

\* The time of a walk: as long as none is under way, the timerfd is armed; the first to begin
\* one lets no more than a second pass.
LEMMA InTimeStep ==
  ASSUME TimerInv, TimerInv', Clocked, Owners, Taken, [Next]_vars, NEW c \in Conns,
         Armed(c), InTime(c), limit'[c] = limit[c], limit[c] <= now'
  PROVE  InTime(c)'
<1>1. /\ limit[c] \in Nat /\ now \in Nat /\ now' \in Nat /\ Day \in Nat
      /\ \A t \in Threads : ctime[t] \in Nat
  BY InfNat DEF TimerInv, TypeOK
<1>2. ASSUME NEW t \in Threads, Walking(t, c) PROVE Walking(t, c)' /\ ctime'[t] = ctime[t]
  BY <1>1, <1>2, WalkingStep
<1>3. CASE \E t \in Threads : Walking(t, c) /\ ctime[t] <= limit[c] + Day + 3
  BY <1>2, <1>3 DEF InTime
<1>4. CASE now <= limit[c] + Day + 3 /\ now' = now
  BY <1>4 DEF InTime
<1>5. CASE now <= limit[c] + Day + 3 /\ Tick
  <2>1. now' = now + 1 /\ ctime' = ctime /\ limit' = limit
    BY <1>5 DEF Tick, slots, locals
  <2>2. CASE Doomed(c)
    <3>1. PICK t \in Threads : Walking(t, c)
      BY <2>2 DEF Doomed
    <3>2. ctime[t] = now
      BY <1>5, <3>1 DEF Tick, Walking, InTimerCode
    <3> QED
      BY <1>2, <1>5, <2>1, <3>1, <3>2 DEF InTime
  <2>3. CASE ~Doomed(c)
    <3>1. expiry \in Nat /\ expiry <= limit[c] + Day
      BY <2>3, InfNat DEF Armed, TimerInv, TypeOK
    <3>2. CASE enabled
      <4>1. now <= expiry
        BY <1>5, <3>2 DEF Tick
      <4> QED
        BY <1>1, <2>1, <3>1, <4>1 DEF InTime
    <3>3. CASE ~enabled
      <4>1. PICK t \in Threads : job[t] = Timer
        BY <3>3 DEF Owners
      <4>2. ctime[t] = now
        BY <1>5, <4>1 DEF Owners, Tick, InTimerCode, Arming
      <4>3. ctime[t] <= limit[c] + Day + 2
        <5>1. ctime[t] <= limit[c] + Day + (IF pc[t] = "clock" THEN 1 ELSE 2)
          BY <2>3, <4>1 DEF Armed
        <5> QED
          BY <1>1, <5>1
      <4> QED
        BY <1>1, <2>1, <4>2, <4>3 DEF InTime
    <3> QED
      BY <3>2, <3>3
  <2> QED
    BY <2>2, <2>3
<1>6. now' = now \/ Tick
  BY DEF Next, vars, Accept, TakeConn, TakeHangUp, LiftLimit, HandlerReturns, Check, FinishConn, FinishTimer,
         FinishAccept, TakeTimer, Clock, CheckLast, MarkLast, Lock, FindExpired, Shut, PassOver,
         Unlock, Load, Cas, Settime
<1> QED
  BY <1>3, <1>4, <1>5, <1>6 DEF InTime

\* What is within d of b is within d of whatever is beyond b.
LEMMA Between ==
  ASSUME NEW a \in Nat, NEW b \in Nat, NEW c \in Nat, NEW d \in Nat, a <= b + d, b < c
  PROVE  a <= c + d
OBVIOUS

\* The other case: the limit of the slot is behind the clock, and nothing is due.
LEMMA BehindStep ==
  ASSUME TimerInv, TimerInv', Clocked', Owners', NEW c \in Conns, now' < limit'[c], [Next]_vars
  PROVE  Walked(c)' /\ Armed(c)' /\ InTime(c)'
<1>1. /\ limit'[c] \in Nat /\ now' \in Nat /\ Day \in Nat /\ last' \in Nat /\ expiry' \in Nat
      /\ \A t \in Threads : ctime'[t] \in Nat
  BY InfNat DEF TimerInv, TypeOK
<1>2. \A t \in Threads : InTimerCode(t)' => ctime'[t] < limit'[c]
  BY <1>1 DEF Clocked
<1>3. last' < limit'[c] /\ expiry' <= limit'[c] + Day
  <2>1. last' <= now' /\ expiry' <= now' + Day
    BY DEF Clocked, TimerInv, TimerAlive
  <2>2. limit'[c] \in Nat /\ now' \in Nat /\ Day \in Nat /\ last' \in Nat /\ expiry' \in Nat
    BY <1>1
  <2>3. now' < limit'[c]
    OBVIOUS
  <2>4. last' < limit'[c]
    BY ONLY <2>1, <2>2, <2>3
  <2>5. expiry' <= limit'[c] + Day
    BY ONLY <2>1, <2>2, <2>3, Between
  <2> QED
    BY <2>4, <2>5
<1>4. Walked(c)'
  BY <1>1, <1>2, <1>3 DEF Walked, InTimerCode
<1>5. Armed(c)'
  BY <1>1, <1>2, <1>3 DEF Armed, Owners, InTimerCode, Arming
<1>6. InTime(c)'
  BY <1>1 DEF InTime
<1> QED
  BY <1>4, <1>5, <1>6

\* A new poller has nothing due, and the timerfd armed for a day.
LEMMA DueInit == Init => DueInv
<1> SUFFICES ASSUME Init PROVE DueInv
  OBVIOUS
<1> USE InfNat, TimerAssumption DEF Init
<1>1. Clocked /\ Taken
  BY DEF Clocked, Taken, InTimerCode, Timer
<1>2. Owners
  BY DEF Owners, Timer, Arming
<1>3. ASSUME NEW c \in Conns PROVE Walked(c) /\ Armed(c) /\ InTime(c)
  BY DEF Walked, Armed, InTime, Timer
<1> QED
  BY <1>1, <1>2, <1>3 DEF DueInv

\* A limit is either kept and behind the clock, when the walks under way go on, or beyond
\* the clock, when it asks for nothing yet.
LEMMA DueStep ==
  ASSUME TimerInv, TimerInv', DueInv, [Next]_vars
  PROVE  DueInv'
<1>1. Clocked /\ Owners /\ Taken /\ \A c \in Conns : Walked(c) /\ Armed(c) /\ InTime(c)
  BY DEF DueInv
<1>2. Clocked' /\ Owners'
  BY <1>1, ClockedStep, OwnersStep
<1>3. Taken'
  BY <1>1, <1>2, TakenStep
<1>4. ASSUME NEW c \in Conns PROVE Walked(c)' /\ Armed(c)' /\ InTime(c)'
  <2>1. CASE limit'[c] = limit[c] /\ limit[c] <= now'
    <3>1. limit[c] \in Nat /\ now' \in Nat
      BY InfNat DEF TimerInv, TypeOK
    <3>2. \A u \in Threads : Walking(u, c) => Walking(u, c)'
      BY <1>1, <2>1, <3>1, WalkingStep
    <3>3. Doomed(c) => Doomed(c)'
      BY <3>2 DEF Doomed
    <3>4. Walked(c)'
      BY <1>1, <1>2, <2>1, <3>2, <3>3, WalkedStep
    <3> QED
      BY <1>1, <1>2, <2>1, <3>3, <3>4, ArmedStep, InTimeStep
  <2>2. CASE now' < limit'[c]
    BY <1>2, <2>2, BehindStep
  <2>3. limit'[c] = limit[c] \/ now' < limit'[c]
    BY LimitStep
  <2> QED
    BY <2>1, <2>2, <2>3, InfNat DEF TimerInv, TypeOK
<1> QED
  BY <1>2, <1>3, <1>4 DEF DueInv

\* A silent connection is shut at most a day (and the seconds a thread may take) after its
\* limit, although a walk is skipped when another one was made in the same second, and the
\* timerfd is set by whoever comes last (onion_poller_timer).
THEOREM OverdueAtMostADayHolds == Spec => []OverdueAtMostADay
<1>1. TimerInv /\ DueInv => OverdueAtMostADay
  <2> SUFFICES ASSUME TimerInv, DueInv, NEW c \in Conns PROVE now <= limit[c] + Day + 4
    BY DEF OverdueAtMostADay, Slack
  <2>1. limit[c] \in Nat /\ now \in Nat /\ Day \in Nat /\ \A t \in Threads : ctime[t] \in Nat
    BY InfNat DEF TimerInv, TypeOK
  <2>2. CASE now <= limit[c] + Day + 3
    BY <2>1, <2>2
  <2>3. ASSUME NEW t \in Threads, Walking(t, c), ctime[t] <= limit[c] + Day + 3
        PROVE  now <= limit[c] + Day + 4
    <3>1. now <= ctime[t] + 1
      BY <2>3 DEF DueInv, Clocked, InTimerCode, Walking
    <3> QED
      BY <2>1, <2>3, <3>1
  <2> QED
    BY <2>2, <2>3 DEF DueInv, InTime
<1>2. TimerInv /\ TimerInv' /\ DueInv /\ [Next]_vars => DueInv'
  BY DueStep
<1> QED
  BY <1>1, <1>2, DueInit, TimerInvHolds, PTL DEF Spec

\* An event moves the limit of its connection behind it.
LEMMA LimitBehindStep ==
  ASSUME TimerInv, TimerInv', Owners, LimitBehind, [Next]_vars
  PROVE  LimitBehind'
<1> USE InfNat, TimerAssumption
    DEF slots, heard, timer, walk, locals, Goto, TimerInv, TypeOK, LimitBehind
<1>1. CASE Tick
  BY <1>1 DEF Tick
<1>2. ASSUME NEW t \in Threads, NEW d \in Conns, Accept(t, d) PROVE LimitBehind'
  BY <1>2 DEF Accept
<1>3. ASSUME NEW t \in Threads, NEW d \in Conns, TakeConn(t, d) PROVE LimitBehind'
  <2>1. active[d] + Timeout <= limit[d]
    BY <1>3 DEF TakeConn, Owners
  <2>2. /\ pc'[t] = "taken" /\ job'[t] = d /\ active'[d] = ctime'[t]
        /\ before'[d] + Timeout <= limit'[d]
    BY <1>3, <2>1 DEF TakeConn
  <2>3. ASSUME NEW c \in Conns, c # d
        PROVE  \/ active'[c] + Timeout <= limit'[c]
               \/ \E u \in Threads :
                    /\ pc'[u] = "taken" /\ job'[u] = c /\ active'[c] = ctime'[u]
                    /\ before'[c] + Timeout <= limit'[c]
    <3>1. active'[c] = active[c] /\ before'[c] = before[c] /\ limit'[c] = limit[c]
      BY <1>3, <2>3 DEF TakeConn
    <3>2. CASE active[c] + Timeout <= limit[c]
      BY <3>1, <3>2
    <3>3. ASSUME NEW u \in Threads, pc[u] = "taken", job[u] = c, active[c] = ctime[u],
                 before[c] + Timeout <= limit[c]
          PROVE  \E v \in Threads :
                    /\ pc'[v] = "taken" /\ job'[v] = c /\ active'[c] = ctime'[v]
                    /\ before'[c] + Timeout <= limit'[c]
      BY <1>3, <3>1, <3>3 DEF TakeConn
    <3> QED
      BY <3>2, <3>3
  <2> QED
    BY <2>2, <2>3
<1>4. ASSUME NEW t \in Threads, NEW d \in Conns, TakeHangUp(t, d) PROVE LimitBehind'
  BY <1>4 DEF TakeHangUp
<1>4a. ASSUME NEW t \in Threads, LiftLimit(t) PROVE LimitBehind'
  BY <1>4a DEF LiftLimit
<1>5. ASSUME NEW t \in Threads, HandlerReturns(t) PROVE LimitBehind'
  BY <1>5 DEF HandlerReturns
<1>6. ASSUME NEW t \in Threads, Check(t) PROVE LimitBehind'
  BY <1>6 DEF Check
<1>7. ASSUME NEW t \in Threads, FinishConn(t) PROVE LimitBehind'
  BY <1>7 DEF FinishConn, Forget, Closed
<1>8. ASSUME NEW t \in Threads, FinishTimer(t) PROVE LimitBehind'
  BY <1>8 DEF FinishTimer, Forget
<1>9. ASSUME NEW t \in Threads, FinishAccept(t) PROVE LimitBehind'
  BY <1>9 DEF FinishAccept, Forget
<1>10. ASSUME NEW t \in Threads, TakeTimer(t) PROVE LimitBehind'
  BY <1>10 DEF TakeTimer
<1>11. ASSUME NEW t \in Threads, Clock(t) PROVE LimitBehind'
  BY <1>11 DEF Clock
<1>12. ASSUME NEW t \in Threads, CheckLast(t) PROVE LimitBehind'
  BY <1>12 DEF CheckLast
<1>13. ASSUME NEW t \in Threads, MarkLast(t) PROVE LimitBehind'
  BY <1>13 DEF MarkLast
<1>14. ASSUME NEW t \in Threads, Lock(t) PROVE LimitBehind'
  BY <1>14 DEF Lock
<1>15. ASSUME NEW t \in Threads, FindExpired(t) PROVE LimitBehind'
  BY <1>15 DEF FindExpired, OverLimit
<1>16. ASSUME NEW t \in Threads, Shut(t) PROVE LimitBehind'
  BY <1>16 DEF Shut
<1>17. ASSUME NEW t \in Threads, PassOver(t) PROVE LimitBehind'
  BY <1>17 DEF PassOver, OverLimit
<1>18. ASSUME NEW t \in Threads, Unlock(t) PROVE LimitBehind'
  BY <1>18 DEF Unlock
<1>19. ASSUME NEW t \in Threads, Load(t) PROVE LimitBehind'
  BY <1>19 DEF Load
<1>20. ASSUME NEW t \in Threads, Cas(t) PROVE LimitBehind'
  BY <1>20 DEF Cas
<1>21. ASSUME NEW t \in Threads, Settime(t) PROVE LimitBehind'
  BY <1>21 DEF Settime
<1>22. CASE UNCHANGED vars
  BY <1>22 DEF vars
<1> QED
  BY ONLY <1>1, <1>2, <1>3, <1>4, <1>4a, <1>5, <1>6, <1>7, <1>8, <1>9, <1>10, <1>11, <1>12,
     <1>13, <1>14, <1>15, <1>16, <1>17, <1>18, <1>19, <1>20, <1>21, <1>22,
     [Next]_vars DEF Next

\* Only FindExpired chooses a slot to shut.
LEMMA VictimStep ==
  ASSUME [Next]_vars, NEW c \in Conns, victim # c, victim' = c
  PROVE  \E t \in Threads : FindExpired(t)
<1>1. \A t \in Threads : Shut(t) => victim' = Nobody
  BY DEF Shut
<1> QED
  BY <1>1, TimerAssumption
     DEF Next, vars, walk, Tick, Accept, TakeConn, TakeHangUp, LiftLimit, HandlerReturns, Check, FinishConn,
         FinishTimer, FinishAccept, TakeTimer, Clock, CheckLast, MarkLast, Lock, PassOver, Unlock,
         Load, Cas, Settime

\* A walk gives a connection up (FindExpired) only Timeout seconds after its last event, or
\* within a second of an event that came no sooner than that after the one before it
\* (epoll_wait has returned it, and its limit is not yet lifted), in whatever order the
\* threads set and read the limits.
THEOREM GivesUpOnlyIdleHolds == Spec => GivesUpOnlyIdle
<1> DEFINE Right(c) ==
      \/ now >= active[c] + Timeout
      \/ Taking(c) /\ now <= active[c] + 1 /\ now >= before[c] + Timeout
<1>1. Init => LimitBehind
  BY InfNat DEF Init, LimitBehind
<1>2. TimerInv /\ TimerInv' /\ DueInv /\ LimitBehind /\ [Next]_vars => LimitBehind'
  BY LimitBehindStep DEF DueInv
<1>3. ASSUME TimerInv, DueInv, LimitBehind, [Next]_vars
      PROVE  [\A c \in Conns : victim # c /\ victim' = c => Right(c)]_vars
  <2> SUFFICES ASSUME NEW c \in Conns, victim # c, victim' = c PROVE Right(c)
    OBVIOUS
  <2>1. PICK t \in Threads : FindExpired(t)
    BY <1>3, VictimStep
  <2>2. limit[c] <= ctime[t] /\ ctime[t] <= now
    BY <1>3, <2>1 DEF FindExpired, OverLimit, DueInv, Clocked, InTimerCode
  <2>3. /\ limit[c] \in Nat /\ now \in Nat /\ Timeout \in Nat /\ active[c] \in Nat
        /\ before[c] \in Nat /\ \A u \in Threads : ctime[u] \in Nat
    BY <1>3, InfNat DEF TimerInv, TypeOK
  <2>4. CASE active[c] + Timeout <= limit[c]
    BY <2>2, <2>3, <2>4
  <2>5. ASSUME NEW u \in Threads, pc[u] = "taken", job[u] = c, active[c] = ctime[u],
               before[c] + Timeout <= limit[c]
        PROVE  Right(c)
    <3>1. now <= ctime[u] + 1
      BY <1>3, <2>5 DEF DueInv, Clocked, InTimerCode
    <3> QED
      BY <2>2, <2>3, <2>5, <3>1 DEF Taking
  <2> QED
    BY <1>3, <2>4, <2>5 DEF LimitBehind
<1>4. ASSUME TimerInv, DueInv, LimitBehind, [Next]_vars
      PROVE  [\A c \in Conns : victim # c /\ victim' = c =>
                \/ now >= active[c] + Timeout
                \/ Taking(c) /\ now <= active[c] + 1 /\ now >= before[c] + Timeout]_vars
  BY <1>3, <1>4
<1> QED
  BY <1>1, <1>2, <1>4, DueInit, DueStep, TimerInvHolds, PTL DEF Spec, GivesUpOnlyIdle
=============================================================================
