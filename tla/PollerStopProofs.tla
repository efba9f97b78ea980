-------------------------- MODULE PollerStopProofs --------------------------
(* The safety properties of PollerStop for every pool: StopInv is inductive. *)
EXTENDS PollerStop, FiniteSetTheorems, TLAPS

\* A step is the step of one action, or a stutter.
LEMMA NextSplit ==
  ASSUME [Next]_vars
  PROVE  \/ ListenOpen \/ ListenSpawn \/ ListenReturn
         \/ \E t \in Threads :
              \/ Enter(t) \/ CheckStop(t) \/ Rearm(t) \/ Leave(t) \/ ClientData(t)
              \/ CallbackReturns(t) \/ CallbackStops(t) \/ CallbackUsesServer(t)
              \/ TakeStopEvent(t) \/ TakeOtherEvent(t) \/ Interrupted(t)
         \/ \E s \in Stoppers : StopperCalls(s)
         \/ \E a \in Agents :
              \/ StopLock(a) \/ StopMark(a) \/ StopDrain(a)
              \/ StopCount(a) \/ StopSignal(a) \/ StopJoin(a)
         \/ UNCHANGED vars
BY DEF Next, Listen, PollStep, Callback, StopStep, Finished, Joined

\* A server that was never started satisfies the invariant.
LEMMA InitInv == Init => StopInv
<1> SUFFICES ASSUME Init PROVE StopInv
  OBVIOUS
<1> USE PoolAssumption DEF Init, Agents
<1>1. TypeOK
  BY DEF TypeOK
<1>2. Phases /\ Returns
  BY DEF Phases, Returns
<1>3. Polling = {}
  BY DEF Polling, LoopLabels
<1>4. PollersCounted
  BY <1>3, FS_EmptySet DEF PollersCounted
<1>5. StopHelperExclusive /\ StopSerialised
  BY DEF StopHelperExclusive, StopSerialised, InStopHelper
<1>6. told \subseteq Polling /\ WakeupNotLost
  BY DEF WakeupNotLost
<1> QED
  BY <1>1, <1>2, <1>4, <1>5, <1>6 DEF StopInv

\* Control: types, phases and return points, action by action.
LEMMA ControlStep ==
  ASSUME TypeOK, Phases, Returns, npollers' \in Nat, [Next]_vars
  PROVE  TypeOK' /\ Phases' /\ Returns'
<1> USE PoolAssumption
    DEF TypeOK, Phases, Returns, Agents, LoopLabels, Goto, Polling,
        poller, server, bounds, history
<1>1. CASE ListenOpen
  <2>1. TypeOK'
    <3>1. pc' \in [Agents -> LoopLabels \cup {"idle", "opened", "enter", "left"}]
      BY <1>1 DEF ListenOpen
    <3>2. listening' \in BOOLEAN /\ asked' \in BOOLEAN /\ complete' \in BOOLEAN
      BY <1>1 DEF ListenOpen
    <3>3. listens' \in Nat
      BY <1>1 DEF ListenOpen
    <3> QED
      BY <1>1, <3>1, <3>2, <3>3 DEF ListenOpen
  <2>2. Phases'
    BY <1>1 DEF ListenOpen
  <2>3. Returns'
    BY <1>1 DEF ListenOpen
  <2> QED
    BY ONLY <2>1, <2>2, <2>3
<1>2. CASE ListenSpawn
  BY <1>2 DEF ListenSpawn
<1>3. CASE ListenReturn
  BY <1>3 DEF ListenReturn
<1>4. ASSUME NEW t \in Threads, Enter(t) PROVE TypeOK' /\ Phases' /\ Returns'
  BY <1>4 DEF Enter
<1>5. ASSUME NEW t \in Threads, CheckStop(t) PROVE TypeOK' /\ Phases' /\ Returns'
  BY <1>5 DEF CheckStop
<1>6. ASSUME NEW t \in Threads, Rearm(t) PROVE TypeOK' /\ Phases' /\ Returns'
  BY <1>6 DEF Rearm
<1>7. ASSUME NEW t \in Threads, Leave(t) PROVE TypeOK' /\ Phases' /\ Returns'
  BY <1>7 DEF Leave
<1>8. ASSUME NEW t \in Threads, ClientData(t) PROVE TypeOK' /\ Phases' /\ Returns'
  BY <1>8 DEF ClientData
<1>9. ASSUME NEW t \in Threads, CallbackReturns(t) PROVE TypeOK' /\ Phases' /\ Returns'
  BY <1>9 DEF CallbackReturns
<1>10. ASSUME NEW t \in Threads, CallbackStops(t) PROVE TypeOK' /\ Phases' /\ Returns'
  BY <1>10 DEF CallbackStops
<1>11. ASSUME NEW t \in Threads, CallbackUsesServer(t) PROVE TypeOK' /\ Phases' /\ Returns'
  BY <1>11 DEF CallbackUsesServer
<1>12. ASSUME NEW t \in Threads, TakeStopEvent(t) PROVE TypeOK' /\ Phases' /\ Returns'
  BY <1>12 DEF TakeStopEvent
<1>13. ASSUME NEW t \in Threads, TakeOtherEvent(t) PROVE TypeOK' /\ Phases' /\ Returns'
  BY <1>13 DEF TakeOtherEvent
<1>14. ASSUME NEW t \in Threads, Interrupted(t) PROVE TypeOK' /\ Phases' /\ Returns'
  BY <1>14 DEF Interrupted
<1>15. ASSUME NEW s \in Stoppers, StopperCalls(s) PROVE TypeOK' /\ Phases' /\ Returns'
  <2>1. TypeOK'
    BY <1>15 DEF StopperCalls
  <2>2. Phases'
    BY <1>15 DEF StopperCalls
  <2>3. Returns'
    BY <1>15 DEF StopperCalls
  <2> QED
    BY ONLY <2>1, <2>2, <2>3
<1>16. ASSUME NEW a \in Agents, StopLock(a) PROVE TypeOK' /\ Phases' /\ Returns'
  <2>1. CASE listening
    <3>1. mutex' = a /\ asked' = TRUE /\ pc' = [pc EXCEPT ![a] = "mark"]
          /\ UNCHANGED <<poller, detached, listening, ret, n, bounds, told, complete>>
      BY <1>16, <2>1 DEF StopLock
    <3>2. TypeOK'
      BY <3>1
    <3>3. Phases' /\ Returns'
      BY <1>16, <3>1 DEF StopLock
    <3> QED
      BY ONLY <3>2, <3>3
  <2>2. CASE ~listening
    <3>1. pc' = [pc EXCEPT ![a] = ret[a]]
          /\ UNCHANGED <<poller, detached, mutex, listening, ret, n, bounds, told, asked, complete>>
      BY <1>16, <2>2 DEF StopLock
    <3>2. TypeOK'
      BY <3>1
    <3>3. Phases' /\ Returns'
      BY <1>16, <3>1 DEF StopLock
    <3> QED
      BY ONLY <3>2, <3>3
  <2> QED
    BY ONLY <2>1, <2>2, TypeOK DEF TypeOK
<1>17. ASSUME NEW a \in Agents, StopMark(a) PROVE TypeOK' /\ Phases' /\ Returns'
  BY <1>17 DEF StopMark
<1>18. ASSUME NEW a \in Agents, StopDrain(a) PROVE TypeOK' /\ Phases' /\ Returns'
  BY <1>18 DEF StopDrain
<1>19. ASSUME NEW a \in Agents, StopCount(a) PROVE TypeOK' /\ Phases' /\ Returns'
  BY <1>19 DEF StopCount
<1>20. ASSUME NEW a \in Agents, StopSignal(a) PROVE TypeOK' /\ Phases' /\ Returns'
  BY <1>20 DEF StopSignal
<1>21. ASSUME NEW a \in Agents, StopJoin(a) PROVE TypeOK' /\ Phases' /\ Returns'
  BY <1>21 DEF StopJoin
<1>22. CASE UNCHANGED vars
  BY <1>22 DEF vars
<1> QED
  BY ONLY <1>1, <1>2, <1>3, <1>4, <1>5, <1>6, <1>7, <1>8, <1>9, <1>10, <1>11, <1>12,
     <1>13, <1>14, <1>15, <1>16, <1>17, <1>18, <1>19, <1>20, <1>21, <1>22,
     [Next]_vars, NextSplit
-----------------------------------------------------------------------------
\* Only entering and leaving the loop change the set of pollers, and both
\* change the counter with it.
LEMMA PollingStep ==
  ASSUME TypeOK, Phases, Returns, [Next]_vars
  PROVE  \/ npollers' = npollers /\ Polling' = Polling
         \/ \E t \in Threads : Enter(t) /\ t \notin Polling /\ Polling' = Polling \cup {t}
         \/ \E t \in Threads : Leave(t) /\ t \in Polling /\ Polling' = Polling \ {t}
<1> DEFINE Same == npollers' = npollers /\ Polling' = Polling
<1> USE PoolAssumption
    DEF TypeOK, Phases, Returns, Agents, LoopLabels, Goto, Polling,
        poller, server, bounds, history
<1>1. CASE ListenOpen
  BY <1>1 DEF ListenOpen
<1>2. CASE ListenSpawn
  BY <1>2 DEF ListenSpawn
<1>3. CASE ListenReturn
  BY <1>3 DEF ListenReturn
<1>4. ASSUME NEW t \in Threads, Enter(t)
      PROVE  t \notin Polling /\ Polling' = Polling \cup {t}
  BY <1>4 DEF Enter
<1>5. ASSUME NEW t \in Threads, Leave(t)
      PROVE  t \in Polling /\ Polling' = Polling \ {t}
  BY <1>5 DEF Leave
<1>6. ASSUME NEW t \in Threads, CheckStop(t) PROVE Same
  BY <1>6 DEF CheckStop
<1>7. ASSUME NEW t \in Threads, Rearm(t) PROVE Same
  BY <1>7 DEF Rearm
<1>8. ASSUME NEW t \in Threads, ClientData(t) PROVE Same
  BY <1>8 DEF ClientData
<1>9. ASSUME NEW t \in Threads, CallbackReturns(t) PROVE Same
  BY <1>9 DEF CallbackReturns
<1>10. ASSUME NEW t \in Threads, CallbackStops(t) PROVE Same
  BY <1>10 DEF CallbackStops
<1>11. ASSUME NEW t \in Threads, CallbackUsesServer(t) PROVE Same
  BY <1>11 DEF CallbackUsesServer
<1>12. ASSUME NEW t \in Threads, TakeStopEvent(t) PROVE Same
  BY <1>12 DEF TakeStopEvent
<1>13. ASSUME NEW t \in Threads, TakeOtherEvent(t) PROVE Same
  BY <1>13 DEF TakeOtherEvent
<1>14. ASSUME NEW t \in Threads, Interrupted(t) PROVE Same
  BY <1>14 DEF Interrupted
<1>15. ASSUME NEW s \in Stoppers, StopperCalls(s) PROVE Same
  BY <1>15 DEF StopperCalls
<1>16. ASSUME NEW a \in Agents, StopLock(a) PROVE Same
  BY <1>16 DEF StopLock
<1>17. ASSUME NEW a \in Agents, StopMark(a) PROVE Same
  BY <1>17 DEF StopMark
<1>18. ASSUME NEW a \in Agents, StopDrain(a) PROVE Same
  BY <1>18 DEF StopDrain
<1>19. ASSUME NEW a \in Agents, StopCount(a) PROVE Same
  BY <1>19 DEF StopCount
<1>20. ASSUME NEW a \in Agents, StopSignal(a) PROVE Same
  BY <1>20 DEF StopSignal
<1>21. ASSUME NEW a \in Agents, StopJoin(a) PROVE Same
  BY <1>21 DEF StopJoin
<1>22. CASE UNCHANGED vars
  BY <1>22 DEF vars
<1> QED
  BY ONLY <1>1, <1>2, <1>3, <1>4, <1>5, <1>6, <1>7, <1>8, <1>9, <1>10, <1>11, <1>12, <1>13, <1>14, <1>15, <1>16, <1>17, <1>18, <1>19, <1>20, <1>21, <1>22,
     [Next]_vars, NextSplit

\* npollers follows the set of pollers through every step.
LEMMA CountStep ==
  ASSUME TypeOK, Phases, Returns, PollersCounted, [Next]_vars
  PROVE  npollers' \in Nat /\ PollersCounted'
<1>1. IsFiniteSet(Polling)
  BY PoolAssumption, FS_Subset DEF Polling
<1>2. Cardinality(Polling) \in Nat
  BY <1>1, FS_CardinalityType
<1>3. CASE npollers' = npollers /\ Polling' = Polling
  BY <1>2, <1>3 DEF PollersCounted
<1>4. ASSUME NEW t \in Threads, Enter(t), t \notin Polling, Polling' = Polling \cup {t}
      PROVE  npollers' \in Nat /\ PollersCounted'
  <2>1. Cardinality(Polling') = Cardinality(Polling) + 1
    BY <1>1, <1>4, FS_AddElement
  <2> QED
    BY <1>2, <1>4, <2>1 DEF Enter, PollersCounted
<1>5. ASSUME NEW t \in Threads, Leave(t), t \in Polling, Polling' = Polling \ {t}
      PROVE  npollers' \in Nat /\ PollersCounted'
  <2>1. Cardinality(Polling') = Cardinality(Polling) - 1
    BY <1>1, <1>5, FS_RemoveElement
  <2>2. Cardinality(Polling) # 0
    BY <1>1, <1>5, FS_EmptySet
  <2> QED
    BY <1>2, <1>5, <2>1, <2>2 DEF Leave, PollersCounted
<1> QED
  BY <1>3, <1>4, <1>5, PollingStep

\* The eventfd slot is disarmed exactly while its one callback runs.
LEMMA HelperStep ==
  ASSUME TypeOK, Phases, Returns, StopHelperExclusive, [Next]_vars
  PROVE  StopHelperExclusive'
<1> USE PoolAssumption
    DEF TypeOK, Phases, Returns, Agents, LoopLabels, Goto, Polling,
        poller, server, bounds, history,
        StopHelperExclusive, InStopHelper
<1>1. CASE ListenOpen
  BY <1>1 DEF ListenOpen
<1>2. CASE ListenSpawn
  BY <1>2 DEF ListenSpawn
<1>3. CASE ListenReturn
  BY <1>3 DEF ListenReturn
<1>4. ASSUME NEW t \in Threads, Enter(t) PROVE StopHelperExclusive'
  BY <1>4 DEF Enter
<1>5. ASSUME NEW t \in Threads, CheckStop(t) PROVE StopHelperExclusive'
  BY <1>5 DEF CheckStop
<1>6. ASSUME NEW t \in Threads, Rearm(t) PROVE StopHelperExclusive'
  BY <1>6 DEF Rearm
<1>7. ASSUME NEW t \in Threads, Leave(t) PROVE StopHelperExclusive'
  BY <1>7 DEF Leave
<1>8. ASSUME NEW t \in Threads, ClientData(t) PROVE StopHelperExclusive'
  BY <1>8 DEF ClientData
<1>9. ASSUME NEW t \in Threads, CallbackReturns(t) PROVE StopHelperExclusive'
  BY <1>9 DEF CallbackReturns
<1>10. ASSUME NEW t \in Threads, CallbackStops(t) PROVE StopHelperExclusive'
  BY <1>10 DEF CallbackStops
<1>11. ASSUME NEW t \in Threads, CallbackUsesServer(t) PROVE StopHelperExclusive'
  BY <1>11 DEF CallbackUsesServer
<1>12. ASSUME NEW t \in Threads, TakeStopEvent(t) PROVE StopHelperExclusive'
  BY <1>12 DEF TakeStopEvent
<1>13. ASSUME NEW t \in Threads, TakeOtherEvent(t) PROVE StopHelperExclusive'
  BY <1>13 DEF TakeOtherEvent
<1>14. ASSUME NEW t \in Threads, Interrupted(t) PROVE StopHelperExclusive'
  BY <1>14 DEF Interrupted
<1>15. ASSUME NEW s \in Stoppers, StopperCalls(s) PROVE StopHelperExclusive'
  BY <1>15 DEF StopperCalls
<1>16. ASSUME NEW a \in Agents, StopLock(a) PROVE StopHelperExclusive'
  BY <1>16 DEF StopLock
<1>17. ASSUME NEW a \in Agents, StopMark(a) PROVE StopHelperExclusive'
  BY <1>17 DEF StopMark
<1>18. ASSUME NEW a \in Agents, StopDrain(a) PROVE StopHelperExclusive'
  BY <1>18 DEF StopDrain
<1>19. ASSUME NEW a \in Agents, StopCount(a) PROVE StopHelperExclusive'
  BY <1>19 DEF StopCount
<1>20. ASSUME NEW a \in Agents, StopSignal(a) PROVE StopHelperExclusive'
  BY <1>20 DEF StopSignal
<1>21. ASSUME NEW a \in Agents, StopJoin(a) PROVE StopHelperExclusive'
  BY <1>21 DEF StopJoin
<1>22. CASE UNCHANGED vars
  BY <1>22 DEF vars
<1> QED
  BY ONLY <1>1, <1>2, <1>3, <1>4, <1>5, <1>6, <1>7, <1>8, <1>9, <1>10, <1>11, <1>12, <1>13, <1>14, <1>15, <1>16, <1>17, <1>18, <1>19, <1>20, <1>21, <1>22,
     [Next]_vars, NextSplit

\* server->mutex is held exactly inside onion_listen_stop.
LEMMA SerialStep ==
  ASSUME TypeOK, Phases, Returns, StopSerialised, [Next]_vars
  PROVE  StopSerialised'
<1> USE PoolAssumption
    DEF TypeOK, Phases, Returns, Agents, LoopLabels, Goto, Polling,
        poller, server, bounds, history,
        StopSerialised
<1>1. CASE ListenOpen
  BY <1>1 DEF ListenOpen
<1>2. CASE ListenSpawn
  BY <1>2 DEF ListenSpawn
<1>3. CASE ListenReturn
  BY <1>3 DEF ListenReturn
<1>4. ASSUME NEW t \in Threads, Enter(t) PROVE StopSerialised'
  BY <1>4 DEF Enter
<1>5. ASSUME NEW t \in Threads, CheckStop(t) PROVE StopSerialised'
  BY <1>5 DEF CheckStop
<1>6. ASSUME NEW t \in Threads, Rearm(t) PROVE StopSerialised'
  BY <1>6 DEF Rearm
<1>7. ASSUME NEW t \in Threads, Leave(t) PROVE StopSerialised'
  BY <1>7 DEF Leave
<1>8. ASSUME NEW t \in Threads, ClientData(t) PROVE StopSerialised'
  BY <1>8 DEF ClientData
<1>9. ASSUME NEW t \in Threads, CallbackReturns(t) PROVE StopSerialised'
  BY <1>9 DEF CallbackReturns
<1>10. ASSUME NEW t \in Threads, CallbackStops(t) PROVE StopSerialised'
  BY <1>10 DEF CallbackStops
<1>11. ASSUME NEW t \in Threads, CallbackUsesServer(t) PROVE StopSerialised'
  BY <1>11 DEF CallbackUsesServer
<1>12. ASSUME NEW t \in Threads, TakeStopEvent(t) PROVE StopSerialised'
  BY <1>12 DEF TakeStopEvent
<1>13. ASSUME NEW t \in Threads, TakeOtherEvent(t) PROVE StopSerialised'
  BY <1>13 DEF TakeOtherEvent
<1>14. ASSUME NEW t \in Threads, Interrupted(t) PROVE StopSerialised'
  BY <1>14 DEF Interrupted
<1>15. ASSUME NEW s \in Stoppers, StopperCalls(s) PROVE StopSerialised'
  BY <1>15 DEF StopperCalls
<1>16. ASSUME NEW a \in Agents, StopLock(a) PROVE StopSerialised'
  BY <1>16 DEF StopLock
<1>17. ASSUME NEW a \in Agents, StopMark(a) PROVE StopSerialised'
  BY <1>17 DEF StopMark
<1>18. ASSUME NEW a \in Agents, StopDrain(a) PROVE StopSerialised'
  BY <1>18 DEF StopDrain
<1>19. ASSUME NEW a \in Agents, StopCount(a) PROVE StopSerialised'
  BY <1>19 DEF StopCount
<1>20. ASSUME NEW a \in Agents, StopSignal(a) PROVE StopSerialised'
  BY <1>20 DEF StopSignal
<1>21. ASSUME NEW a \in Agents, StopJoin(a) PROVE StopSerialised'
  BY <1>21 DEF StopJoin
<1>22. CASE UNCHANGED vars
  BY <1>22 DEF vars
<1> QED
  BY ONLY <1>1, <1>2, <1>3, <1>4, <1>5, <1>6, <1>7, <1>8, <1>9, <1>10, <1>11, <1>12, <1>13, <1>14, <1>15, <1>16, <1>17, <1>18, <1>19, <1>20, <1>21, <1>22,
     [Next]_vars, NextSplit

\* Whoever has to leave is still polling, and a wake-up is on its way.
LEMMA WakeupStep ==
  ASSUME TypeOK, Phases, Returns, told \subseteq Polling, WakeupNotLost,
         told # {} => npollers > 0, [Next]_vars
  PROVE  (told \subseteq Polling)' /\ WakeupNotLost'
<1> USE PoolAssumption
    DEF TypeOK, Phases, Returns, Agents, LoopLabels, Goto, Polling,
        poller, server, bounds, history,
        WakeupNotLost, WillSignal
<1>1. CASE ListenOpen
  BY <1>1 DEF ListenOpen
<1>2. CASE ListenSpawn
  BY <1>2 DEF ListenSpawn
<1>3. CASE ListenReturn
  BY <1>3 DEF ListenReturn
<1>4. ASSUME NEW t \in Threads, Enter(t) PROVE (told \subseteq Polling)' /\ WakeupNotLost'
  BY <1>4 DEF Enter
<1>5. ASSUME NEW t \in Threads, CheckStop(t) PROVE (told \subseteq Polling)' /\ WakeupNotLost'
  BY <1>5 DEF CheckStop
<1>6. ASSUME NEW t \in Threads, Rearm(t) PROVE (told \subseteq Polling)' /\ WakeupNotLost'
  BY <1>6 DEF Rearm
<1>7. ASSUME NEW t \in Threads, Leave(t) PROVE (told \subseteq Polling)' /\ WakeupNotLost'
  BY <1>7 DEF Leave
<1>8. ASSUME NEW t \in Threads, ClientData(t) PROVE (told \subseteq Polling)' /\ WakeupNotLost'
  BY <1>8 DEF ClientData
<1>9. ASSUME NEW t \in Threads, CallbackReturns(t) PROVE (told \subseteq Polling)' /\ WakeupNotLost'
  BY <1>9 DEF CallbackReturns
<1>10. ASSUME NEW t \in Threads, CallbackStops(t) PROVE (told \subseteq Polling)' /\ WakeupNotLost'
  BY <1>10 DEF CallbackStops
<1>11. ASSUME NEW t \in Threads, CallbackUsesServer(t) PROVE (told \subseteq Polling)' /\ WakeupNotLost'
  BY <1>11 DEF CallbackUsesServer
<1>12. ASSUME NEW t \in Threads, TakeStopEvent(t) PROVE (told \subseteq Polling)' /\ WakeupNotLost'
  BY <1>12 DEF TakeStopEvent
<1>13. ASSUME NEW t \in Threads, TakeOtherEvent(t) PROVE (told \subseteq Polling)' /\ WakeupNotLost'
  BY <1>13 DEF TakeOtherEvent
<1>14. ASSUME NEW t \in Threads, Interrupted(t) PROVE (told \subseteq Polling)' /\ WakeupNotLost'
  BY <1>14 DEF Interrupted
<1>15. ASSUME NEW s \in Stoppers, StopperCalls(s) PROVE (told \subseteq Polling)' /\ WakeupNotLost'
  BY <1>15 DEF StopperCalls
<1>16. ASSUME NEW a \in Agents, StopLock(a) PROVE (told \subseteq Polling)' /\ WakeupNotLost'
  BY <1>16 DEF StopLock
<1>17. ASSUME NEW a \in Agents, StopMark(a) PROVE (told \subseteq Polling)' /\ WakeupNotLost'
  BY <1>17 DEF StopMark
<1>18. ASSUME NEW a \in Agents, StopDrain(a) PROVE (told \subseteq Polling)' /\ WakeupNotLost'
  BY <1>18 DEF StopDrain
<1>19. ASSUME NEW a \in Agents, StopCount(a) PROVE (told \subseteq Polling)' /\ WakeupNotLost'
  BY <1>19 DEF StopCount
<1>20. ASSUME NEW a \in Agents, StopSignal(a) PROVE (told \subseteq Polling)' /\ WakeupNotLost'
  BY <1>20 DEF StopSignal
<1>21. ASSUME NEW a \in Agents, StopJoin(a) PROVE (told \subseteq Polling)' /\ WakeupNotLost'
  BY <1>21 DEF StopJoin
<1>22. CASE UNCHANGED vars
  BY <1>22 DEF vars
<1> QED
  BY ONLY <1>1, <1>2, <1>3, <1>4, <1>5, <1>6, <1>7, <1>8, <1>9, <1>10, <1>11, <1>12, <1>13, <1>14, <1>15, <1>16, <1>17, <1>18, <1>19, <1>20, <1>21, <1>22,
     [Next]_vars, NextSplit
-----------------------------------------------------------------------------
\* The invariant is inductive.
LEMMA InvStep == StopInv /\ [Next]_vars => StopInv'
<1> SUFFICES ASSUME StopInv, [Next]_vars PROVE StopInv'
  OBVIOUS
<1>1. TypeOK /\ Phases /\ Returns
  BY DEF StopInv
<1>2. npollers' \in Nat /\ PollersCounted'
  BY <1>1, CountStep DEF StopInv
<1>3. TypeOK' /\ Phases' /\ Returns'
  BY <1>1, <1>2, ControlStep
<1>4. StopHelperExclusive'
  BY <1>1, HelperStep DEF StopInv
<1>5. StopSerialised'
  BY <1>1, SerialStep DEF StopInv
<1>6. told # {} => npollers > 0
  <2>1. IsFiniteSet(Polling)
    BY PoolAssumption, FS_Subset DEF Polling
  <2>2. told # {} => Polling # {}
    BY DEF StopInv
  <2>3. Polling # {} => Cardinality(Polling) # 0
    BY <2>1, FS_EmptySet
  <2> QED
    BY <1>1, <2>2, <2>3 DEF StopInv, PollersCounted, TypeOK
<1>7. (told \subseteq Polling)' /\ WakeupNotLost'
  BY <1>1, <1>6, WakeupStep DEF StopInv
<1> QED
  BY <1>2, <1>3, <1>4, <1>5, <1>7 DEF StopInv

\* The inductive invariant holds of onion_listen and onion_listen_stop for any
\* number of pool threads, stopping threads and calls, detached or not.
THEOREM StopInvHolds == Spec => []StopInv
<1> QED
  BY InitInv, InvStep, PTL DEF Spec

\* Every variable keeps its type; npollers never goes below zero.
THEOREM TypesHold == Spec => []TypeOK
<1>1. StopInv => TypeOK
  BY DEF StopInv
<1> QED
  BY <1>1, StopInvHolds, PTL

\* npollers, the count onion_poller_stop trusts, is the number of threads inside
\* onion_poller_poll.
THEOREM PollersCountedHolds == Spec => []PollersCounted
<1>1. StopInv => PollersCounted
  BY DEF StopInv
<1> QED
  BY <1>1, StopInvHolds, PTL

\* EPOLLONESHOT lets one thread at a time run onion_poller_stop_helper.
THEOREM StopHelperExclusiveHolds == Spec => []StopHelperExclusive
<1>1. StopInv => StopHelperExclusive
  BY DEF StopInv
<1> QED
  BY <1>1, StopInvHolds, PTL

\* server->mutex serialises onion_listen_stop.
THEOREM StopSerialisedHolds == Spec => []StopSerialised
<1>1. StopInv => StopSerialised
  BY DEF StopInv
<1> QED
  BY <1>1, StopInvHolds, PTL

\* The chain of wake-ups of onion_poller_stop is not broken: while a thread that
\* was polling when a stop began has not left, the eventfd is readable or a
\* caller is about to write it.
THEOREM WakeupNotLostHolds == Spec => []WakeupNotLost
<1>1. StopInv => WakeupNotLost
  BY DEF StopInv
<1> QED
  BY <1>1, StopInvHolds, PTL
-----------------------------------------------------------------------------
(* Leaving.  Nothing asks a thread to leave before somebody has stopped this    *)
(* listen, and a server that listens once has nothing left of an earlier stop.  *)

\* The server listens once: the count of an eventfd that the last thread to leave an earlier
\* listen has left behind would stop the next one.
ListensOnce == Detachable = {TRUE} \/ MaxListens <= 1

\* As long as nobody has stopped the server, nobody is on the way to do so, and neither p->stop
\* nor the eventfd asks a thread to leave.
Unasked ==
  /\ detached \in Detachable
  /\ listens = 0 => ~listening /\ ~asked
  /\ ~asked => /\ ~stop /\ ~eventfd
               /\ \A a \in Agents : pc[a] \notin {"mark", "drain", "count", "signal", "rearm"}

\* Only onion_listen forgets that it was asked, and it does so before any stop.
LEMMA AskedStep ==
  ASSUME ListensOnce, TypeOK, Returns, Unasked, [Next]_vars
  PROVE  Unasked'
<1> USE PoolAssumption
    DEF TypeOK, Agents, Goto, poller, server, bounds, history,
        Returns, Unasked, ListensOnce
<1>1. CASE ListenOpen
  <2>1. detached' = detached /\ listens' = listens + 1 /\ pc[Main] = "idle" /\ listens < MaxListens
        /\ pc' = [pc EXCEPT ![Main] = "opened"] /\ stop' = stop /\ eventfd' = eventfd
        /\ (detached => listens = 0) /\ listens \in Nat
    BY <1>1 DEF ListenOpen
  <2>2. CASE Detachable = {TRUE}
    <3>1. detached = TRUE
      BY <2>2
    <3>2. listens = 0
      BY <2>1, <3>1, Zenon
    <3> QED
      BY <2>1, <3>2
  <2>3. CASE MaxListens <= 1
    <3>1. listens = 0
      BY <2>1, <2>3
    <3> QED
      BY <2>1, <3>1
  <2> QED
    BY ONLY <2>2, <2>3, ListensOnce DEF ListensOnce
<1>2. CASE ListenSpawn
  BY <1>2 DEF ListenSpawn
<1>3. CASE ListenReturn
  BY <1>3 DEF ListenReturn
<1>4. ASSUME NEW t \in Threads, Enter(t) PROVE Unasked'
  BY <1>4 DEF Enter
<1>5. ASSUME NEW t \in Threads, CheckStop(t) PROVE Unasked'
  BY <1>5 DEF CheckStop
<1>6. ASSUME NEW t \in Threads, Rearm(t) PROVE Unasked'
  BY <1>6 DEF Rearm
<1>7. ASSUME NEW t \in Threads, Leave(t) PROVE Unasked'
  BY <1>7 DEF Leave
<1>8. ASSUME NEW t \in Threads, ClientData(t) PROVE Unasked'
  BY <1>8 DEF ClientData
<1>9. ASSUME NEW t \in Threads, CallbackReturns(t) PROVE Unasked'
  BY <1>9 DEF CallbackReturns
<1>10. ASSUME NEW t \in Threads, CallbackStops(t) PROVE Unasked'
  BY <1>10 DEF CallbackStops
<1>11. ASSUME NEW t \in Threads, CallbackUsesServer(t) PROVE Unasked'
  BY <1>11 DEF CallbackUsesServer
<1>12. ASSUME NEW t \in Threads, TakeStopEvent(t) PROVE Unasked'
  BY <1>12 DEF TakeStopEvent
<1>13. ASSUME NEW t \in Threads, TakeOtherEvent(t) PROVE Unasked'
  BY <1>13 DEF TakeOtherEvent
<1>14. ASSUME NEW t \in Threads, Interrupted(t) PROVE Unasked'
  BY <1>14 DEF Interrupted
<1>15. ASSUME NEW s \in Stoppers, StopperCalls(s) PROVE Unasked'
  BY <1>15 DEF StopperCalls
<1>16. ASSUME NEW a \in Agents, StopLock(a) PROVE Unasked'
  BY <1>16 DEF StopLock
<1>17. ASSUME NEW a \in Agents, StopMark(a) PROVE Unasked'
  BY <1>17 DEF StopMark
<1>18. ASSUME NEW a \in Agents, StopDrain(a) PROVE Unasked'
  BY <1>18 DEF StopDrain
<1>19. ASSUME NEW a \in Agents, StopCount(a) PROVE Unasked'
  BY <1>19 DEF StopCount
<1>20. ASSUME NEW a \in Agents, StopSignal(a) PROVE Unasked'
  BY <1>20 DEF StopSignal
<1>21. ASSUME NEW a \in Agents, StopJoin(a) PROVE Unasked'
  BY <1>21 DEF StopJoin
<1>22. CASE UNCHANGED vars
  BY <1>22 DEF vars
<1> QED
  BY ONLY <1>1, <1>2, <1>3, <1>4, <1>5, <1>6, <1>7, <1>8, <1>9, <1>10, <1>11, <1>12, <1>13, <1>14, <1>15, <1>16, <1>17, <1>18, <1>19, <1>20, <1>21, <1>22,
     [Next]_vars, NextSplit

\* Only a thread that reads p->stop leaves.
LEMMA LeaveStep ==
  ASSUME TypeOK, [Next]_vars, NEW t \in Threads, pc[t] = "check", pc'[t] = "leave"
  PROVE  stop
<1> USE PoolAssumption DEF TypeOK, Agents, Goto
<1>1. CASE ListenOpen
  BY <1>1 DEF ListenOpen
<1>2. CASE ListenSpawn
  BY <1>2 DEF ListenSpawn
<1>3. CASE ListenReturn
  BY <1>3 DEF ListenReturn
<1>4. ASSUME NEW u \in Threads, Enter(u) PROVE stop
  BY <1>4 DEF Enter
<1>5. ASSUME NEW u \in Threads, CheckStop(u) PROVE stop
  BY <1>5 DEF CheckStop
<1>6. ASSUME NEW u \in Threads, Rearm(u) PROVE stop
  BY <1>6 DEF Rearm
<1>7. ASSUME NEW u \in Threads, Leave(u) PROVE stop
  BY <1>7 DEF Leave
<1>8. ASSUME NEW u \in Threads, ClientData(u) PROVE stop
  BY <1>8 DEF ClientData
<1>9. ASSUME NEW u \in Threads, CallbackReturns(u) PROVE stop
  BY <1>9 DEF CallbackReturns
<1>10. ASSUME NEW u \in Threads, CallbackStops(u) PROVE stop
  BY <1>10 DEF CallbackStops
<1>11. ASSUME NEW u \in Threads, CallbackUsesServer(u) PROVE stop
  BY <1>11 DEF CallbackUsesServer
<1>12. ASSUME NEW u \in Threads, TakeStopEvent(u) PROVE stop
  BY <1>12 DEF TakeStopEvent
<1>13. ASSUME NEW u \in Threads, TakeOtherEvent(u) PROVE stop
  BY <1>13 DEF TakeOtherEvent
<1>14. ASSUME NEW u \in Threads, Interrupted(u) PROVE stop
  BY <1>14 DEF Interrupted
<1>15. ASSUME NEW s \in Stoppers, StopperCalls(s) PROVE stop
  BY <1>15 DEF StopperCalls
<1>16. ASSUME NEW a \in Agents, StopLock(a) PROVE stop
  BY <1>16 DEF StopLock
<1>17. ASSUME NEW a \in Agents, StopMark(a) PROVE stop
  BY <1>17 DEF StopMark
<1>18. ASSUME NEW a \in Agents, StopDrain(a) PROVE stop
  BY <1>18 DEF StopDrain
<1>19. ASSUME NEW a \in Agents, StopCount(a) PROVE stop
  BY <1>19 DEF StopCount
<1>20. ASSUME NEW a \in Agents, StopSignal(a) PROVE stop
  BY <1>20 DEF StopSignal
<1>21. ASSUME NEW a \in Agents, StopJoin(a) PROVE stop
  BY <1>21 DEF StopJoin
<1>22. CASE UNCHANGED vars
  BY <1>22 DEF vars
<1> QED
  BY ONLY <1>1, <1>2, <1>3, <1>4, <1>5, <1>6, <1>7, <1>8, <1>9, <1>10, <1>11, <1>12, <1>13, <1>14, <1>15, <1>16, <1>17, <1>18, <1>19, <1>20, <1>21, <1>22,
     [Next]_vars, NextSplit

\* A thread leaves onion_poller_poll only after somebody has called onion_listen_stop while this
\* onion_listen was listening.
THEOREM LeavesOnlyWhenAskedHolds ==
  ASSUME ListensOnce
  PROVE  Spec => LeavesOnlyWhenAsked
<1>1. Init => Unasked
  BY PoolAssumption DEF Init, Unasked, Agents
<1>2. StopInv /\ Unasked /\ [Next]_vars => Unasked'
  BY AskedStep DEF StopInv
<1>3. ASSUME StopInv, Unasked, [Next]_vars
      PROVE  [\A t \in Threads : pc[t] = "check" /\ pc'[t] = "leave" => asked]_vars
  <2> SUFFICES ASSUME NEW t \in Threads, pc[t] = "check", pc'[t] = "leave", ~asked PROVE FALSE
    OBVIOUS
  <2>1. ~stop
    BY <1>3 DEF Unasked
  <2> QED
    BY <1>3, <2>1, LeaveStep DEF StopInv
<1> QED
  BY <1>1, <1>2, <1>3, StopInvHolds, PTL DEF Spec, LeavesOnlyWhenAsked
=============================================================================
