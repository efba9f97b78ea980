--------------------------- MODULE SessionsProofs ---------------------------
(***************************************************************************)
(* The sessions of sessions.c for any number of threads, ids, dictionaries *)
(* and requests: Inv is inductive until a lookup goes astray.              *)
(***************************************************************************)
EXTENDS Sessions, FiniteSetTheorems, TLAPS

\* What the modules assume of the constants.
LEMMA Constants ==
  /\ MaxServed \in Nat /\ MaxRestarts \in Nat
  /\ Nil \notin Ids /\ Nil \notin Dicts
  /\ Overlapping \subseteq Ids /\ Removable \subseteq Ids /\ Emptiable \subseteq Ids
BY SessionsAssumption
-----------------------------------------------------------------------------
(* Counting who holds a dictionary *)

Counted(d) == refs[d] = Cardinality(Holders(d)) /\ (d \in alive <=> refs[d] > 0)

\* A dictionary has finitely many holders.
LEMMA HoldersFinite == ASSUME NEW d PROVE IsFiniteSet(Holders(d))
<1>1. IsFiniteSet({"store"} \X Ids) /\ IsFiniteSet({"request", "saving"} \X Threads)
  <2>1. IsFiniteSet({"store"}) /\ IsFiniteSet({"request", "saving"})
    <3>1. IsFiniteSet({"request"} \cup {"saving"})
      BY FS_Singleton, FS_AddElement
    <3>2. {"request", "saving"} = {"request"} \cup {"saving"}
      OBVIOUS
    <3> QED
      BY <3>1, <3>2, FS_Singleton
  <2> QED
    BY <2>1, FS_Product, SessionsAssumption
<1>2. IsFiniteSet(({"store"} \X Ids) \cup ({"request", "saving"} \X Threads))
  BY <1>1, FS_Union
<1>3. Holders(d) \subseteq ({"store"} \X Ids) \cup ({"request", "saving"} \X Threads)
  BY DEF Holders
<1> QED
  BY <1>2, <1>3, FS_Subset

\* A dictionary that somebody holds is alive; one that is not alive nobody holds.
LEMMA Held ==
  ASSUME NEW d, Counted(d), NEW h \in Holders(d)
  PROVE  d \in alive
<1>1. Cardinality(Holders(d)) \in Nat /\ Cardinality(Holders(d)) # 0
  BY HoldersFinite, FS_CardinalityType, FS_EmptySet
<1> QED
  BY <1>1 DEF Counted

\* A dictionary that was freed has no holder.
LEMMA Free ==
  ASSUME TypeOK, NEW d \in Dicts, Counted(d), d \notin alive
  PROVE  Holders(d) = {} /\ refs[d] = 0
<1>1. refs[d] \in Nat
  BY DEF TypeOK, Counters
<1>2. refs[d] = 0
  BY <1>1 DEF Counted
<1> QED
  BY <1>2, HoldersFinite, FS_EmptySet DEF Counted

\* The holders, kind by kind.
LEMMA HoldersNext ==
  ASSUME NEW d,
         {i \in Ids : store'[i] = d} = {i \in Ids : store[i] = d},
         \A u \in Threads : /\ sess'[u] = d /\ pc'[u] \notin {"dup", "dupout"} <=>
                                 sess[u] = d /\ pc[u] \notin {"dup", "dupout"}
                            /\ sess'[u] = d /\ pc'[u] = "replace" <=>
                                 sess[u] = d /\ pc[u] = "replace"
  PROVE  Holders(d)' = Holders(d)
BY DEF Holders

\* One holder more, or one less.
LEMMA CountMore ==
  ASSUME NEW d, Counted(d), refs[d] \in Nat, NEW h, h \notin Holders(d),
         Holders(d)' = Holders(d) \cup {h}, refs'[d] = refs[d] + 1, d \in alive'
  PROVE  Counted(d)'
<1>1. Cardinality(Holders(d)') = Cardinality(Holders(d)) + 1
  BY HoldersFinite, FS_AddElement
<1> QED
  BY <1>1 DEF Counted

\* A holder lets go: the dictionary is freed with the last.
LEMMA CountLess ==
  ASSUME NEW d, Counted(d), refs[d] \in Nat, NEW h \in Holders(d),
         Holders(d)' = Holders(d) \ {h}, refs'[d] = refs[d] - 1, d \in alive' <=> refs[d] # 1
  PROVE  Counted(d)'
<1>1. Cardinality(Holders(d)') = Cardinality(Holders(d)) - 1
  BY HoldersFinite, FS_RemoveElement
<1>2. Cardinality(Holders(d)') \in Nat
  <2>1. IsFiniteSet(Holders(d)')
    BY HoldersFinite, FS_RemoveElement
  <2> QED
    BY <2>1, FS_CardinalityType
<1> QED
  BY <1>1, <1>2 DEF Counted

\* The first holders.
LEMMA CountOne ==
  ASSUME NEW d, NEW h, Holders(d)' = {h}, refs'[d] = 1, d \in alive'
  PROVE  Counted(d)'
<1>1. Cardinality({h}) = 1
  BY FS_Singleton
<1> QED
  BY <1>1 DEF Counted

\* A new dictionary that two hold, the store and the request that made it.
LEMMA CountTwo ==
  ASSUME NEW d, NEW h, NEW k, h # k, Holders(d)' = {h, k}, refs'[d] = 2, d \in alive'
  PROVE  Counted(d)'
<1>1. {h, k} = {h} \cup {k} /\ IsFiniteSet({h}) /\ Cardinality({h}) = 1
  BY FS_Singleton
<1>2. Cardinality({h} \cup {k}) = Cardinality({h}) + 1
  <2>1. k \notin {h}
    OBVIOUS
  <2> QED
    BY <1>1, <2>1, FS_AddElement
<1> QED
  BY <1>1, <1>2 DEF Counted

\* What is stored, or found by a lookup, is alive: it is held.
LEMMA Alive ==
  TypeOK /\ (\A d \in Dicts : Counted(d)) /\ (\A t \in Threads : Holding(t)) =>
    AllAlive /\ \A i \in Ids : store[i] # Nil => store[i] \in alive
<1> SUFFICES ASSUME TypeOK, \A d \in Dicts : Counted(d), \A t \in Threads : Holding(t)
             PROVE  AllAlive /\ \A i \in Ids : store[i] # Nil => store[i] \in alive
  OBVIOUS
<1>1. ASSUME NEW i \in Ids, store[i] # Nil PROVE store[i] \in alive
  <2>1. store[i] \in Dicts /\ <<"store", i>> \in Holders(store[i])
    BY <1>1 DEF TypeOK, Contents, Holders
  <2> QED
    BY <2>1, Held
<1>2. ASSUME NEW t \in Threads, sess[t] # Nil PROVE sess[t] \in alive
  <2>1. CASE pc[t] \in {"dup", "dupout"}
    BY <2>1 DEF Holding
  <2>2. CASE pc[t] \notin {"dup", "dupout"}
    <3>1. sess[t] \in Dicts /\ <<"request", t>> \in Holders(sess[t])
      BY <1>2, <2>2 DEF TypeOK, Contents, Holders
    <3> QED
      BY <3>1, Held
  <2> QED
    BY <2>1, <2>2
<1> QED
  BY <1>1, <1>2 DEF AllAlive

\* The same of the next state.
LEMMA AliveNext ==
  TypeOK' /\ (\A d \in Dicts : Counted(d)') /\ (\A t \in Threads : Holding(t)') =>
    \A i \in Ids : store'[i] # Nil => store'[i] \in alive'
<1>1. (TypeOK /\ (\A d \in Dicts : Counted(d)) /\ (\A t \in Threads : Holding(t)) =>
         \A i \in Ids : store[i] # Nil => store[i] \in alive)'
  BY Alive, PTL
<1> QED
  BY <1>1

\* Inv, without what follows from the rest.
LEMMA Parts ==
  Inv <=>
    /\ TypeOK /\ (\A d \in Dicts : Counted(d))
    /\ \A t \in Threads : Holding(t) /\ KeepsDict(t) /\ Unsaved(t)
    /\ Alone /\ Stored /\ OneDict /\ Gone /\ Stays
BY Alive DEF Inv, CountsRight, Counted

\* The same of the next state.
LEMMA PartsNext ==
  Inv' <=>
    /\ TypeOK' /\ (\A d \in Dicts : Counted(d)')
    /\ \A t \in Threads : Holding(t)' /\ KeepsDict(t)' /\ Unsaved(t)'
    /\ Alone' /\ Stored' /\ OneDict' /\ Gone' /\ Stays'
<1>1. (Inv <=>
        /\ TypeOK /\ (\A d \in Dicts : Counted(d))
        /\ \A t \in Threads : Holding(t) /\ KeepsDict(t) /\ Unsaved(t)
        /\ Alone /\ Stored /\ OneDict /\ Gone /\ Stays)'
  BY Parts, PTL
<1> QED
  BY <1>1

\* Two requests that have one dictionary have one session, which a client uses twice.
LEMMA SameDict ==
  ASSUME Inv, NEW t \in Threads, NEW u \in Threads, t # u,
         sess[t] = sess[u], sess[t] # Nil
  PROVE  /\ InMemory /\ Serving(t) = Serving(u) /\ Serving(t) \in Ids /\ Shared(Serving(t))
         /\ Serving(t) \in Emptiable \/ filled[sess[t]]
<1>1. /\ Contents /\ Holding(t) /\ Holding(u) /\ KeepsDict(t) /\ Alone /\ OneDict
  BY Parts DEF TypeOK
<1>2. Serving(t) \in {cookie[t], sid[t]} \ {Nil} /\ Serving(u) \in {cookie[u], sid[u]} \ {Nil}
  BY <1>1 DEF Holding, Serving, Finding
<1>3. InMemory /\ Serving(t) = Serving(u)
  BY <1>1, <1>2 DEF OneDict
<1>4. Serving(t) \in Ids
  BY <1>1, <1>2 DEF Contents
<1>5. Shared(Serving(t))
  BY <1>1, <1>2, <1>3, <1>4 DEF Alone
<1> QED
  BY <1>1, <1>2, <1>3, <1>4, <1>5 DEF KeepsDict

\* A step after which every request has the session and the dictionary it had
LEMMA Steady ==
  ASSUME OneDict, UNCHANGED <<backend, sess>>, \A u \in Threads : Serving(u)' = Serving(u)
  PROVE  OneDict'
BY DEF OneDict, InMemory
\* Until a lookup goes astray, what it has found is not freed.
LEMMA FoundStays ==
  ASSUME ~astray', NEW d, Deref(d) \/ NoDeref, NEW u \in Threads, Finding(u), sess[u] \in alive
  PROVE  sess[u] \in alive'
BY DEF Deref, NoDeref

\* One holder takes the place of another.
LEMMA CountSame ==
  ASSUME NEW d, Counted(d), NEW h \in Holders(d), NEW k, k \notin Holders(d),
         Holders(d)' = (Holders(d) \ {h}) \cup {k}, refs'[d] = refs[d], d \in alive' <=> d \in alive
  PROVE  Counted(d)'
<1> DEFINE S == Holders(d)
<1>1. IsFiniteSet(S) /\ Cardinality(S \ {h}) = Cardinality(S) - 1 /\ IsFiniteSet(S \ {h})
  BY HoldersFinite, FS_RemoveElement
<1>2. Cardinality((S \ {h}) \cup {k}) = Cardinality(S \ {h}) + 1
  BY <1>1, FS_AddElement
<1>3. Cardinality(S) \in Nat
  BY <1>1, FS_CardinalityType
<1>4. Cardinality(Holders(d)') = Cardinality(S)
  BY <1>1, <1>2, <1>3
<1> QED
  BY <1>4 DEF Counted
-----------------------------------------------------------------------------
(* What a database may answer *)

\* A database answers with what it has, or fails.
LEMMA Reads ==
  ASSUME NEW i, NEW text \in GetText(i)
  PROVE  text = "none" \/ text = table[i]
BY DEF GetText, RedisGet, SqliteGet

\* A database takes what it is told to, or fails.
LEMMA Saves ==
  ASSUME NEW i, NEW text, NEW new \in SaveText(i, text)
  PROVE  new = table \/ new = [table EXCEPT ![i] = text]
BY DEF SaveText, RedisSave, SqliteSave
-----------------------------------------------------------------------------
(* Inv is inductive: one lemma for each action                     *)

USE Constants DEF Goto, dicts, ids, request, history, database, InMemory, Serving, Finding,
             NoDeref, Disputed, InStore

\* A new request has no session, and a cookie that nobody uses unless it is shared.
LEMMA StartStep ==
  ASSUME Inv, ~astray', NEW t \in Threads, Start(t)
  PROVE  Inv'
<1> USE DEF Start, InUse
<1>1. /\ Counters /\ Contents /\ (\A d \in Dicts : Counted(d))
      /\ \A u \in Threads : Holding(u) /\ KeepsDict(u) /\ Unsaved(u)
      /\ Alone /\ Stored /\ OneDict /\ Gone /\ Stays
      /\ AllAlive /\ \A i \in Ids : store[i] # Nil => store[i] \in alive
  BY ONLY Inv, Parts, Alive DEF TypeOK
<1>2. ASSUME NEW d \in Dicts PROVE Counted(d)'
  <2>1. Holders(d)' = Holders(d)
    BY <1>1, HoldersNext DEF Contents
  <2> QED
    BY <1>1, <2>1 DEF Counted
<1>3. Counters'
  BY <1>1 DEF Counters
<1>4. Contents'
  BY <1>1 DEF Contents, Holding
<1>5. ASSUME NEW u \in Threads PROVE Holding(u)'
  <2>1. CASE u = t
    BY <1>1, <2>1 DEF Contents, Holding
  <2>2. CASE u # t
    BY <1>1, <2>2 DEF Contents, Holding
  <2> QED
    BY <2>1, <2>2
<1>6. ASSUME NEW u \in Threads PROVE KeepsDict(u)'
  <2>1. CASE u = t
    BY <1>1, <2>1 DEF Contents, Holding, KeepsDict, Shared
  <2>2. CASE u # t
    BY <1>1, <2>2 DEF Contents, Holding, KeepsDict, Shared
  <2> QED
    BY <2>1, <2>2
<1>7. ASSUME NEW u \in Threads PROVE Unsaved(u)'
  <2>1. CASE u = t
    BY <1>1, <2>1 DEF Contents, Holding, Unsaved
  <2>2. CASE u # t
    BY <1>1, <2>2 DEF Contents, Holding, Unsaved
  <2> QED
    BY <2>1, <2>2
<1>8. Alone'
  <2>1. PICK c \in known \cup {Nil} :
          /\ cookie' = [cookie EXCEPT ![t] = c]
          /\ c \in Overlapping \/ c = Nil \/ ~InUse(c)
    BY DEF InUse
  <2>2. sid[t] = Nil /\ cookie \in [Threads -> Ids \cup {Nil}]
    BY <1>1 DEF Contents, Holding
  <2> QED
    BY <1>1, <2>1, <2>2 DEF Alone, Shared, InUse
<1>9. Stored'
  BY <1>1 DEF Contents, Holding, Stored, Shared
<1>10. OneDict'
  <2>1. UNCHANGED <<backend, sess>> /\ \A u \in Threads : Serving(u)' = Serving(u)
    BY <1>1 DEF Contents, Holding
  <2> QED
    BY ONLY <1>1, <2>1, Steady
<1>11. Gone'
  BY <1>1 DEF Contents, Gone
<1>12. Stays'
  BY <1>1 DEF Contents, Stays
<1> QED
  BY ONLY <1>2, <1>3, <1>4, <1>5, <1>6, <1>7, <1>8, <1>9, <1>10, <1>11, <1>12, PartsNext DEF TypeOK

\* The handler asks for the session of its cookie.
LEMMA AskStep ==
  ASSUME Inv, ~astray', NEW t \in Threads, Ask(t)
  PROVE  Inv'
<1> USE DEF Ask
<1>1. /\ Counters /\ Contents /\ (\A d \in Dicts : Counted(d))
      /\ \A u \in Threads : Holding(u) /\ KeepsDict(u) /\ Unsaved(u)
      /\ Alone /\ Stored /\ OneDict /\ Gone /\ Stays
      /\ AllAlive /\ \A i \in Ids : store[i] # Nil => store[i] \in alive
  BY ONLY Inv, Parts, Alive DEF TypeOK
<1>2. ASSUME NEW d \in Dicts PROVE Counted(d)'
  <2>1. Holders(d)' = Holders(d)
    BY <1>1, HoldersNext DEF Contents
  <2> QED
    BY <1>1, <2>1 DEF Counted
<1>3. Counters'
  BY <1>1 DEF Counters
<1>4. Contents'
  BY <1>1 DEF Contents, Holding
<1>5. ASSUME NEW u \in Threads PROVE Holding(u)'
  <2>1. CASE u = t
    BY <1>1, <2>1 DEF Contents, Holding
  <2>2. CASE u # t
    BY <1>1, <2>2 DEF Contents, Holding
  <2> QED
    BY <2>1, <2>2
<1>6. ASSUME NEW u \in Threads PROVE KeepsDict(u)'
  <2>1. CASE u = t
    BY <1>1, <2>1 DEF Contents, Holding, KeepsDict, Shared
  <2>2. CASE u # t
    BY <1>1, <2>2 DEF Contents, Holding, KeepsDict, Shared
  <2> QED
    BY <2>1, <2>2
<1>7. ASSUME NEW u \in Threads PROVE Unsaved(u)'
  <2>1. CASE u = t
    BY <1>1, <2>1 DEF Contents, Holding, Unsaved
  <2>2. CASE u # t
    BY <1>1, <2>2 DEF Contents, Holding, Unsaved
  <2> QED
    BY <2>1, <2>2
<1>8. Alone'
  BY <1>1 DEF Contents, Holding, Alone, Shared
<1>9. Stored'
  BY <1>1 DEF Contents, Holding, Stored, Shared
<1>10. OneDict'
  <2>1. UNCHANGED <<backend, sess>> /\ \A u \in Threads : Serving(u)' = Serving(u)
    BY <1>1 DEF Contents, Holding
  <2> QED
    BY ONLY <1>1, <2>1, Steady
<1>11. Gone'
  BY <1>1 DEF Contents, Gone
<1>12. Stays'
  BY <1>1 DEF Contents, Stays
<1> QED
  BY ONLY <1>2, <1>3, <1>4, <1>5, <1>6, <1>7, <1>8, <1>9, <1>10, <1>11, <1>12, PartsNext DEF TypeOK

\* What a lookup finds is stored, and nobody frees it before a reference is taken, or the
\* lookup goes astray.
LEMMA LookupStep ==
  ASSUME Inv, ~astray', NEW t \in Threads, Lookup(t)
  PROVE  Inv'
<1> USE DEF Lookup
<1>1. /\ Counters /\ Contents /\ (\A d \in Dicts : Counted(d))
      /\ \A u \in Threads : Holding(u) /\ KeepsDict(u) /\ Unsaved(u)
      /\ Alone /\ Stored /\ OneDict /\ Gone /\ Stays
      /\ AllAlive /\ \A i \in Ids : store[i] # Nil => store[i] \in alive
  BY ONLY Inv, Parts, Alive DEF TypeOK
<1>2. ASSUME NEW d \in Dicts PROVE Counted(d)'
  <2>1. Holders(d)' = Holders(d)
    BY <1>1, HoldersNext DEF Contents, Holding
  <2> QED
    BY <1>1, <2>1 DEF Counted
<1>3. Counters'
  BY <1>1 DEF Counters
<1>4. Contents'
  BY <1>1 DEF Contents, Holding
<1>5. ASSUME NEW u \in Threads PROVE Holding(u)'
  <2>1. CASE u = t
    BY <1>1, <2>1 DEF Contents, Holding
  <2>2. CASE u # t
    BY <1>1, <2>2 DEF Contents, Holding
  <2> QED
    BY <2>1, <2>2
<1>6. ASSUME NEW u \in Threads PROVE KeepsDict(u)'
  <2>1. CASE u = t
    <3>1. /\ cookie[t] \in Ids /\ sess'[t] = store[cookie[t]] /\ UNCHANGED <<store, filled, known>>
          /\ Serving(t)' = IF store[cookie[t]] = Nil THEN Nil ELSE cookie[t]
      BY <1>1 DEF Contents, Holding
    <3> QED
      BY <1>1, <2>1, <3>1 DEF KeepsDict, Stored, Shared
  <2>2. CASE u # t
    BY <1>1, <2>2 DEF Contents, Holding, KeepsDict, Shared
  <2> QED
    BY <2>1, <2>2
<1>7. ASSUME NEW u \in Threads PROVE Unsaved(u)'
  <2>1. CASE u = t
    BY <1>1, <2>1 DEF Contents, Holding, Unsaved
  <2>2. CASE u # t
    BY <1>1, <2>2 DEF Contents, Holding, Unsaved
  <2> QED
    BY <2>1, <2>2
<1>8. Alone'
  BY <1>1 DEF Contents, Holding, Alone, Shared
<1>9. Stored'
  BY <1>1 DEF Contents, Holding, Stored, Shared
<1>10. OneDict'
  <2>1. /\ UNCHANGED <<backend, cookie, sid>> /\ InMemory /\ sess' = [sess EXCEPT ![t] = store[cookie[t]]]
        /\ cookie[t] \in Ids /\ sid[t] = Nil /\ DOMAIN sess = Threads
    BY <1>1 DEF Contents, Holding
  <2>2. \A u \in Threads \ {t} : Serving(u)' = Serving(u)
    BY <1>1 DEF Contents
  <2>3. Serving(t)' = IF store[cookie[t]] = Nil THEN Nil ELSE cookie[t]
    BY <1>1, <2>1 DEF Contents
  <2>4. ASSUME NEW u \in Threads \ {t}, Serving(u) # Nil, store[cookie[t]] # Nil
        PROVE  Serving(u) = cookie[t] <=> sess[u] = store[cookie[t]]
    BY <1>1, <2>1, <2>4 DEF KeepsDict
  <2> QED
    BY ONLY <1>1, <2>1, <2>2, <2>3, <2>4 DEF OneDict, InMemory
<1>11. Gone'
  BY <1>1 DEF Contents, Gone
<1>12. Stays'
  BY <1>1 DEF Contents, Stays
<1> QED
  BY ONLY <1>2, <1>3, <1>4, <1>5, <1>6, <1>7, <1>8, <1>9, <1>10, <1>11, <1>12, PartsNext DEF TypeOK

\* The reference is taken to a dictionary that is alive, and that its session's
\* other requests have.
LEMMA DupStep ==
  ASSUME Inv, ~astray', NEW t \in Threads, Dup(t)
  PROVE  Inv'
<1> USE DEF Dup
<1>1. /\ Counters /\ Contents /\ (\A d \in Dicts : Counted(d))
      /\ \A u \in Threads : Holding(u) /\ KeepsDict(u) /\ Unsaved(u)
      /\ Alone /\ Stored /\ OneDict /\ Gone /\ Stays
      /\ AllAlive /\ \A i \in Ids : store[i] # Nil => store[i] \in alive
  BY ONLY Inv, Parts, Alive DEF TypeOK
<1>2. ASSUME NEW d \in Dicts PROVE Counted(d)'
  <2>1. sess[t] \in alive /\ sess[t] \in Dicts
    BY <1>1, Constants DEF AllAlive, Contents, Holding
  <2>2. CASE d = sess[t]
    <3>1. <<"request", t>> \notin Holders(d) /\ Holders(d)' = Holders(d) \cup {<<"request", t>>}
      <4>1. /\ store' = store /\ sess' = sess /\ sess[t] = d
            /\ pc[t] \in {"dup", "dupout"} /\ pc'[t] \in {"handler", "forget"}
            /\ \A u \in Threads : u # t => pc'[u] = pc[u]
        BY <1>1, <2>2 DEF Contents, Holding
      <4> QED
        BY ONLY <4>1 DEF Holders
    <3>2. /\ refs'[d] = refs[d] + 1 /\ refs[d] \in Nat
          /\ d \in alive'
      BY <1>1, <2>1, <2>2 DEF Counters, Deref
    <3> QED
      BY <1>1, <3>1, <3>2, CountMore
  <2>3. CASE d # sess[t]
    <3>1. Holders(d)' = Holders(d)
      BY <1>1, <2>3, HoldersNext DEF Contents, Holding
    <3>2. refs'[d] = refs[d] /\ (d \in alive' <=> d \in alive)
      BY <1>1, <2>1, <2>3 DEF Counters, Deref
    <3> QED
      BY <1>1, <3>1, <3>2 DEF Counted
  <2> QED
    BY <2>2, <2>3
<1>3. Counters'
  <2>1. sess[t] \in Dicts
    BY <1>1 DEF Contents, Holding
  <2>2. refs[sess[t]] + 1 \in Nat
    BY <1>1, <2>1 DEF Counters
  <2> QED
    BY <1>1, <2>2 DEF Counters
<1>4. Contents'
  BY <1>1 DEF Contents, Holding
<1>5. ASSUME NEW u \in Threads PROVE Holding(u)'
  <2>1. CASE u = t
    BY <1>1, <2>1 DEF Contents, Holding
  <2>2. CASE u # t
    BY <1>1, <2>2 DEF Contents, Holding
  <2> QED
    BY <2>1, <2>2
<1>6. ASSUME NEW u \in Threads PROVE KeepsDict(u)'
  <2>1. CASE u = t
    BY <1>1, <2>1 DEF Contents, Holding, KeepsDict, Shared, Stored
  <2>2. CASE u # t
    BY <1>1, <2>2 DEF Contents, Holding, KeepsDict, Shared, Stored
  <2> QED
    BY <2>1, <2>2
<1>7. ASSUME NEW u \in Threads PROVE Unsaved(u)'
  <2>1. CASE u = t
    <3>1. /\ InMemory /\ cookie[t] \in Ids /\ sess[t] # Nil /\ store[cookie[t]] \in {sess[t], Nil}
          /\ sid'[t] = cookie[t]
      BY <1>1 DEF Contents, Holding, KeepsDict
    <3>2. cookie[t] \in saved /\ ~Disputed(cookie[t]) => filled[sess[t]]
      BY <1>1, <3>1 DEF Stays, Contents
    <3> QED
      BY <2>1, <3>1, <3>2 DEF Unsaved
  <2>2. CASE u # t
    BY <1>1, <2>2 DEF Contents, Holding, Unsaved, Stays
  <2> QED
    BY <2>1, <2>2
<1>8. Alone'
  <2>1. \A u \in Threads, i \in Ids : i \in {cookie'[u], sid'[u]} => i \in {cookie[u], sid[u]}
    BY <1>1 DEF Contents
  <2> QED
    BY <1>1, <2>1 DEF Alone, Shared
<1>9. Stored'
  BY <1>1 DEF Contents, Holding, Stored, Shared
<1>10. OneDict'
  <2>1. UNCHANGED <<backend, sess>> /\ \A u \in Threads : Serving(u)' = Serving(u)
    BY <1>1 DEF Contents, Holding
  <2> QED
    BY ONLY <1>1, <2>1, Steady
<1>11. Gone'
  BY <1>1 DEF Contents, Gone
<1>12. Stays'
  BY <1>1 DEF Contents, Stays
<1> QED
  BY ONLY <1>2, <1>3, <1>4, <1>5, <1>6, <1>7, <1>8, <1>9, <1>10, <1>11, <1>12, PartsNext DEF TypeOK

\* A fresh id and a fresh dictionary: nobody holds it, and nobody has the id.
LEMMA CreateStep ==
  ASSUME Inv, ~astray', NEW t \in Threads, Create(t)
  PROVE  Inv'
<1> USE DEF Create
<1>1. /\ Counters /\ Contents /\ (\A d \in Dicts : Counted(d))
      /\ \A u \in Threads : Holding(u) /\ KeepsDict(u) /\ Unsaved(u)
      /\ Alone /\ Stored /\ OneDict /\ Gone /\ Stays
      /\ AllAlive /\ \A i \in Ids : store[i] # Nil => store[i] \in alive
  BY ONLY Inv, Parts, Alive DEF TypeOK
<1>2. PICK i \in Ids \ drawn, new \in Dicts \ alive :
               /\ drawn' = drawn \cup {i}
               /\ alive' = alive \cup {new}
               /\ refs' = [refs EXCEPT ![new] = 2]
               /\ filled' = [filled EXCEPT ![new] = FALSE]
               /\ store' = [store EXCEPT ![i] = new]
               /\ sid' = [sid EXCEPT ![t] = i]
               /\ sess' = [sess EXCEPT ![t] = new]
  OBVIOUS
<1>3. ASSUME NEW d \in Dicts PROVE Counted(d)'
  <2>1. CASE d = new
    <3>1. Holders(d) = {}
      BY <1>1, <1>2, <2>1, Free DEF TypeOK
    <3>2. Holders(d)' = {<<"store", i>>, <<"request", t>>}
      <4>1. /\ store' = [store EXCEPT ![i] = new] /\ store \in [Ids -> Dicts \cup {Nil}] /\ i \in Ids
            /\ sess' = [sess EXCEPT ![t] = new] /\ sess \in [Threads -> Dicts \cup {Nil}]
            /\ pc' = [pc EXCEPT ![t] = "handler"] /\ DOMAIN pc = Threads /\ pc[t] = "create"
        BY <1>1, <1>2, <2>1 DEF Contents
      <4>2. \A j \in Ids : store[j] # d
        BY <1>1, <1>2, <2>1
      <4>3. \A u \in Threads : sess[u] # d
        BY <1>1, <1>2, <2>1 DEF AllAlive
      <4> QED
        BY ONLY <2>1, <4>1, <4>2, <4>3, t \in Threads DEF Holders
    <3> QED
      BY <1>1, <1>2, <2>1, <3>2, CountTwo DEF Counters
  <2>2. CASE d # new
    <3>1. Holders(d)' = Holders(d)
      BY <1>1, <1>2, <2>2, HoldersNext DEF Contents, Holding, Stored
    <3> QED
      BY <1>1, <1>2, <2>2, <3>1 DEF Counted, Counters
  <2> QED
    BY <2>1, <2>2
<1>4. Counters'
  BY <1>1, <1>2 DEF Counters
<1>5. Contents'
  BY <1>1, <1>2 DEF Contents, Holding
<1>6. ASSUME NEW u \in Threads PROVE Holding(u)'
  <2>1. CASE u = t
    BY <1>1, <1>2, <2>1 DEF Contents, Holding, AllAlive, Stored
  <2>2. CASE u # t
    BY <1>1, <1>2, <2>2 DEF Contents, Holding, AllAlive, Stored
  <2> QED
    BY <2>1, <2>2
<1>7. ASSUME NEW u \in Threads PROVE KeepsDict(u)'
  <2>1. CASE u = t
    BY <1>1, <1>2, <2>1 DEF Contents, Holding, KeepsDict, Shared, AllAlive
  <2>2. CASE u # t
    BY <1>1, <1>2, <2>2 DEF Contents, Holding, KeepsDict, Shared, AllAlive
  <2> QED
    BY <2>1, <2>2
<1>8. ASSUME NEW u \in Threads PROVE Unsaved(u)'
  <2>1. CASE u = t
    BY <1>1, <1>2, <2>1 DEF Contents, Holding, Unsaved, AllAlive
  <2>2. CASE u # t
    BY <1>1, <1>2, <2>2 DEF Contents, Holding, Unsaved, AllAlive
  <2> QED
    BY <2>1, <2>2
<1>9. Alone'
  BY <1>1, <1>2 DEF Contents, Holding, Alone, Shared
<1>10. Stored'
  BY <1>1, <1>2 DEF Contents, Holding, Stored, Shared, AllAlive
<1>11. OneDict'
  BY <1>1, <1>2 DEF Contents, Holding, OneDict, AllAlive
<1>12. Gone'
  BY <1>1, <1>2 DEF Contents, Gone
<1>13. Stays'
  BY <1>1, <1>2 DEF Contents, Stays, AllAlive
<1> QED
  BY ONLY <1>3, <1>4, <1>5, <1>6, <1>7, <1>8, <1>9, <1>10, <1>11, <1>12, <1>13, PartsNext DEF TypeOK

\* Adding a key changes no holder, and what is filled need not be saved yet.
LEMMA FillStep ==
  ASSUME Inv, ~astray', NEW t \in Threads, Fill(t)
  PROVE  Inv'
<1> USE DEF Fill
<1>1. /\ Counters /\ Contents /\ (\A d \in Dicts : Counted(d))
      /\ \A u \in Threads : Holding(u) /\ KeepsDict(u) /\ Unsaved(u)
      /\ Alone /\ Stored /\ OneDict /\ Gone /\ Stays
      /\ AllAlive /\ \A i \in Ids : store[i] # Nil => store[i] \in alive
  BY ONLY Inv, Parts, Alive DEF TypeOK
<1>2. ASSUME NEW d \in Dicts PROVE Counted(d)'
  <2>1. Holders(d)' = Holders(d)
    BY <1>1, HoldersNext DEF Contents
  <2> QED
    BY <1>1, <2>1 DEF Counted
<1>3. Counters'
  BY <1>1 DEF Counters
<1>4. Contents'
  BY <1>1 DEF Contents, Holding
<1>5. ASSUME NEW u \in Threads PROVE Holding(u)'
  <2>1. /\ pc' = pc /\ sess' = sess /\ sid' = sid /\ cookie' = cookie /\ store' = store
        /\ known' = known /\ drawn' = drawn /\ backend' = backend /\ Holding(u) /\ pc[t] = "handler"
    BY <1>1
  <2>2. ASSUME pc[u] = "purge", ~Disputed(sid[u]), sess[u] # Nil PROVE filled'[sess[u]] = filled[sess[u]]
    <3>1. CASE sess[u] = sess[t]
      <4>1. Shared(sid[u]) /\ InMemory /\ (sid[u] \in Emptiable \/ filled[sess[u]])
        BY <1>1, <2>1, <2>2, <3>1, SameDict
      <4> QED
        BY <2>1, <2>2, <4>1 DEF Holding, Shared
    <3>2. CASE sess[u] # sess[t]
      BY <1>1, <2>2, <3>2 DEF Contents
    <3> QED
      BY <3>1, <3>2
  <2>3. ASSUME filled[sess[u]], sess[u] # Nil PROVE filled'[sess[u]]
    BY <1>1, <2>3 DEF Contents
  <2>4. alive' = alive
    OBVIOUS
  <2> QED
    BY ONLY <2>1, <2>2, <2>3, <2>4 DEF Holding, Disputed, InMemory
<1>6. ASSUME NEW u \in Threads PROVE KeepsDict(u)'
  <2>1. CASE u = t
    BY <1>1, <2>1 DEF Contents, Holding, KeepsDict, Shared
  <2>2. CASE u # t
    BY <1>1, <2>2 DEF Contents, Holding, KeepsDict, Shared
  <2> QED
    BY <2>1, <2>2
<1>7. ASSUME NEW u \in Threads PROVE Unsaved(u)'
  <2>1. CASE u = t
    BY <1>1, SameDict, <2>1 DEF Contents, Holding, Unsaved
  <2>2. CASE u # t
    BY <1>1, SameDict, <2>2 DEF Contents, Holding, Unsaved
  <2> QED
    BY <2>1, <2>2
<1>8. Alone'
  BY <1>1 DEF Contents, Holding, Alone, Shared
<1>9. Stored'
  BY <1>1 DEF Contents, Holding, Stored, Shared
<1>10. OneDict'
  BY <1>1 DEF Contents, Holding, OneDict
<1>11. Gone'
  BY <1>1 DEF Contents, Gone
<1>12. Stays'
  BY <1>1 DEF Contents, Stays
<1> QED
  BY ONLY <1>2, <1>3, <1>4, <1>5, <1>6, <1>7, <1>8, <1>9, <1>10, <1>11, <1>12, PartsNext DEF TypeOK

\* What is emptied is no longer what was saved.
LEMMA EmptyStep ==
  ASSUME Inv, ~astray', NEW t \in Threads, Empty(t)
  PROVE  Inv'
<1> USE DEF Empty
<1>1. /\ Counters /\ Contents /\ (\A d \in Dicts : Counted(d))
      /\ \A u \in Threads : Holding(u) /\ KeepsDict(u) /\ Unsaved(u)
      /\ Alone /\ Stored /\ OneDict /\ Gone /\ Stays
      /\ AllAlive /\ \A i \in Ids : store[i] # Nil => store[i] \in alive
  BY ONLY Inv, Parts, Alive DEF TypeOK
<1>2. ASSUME NEW d \in Dicts PROVE Counted(d)'
  <2>1. Holders(d)' = Holders(d)
    BY <1>1, HoldersNext DEF Contents
  <2> QED
    BY <1>1, <2>1 DEF Counted
<1>3. Counters'
  BY <1>1 DEF Counters
<1>4. Contents'
  BY <1>1 DEF Contents, Holding
<1>5. ASSUME NEW u \in Threads PROVE Holding(u)'
  <2>1. /\ pc' = pc /\ sess' = sess /\ sid' = sid /\ cookie' = cookie /\ store' = store
        /\ known' = known /\ drawn' = drawn /\ backend' = backend /\ Holding(u) /\ pc[t] = "handler"
    BY <1>1
  <2>2. ASSUME sess[u] # Nil, ~filled[sess[u]] PROVE ~filled'[sess[u]]
    BY <1>1, <2>2 DEF Contents
  <2>3. ASSUME pc[u] = "save", ~InMemory PROVE filled'[sess[u]] = filled[sess[u]]
    <3>1. u # t /\ sess[t] # Nil
      BY <2>1, <2>3
    <3>2. sess[u] # sess[t] /\ sess[u] \in Dicts
      BY <1>1, <2>3, <3>1 DEF OneDict, Holding, Contents
    <3>3. filled' = [filled EXCEPT ![sess[t]] = FALSE] /\ DOMAIN filled = Dicts
      BY <1>1 DEF Contents
    <3> QED
      BY ONLY <3>2, <3>3
  <2>4. alive' = alive
    OBVIOUS
  <2> QED
    BY ONLY <2>1, <2>2, <2>3, <2>4 DEF Holding, Disputed, InMemory
<1>6. ASSUME NEW u \in Threads PROVE KeepsDict(u)'
  <2>1. CASE u = t
    BY <1>1, <2>1 DEF Contents, Holding, KeepsDict, Shared
  <2>2. CASE u # t
    <3>1. /\ Serving(u)' = Serving(u) /\ UNCHANGED <<backend, store, sess, known>>
          /\ sid[t] \in Emptiable /\ Serving(t) = sid[t] /\ sess[t] # Nil
      BY <1>1
    <3>2. sess[u] = sess[t] => Serving(u) \in Emptiable
      BY <1>1, <2>2, <3>1, SameDict
    <3>3. sess[u] # sess[t] /\ sess[u] # Nil => filled'[sess[u]] = filled[sess[u]]
      BY <1>1 DEF Contents
    <3>4. KeepsDict(u)
      BY <1>1
    <3> QED
      BY ONLY <3>1, <3>2, <3>3, <3>4 DEF KeepsDict, Shared, InMemory
  <2> QED
    BY <2>1, <2>2
<1>7. ASSUME NEW u \in Threads PROVE Unsaved(u)'
  <2>1. CASE u = t
    BY <1>1, SameDict, <2>1 DEF Contents, Holding, Unsaved, Shared
  <2>2. CASE u # t
    BY <1>1, SameDict, <2>2, ZenonT(40) DEF Contents, Holding, Unsaved, Shared
  <2> QED
    BY <2>1, <2>2
<1>8. Alone'
  BY <1>1 DEF Contents, Holding, Alone, Shared
<1>9. Stored'
  <2>1. ASSUME NEW i \in Ids \ Emptiable, store[i] # Nil PROVE filled'[store[i]] = filled[store[i]]
    <3>1. InMemory /\ Serving(t) = sid[t] /\ sid[t] # Nil /\ sid[t] \in Emptiable
      BY <1>1, <2>1 DEF Stored
    <3>2. store[i] # sess[t] /\ store[i] \in Dicts
      BY <1>1, <2>1, <3>1 DEF KeepsDict, Contents
    <3> QED
      BY <1>1, <2>1, <3>2 DEF Contents
  <2> QED
    BY <1>1, <2>1 DEF Stored, Shared
<1>10. OneDict'
  BY <1>1, ZenonT(40) DEF Contents, Holding, OneDict
<1>11. Gone'
  BY <1>1 DEF Contents, Gone
<1>12. Stays'
  BY <1>1 DEF Contents, Stays
<1> QED
  BY ONLY <1>2, <1>3, <1>4, <1>5, <1>6, <1>7, <1>8, <1>9, <1>10, <1>11, <1>12, PartsNext DEF TypeOK

\* The id becomes known, and the session in it is not empty.
LEMMA TellCookieStep ==
  ASSUME Inv, ~astray', NEW t \in Threads, TellCookie(t)
  PROVE  Inv'
<1> USE DEF TellCookie
<1>1. /\ Counters /\ Contents /\ (\A d \in Dicts : Counted(d))
      /\ \A u \in Threads : Holding(u) /\ KeepsDict(u) /\ Unsaved(u)
      /\ Alone /\ Stored /\ OneDict /\ Gone /\ Stays
      /\ AllAlive /\ \A i \in Ids : store[i] # Nil => store[i] \in alive
  BY ONLY Inv, Parts, Alive DEF TypeOK
<1>2. ASSUME NEW d \in Dicts PROVE Counted(d)'
  <2>1. Holders(d)' = Holders(d)
    BY <1>1, HoldersNext DEF Contents
  <2> QED
    BY <1>1, <2>1 DEF Counted
<1>3. Counters'
  BY <1>1 DEF Counters
<1>4. Contents'
  BY <1>1 DEF Contents, Holding
<1>5. ASSUME NEW u \in Threads PROVE Holding(u)'
  <2>1. CASE u = t
    BY <1>1, <2>1 DEF Contents, Holding
  <2>2. CASE u # t
    BY <1>1, <2>2 DEF Contents, Holding
  <2> QED
    BY <2>1, <2>2
<1>6. ASSUME NEW u \in Threads PROVE KeepsDict(u)'
  <2>1. CASE u = t
    BY <1>1, <2>1 DEF Contents, Holding, KeepsDict, Shared
  <2>2. CASE u # t
    <3>1. /\ Serving(u)' = Serving(u) /\ UNCHANGED <<backend, store, sess, filled>>
          /\ known' = known \cup {sid[t]} /\ Serving(t) = sid[t] /\ sid[t] # Nil /\ filled[sess[t]]
      BY <1>1 DEF Holding
    <3>2. InMemory /\ Serving(u) = sid[t] => sess[u] = sess[t]
      BY <1>1, <3>1 DEF OneDict
    <3>3. KeepsDict(u)
      BY <1>1
    <3> QED
      BY ONLY <3>1, <3>2, <3>3 DEF KeepsDict, Shared, InMemory
  <2> QED
    BY <2>1, <2>2
<1>7. ASSUME NEW u \in Threads PROVE Unsaved(u)'
  <2>1. CASE u = t
    BY <1>1, <2>1 DEF Contents, Holding, Unsaved
  <2>2. CASE u # t
    BY <1>1, <2>2 DEF Contents, Holding, Unsaved
  <2> QED
    BY <2>1, <2>2
<1>8. Alone'
  BY <1>1 DEF Contents, Holding, Alone, Shared
<1>9. Stored'
  BY <1>1 DEF Contents, Holding, Stored, Shared, KeepsDict
<1>10. OneDict'
  BY <1>1 DEF OneDict
<1>11. Gone'
  BY <1>1 DEF Contents, Gone
<1>12. Stays'
  BY <1>1 DEF Contents, Stays
<1> QED
  BY ONLY <1>2, <1>3, <1>4, <1>5, <1>6, <1>7, <1>8, <1>9, <1>10, <1>11, <1>12, PartsNext DEF TypeOK

\* The handler is about to take the session out of the store.
LEMMA LogoutStep ==
  ASSUME Inv, ~astray', NEW t \in Threads, Logout(t)
  PROVE  Inv'
<1> USE DEF Logout
<1>1. /\ Counters /\ Contents /\ (\A d \in Dicts : Counted(d))
      /\ \A u \in Threads : Holding(u) /\ KeepsDict(u) /\ Unsaved(u)
      /\ Alone /\ Stored /\ OneDict /\ Gone /\ Stays
      /\ AllAlive /\ \A i \in Ids : store[i] # Nil => store[i] \in alive
  BY ONLY Inv, Parts, Alive DEF TypeOK
<1>2. ASSUME NEW d \in Dicts PROVE Counted(d)'
  <2>1. Holders(d)' = Holders(d)
    BY <1>1, HoldersNext DEF Contents
  <2> QED
    BY <1>1, <2>1 DEF Counted
<1>3. Counters'
  BY <1>1 DEF Counters
<1>4. Contents'
  BY <1>1 DEF Contents, Holding
<1>5. ASSUME NEW u \in Threads PROVE Holding(u)'
  <2>1. CASE u = t
    <3>1. pc'[t] \in {"forget", "lookout"} /\ pc[t] = "handler" /\ cookie[t] \in known \cup {Nil}
      BY <1>1 DEF Contents, Holding
    <3>2. pc'[t] = "forget" => sid[t] \in Removable
      BY <1>1, <3>1 DEF Contents
    <3>3. pc'[t] = "lookout" => sid[t] = Nil /\ cookie[t] \in Removable
      BY <1>1, <3>1 DEF Contents
    <3> QED
      BY <1>1, <2>1, <3>1, <3>2, <3>3 DEF Holding
  <2>2. CASE u # t
    BY <1>1, <2>2 DEF Contents, Holding
  <2> QED
    BY <2>1, <2>2
<1>6. ASSUME NEW u \in Threads PROVE KeepsDict(u)'
  <2>1. CASE u = t
    BY <1>1, <2>1 DEF Contents, Holding, KeepsDict, Shared
  <2>2. CASE u # t
    BY <1>1, <2>2 DEF Contents, Holding, KeepsDict, Shared
  <2> QED
    BY <2>1, <2>2
<1>7. ASSUME NEW u \in Threads PROVE Unsaved(u)'
  <2>1. CASE u = t
    BY <1>1, <2>1 DEF Contents, Holding, Unsaved
  <2>2. CASE u # t
    BY <1>1, <2>2 DEF Contents, Holding, Unsaved
  <2> QED
    BY <2>1, <2>2
<1>8. Alone'
  BY <1>1 DEF Contents, Holding, Alone, Shared
<1>9. Stored'
  BY <1>1 DEF Contents, Holding, Stored, Shared
<1>10. OneDict'
  <2>1. UNCHANGED <<backend, sess>> /\ \A u \in Threads : Serving(u)' = Serving(u)
    BY <1>1 DEF Contents, Holding
  <2> QED
    BY ONLY <1>1, <2>1, Steady
<1>11. Gone'
  BY <1>1 DEF Contents, Gone
<1>12. Stays'
  BY <1>1 DEF Contents, Stays
<1> QED
  BY ONLY <1>2, <1>3, <1>4, <1>5, <1>6, <1>7, <1>8, <1>9, <1>10, <1>11, <1>12, PartsNext DEF TypeOK

\* The store lets go of the dictionary that the request has: the request still holds it ...
LEMMA RemoveFoundStep ==
  ASSUME Inv, ~astray', NEW t \in Threads, RemoveStored(t), store[sid[t]] # Nil
  PROVE  Inv'
<1>1. /\ Counters /\ Contents /\ (\A d \in Dicts : Counted(d))
      /\ \A u \in Threads : Holding(u) /\ KeepsDict(u) /\ Unsaved(u)
      /\ Alone /\ Stored /\ OneDict /\ Gone /\ Stays
      /\ AllAlive /\ \A i \in Ids : store[i] # Nil => store[i] \in alive
  BY ONLY Inv, Parts, Alive DEF TypeOK
<1>2. /\ InMemory /\ pc[t] \in {"forget", "purge"} /\ sid[t] \in Ids
      /\ store[sid[t]] = sess[t] /\ sess[t] \in Dicts
  <2>1. InMemory /\ pc[t] \in {"forget", "purge"}
    BY DEF RemoveStored
  <2>2. sid[t] # Nil /\ sid[t] \in Ids
    BY <1>1, <2>1 DEF Contents, Holding
  <2>3. store[sid[t]] = sess[t] /\ sess[t] # Nil /\ sess[t] \in Dicts
    BY <1>1, <2>1, <2>2 DEF Contents, KeepsDict
  <2> QED
    BY <2>1, <2>2, <2>3
<1>3. /\ UNCHANGED <<backend, table, restarts, filled, drawn, known, cookie, sid, sess, served>>
      /\ store' = [store EXCEPT ![sid[t]] = Nil]
      /\ pc' = [pc EXCEPT ![t] = IF pc[t] = "forget" THEN "letgo" ELSE "end"]
      /\ Deref(sess[t])
      /\ removed' = IF pc[t] = "forget" THEN removed \cup {sid[t]} ELSE removed
      /\ saved' = IF pc[t] = "forget" THEN saved \ {sid[t]} ELSE saved
      /\ kept' \subseteq kept \cup {sid[t]}
  BY <1>2 DEF RemoveStored, Removes
<1>4. ASSUME NEW d \in Dicts PROVE Counted(d)'
  <2>1. sess[t] \in alive /\ sess[t] \in Dicts
    BY <1>1, <1>2, <1>3, <1>2 DEF AllAlive, Contents, Holding
  <2>2. CASE d = sess[t]
    <3>1. <<"store", sid[t]>> \in Holders(d) /\ Holders(d)' = Holders(d) \ {<<"store", sid[t]>>}
      <4>1. /\ store' = [store EXCEPT ![sid[t]] = Nil] /\ store \in [Ids -> Dicts \cup {Nil}]
            /\ sid[t] \in Ids /\ store[sid[t]] = d /\ d # Nil /\ sess' = sess
            /\ pc[t] \in {"forget", "purge"} /\ pc'[t] \in {"letgo", "end"}
            /\ \A u \in Threads : u # t => pc'[u] = pc[u]
        BY <1>1, <1>2, <1>3, <2>2 DEF Contents, Holding
      <4> QED
        BY ONLY <4>1 DEF Holders
    <3>2. /\ refs'[d] = refs[d] - 1 /\ refs[d] \in Nat
          /\ d \in alive' <=> refs[d] # 1
      BY <1>1, <1>2, <1>3, <2>1, <2>2 DEF Counters, Deref
    <3> QED
      BY <1>1, <3>1, <3>2, CountLess
  <2>3. CASE d # sess[t]
    <3>1. Holders(d)' = Holders(d)
      BY <1>1, <1>2, <1>3, <2>3, HoldersNext DEF Contents, Holding
    <3>2. refs'[d] = refs[d] /\ (d \in alive' <=> d \in alive)
      BY <1>1, <1>2, <1>3, <2>1, <2>3 DEF Counters, Deref
    <3> QED
      BY <1>1, <3>1, <3>2 DEF Counted
  <2> QED
    BY <2>2, <2>3
<1>5. Counters'
  <2>1. sess[t] \in alive /\ sess[t] \in Dicts
    BY <1>1, <1>2, <1>3  DEF AllAlive, Contents
  <2>2. refs[sess[t]] - 1 \in Nat
    BY <1>1, <1>2, <1>3, <2>1 DEF Counters, Counted
  <2> QED
    BY <1>1, <1>2, <1>3, <2>2 DEF Counters, Deref
<1>6. Contents'
  <2>1. alive' \subseteq Dicts /\ astray' \in BOOLEAN
    BY <1>1, <1>2, <1>3 DEF Contents, Deref
  <2>2. removed' \subseteq drawn' /\ saved' \subseteq drawn' /\ kept' \subseteq drawn'
    <3>1. sid[t] \in drawn
      BY <1>1, <1>2 DEF Holding
    <3> QED
      BY <1>1, <1>3, <3>1 DEF Contents
  <2>3. pc' \in [Threads -> {"idle", "handler", "lookup", "lookout", "dup", "dupout", "create", "forget",
                             "letgo", "purge", "end", "save", "replace"}]
    BY <1>1, <1>2, <1>3 DEF Contents
  <2>4. store' \in [Ids -> Dicts \cup {Nil}]
    BY <1>1, <1>2, <1>3 DEF Contents
  <2> QED
    BY <1>1, <1>3, <2>1, <2>2, <2>3, <2>4 DEF Contents
<1>7. ASSUME NEW u \in Threads PROVE Holding(u)'
  <2>1. CASE u = t
    BY <1>1, <1>2, <1>3, <2>1 DEF Contents, Holding, Alone
  <2>2. CASE u # t
    <3>1. /\ Holding(u) /\ pc'[u] = pc[u]
          /\ UNCHANGED <<backend, filled, known, drawn, sess, sid, cookie>>
      BY <1>1, <1>3, <2>2 DEF Contents
    <3>2. pc[u] \in {"dup", "dupout"} => sess[u] \in alive'
      BY <1>1, <1>3, FoundStays DEF Holding
    <3> QED
      BY ONLY <3>1, <3>2 DEF Holding, Disputed, InMemory
  <2> QED
    BY <2>1, <2>2
<1>8. ASSUME NEW u \in Threads PROVE KeepsDict(u)'
  <2>1. CASE u = t
    BY <1>1, <1>2, <1>3, <2>1 DEF Contents, Holding, KeepsDict, Shared, Alone
  <2>2. CASE u # t
    BY <1>1, <1>2, <1>3, <2>2 DEF Contents, Holding, KeepsDict, Shared, Alone
  <2> QED
    BY <2>1, <2>2
<1>9. ASSUME NEW u \in Threads PROVE Unsaved(u)'
  <2>1. CASE u = t
    BY <1>1, <1>2, <1>3, <2>1 DEF Contents, Holding, Unsaved
  <2>2. CASE u # t
    BY <1>1, <1>2, <1>3, <2>2 DEF Contents, Holding, Unsaved
  <2> QED
    BY <2>1, <2>2
<1>10. Alone'
  BY <1>1, <1>2, <1>3 DEF Contents, Holding, Alone, Shared
<1>11. Stored'
  BY <1>1, <1>2, <1>3 DEF Contents, Holding, Stored, Shared, Deref
<1>12. OneDict'
  BY <1>1, <1>2, <1>3 DEF Contents, Holding, OneDict
<1>13. Gone'
  <2>1. ASSUME NEW i \in removed' \ kept'
        PROVE  store'[i] = Nil /\ \A u \in Threads : Serving(u)' = i => pc'[u] \in {"letgo", "end"}
    <3>1. /\ Serving(t) = sid[t] /\ Serving(t)' = sid[t] /\ pc'[t] \in {"letgo", "end"}
          /\ \A u \in Threads \ {t} : Serving(u)' = Serving(u) /\ pc'[u] = pc[u]
      BY <1>1, <1>2, <1>3 DEF Contents
    <3>2. CASE i = sid[t] /\ pc[t] = "forget"
      <4>1. \A u \in Threads \ {t} : Serving(u) = sid[t] => pc[u] \in {"letgo", "end"}
        BY <2>1, <3>2 DEF RemoveStored, Removes
      <4> QED
        BY <1>1, <1>2, <1>3, <3>1, <3>2, <4>1 DEF Contents
    <3>3. CASE i # sid[t] \/ pc[t] # "forget"
      <4>1. i \in removed \ kept
        BY <1>2, <2>1, <3>3 DEF RemoveStored, Removes
      <4>2. i \in Ids
        BY <1>1, <4>1 DEF Contents
      <4>3. store[i] = Nil /\ \A u \in Threads : Serving(u) = i => pc[u] \in {"letgo", "end"}
        BY <1>1, <1>2, <4>1 DEF Gone
      <4> QED
        BY <1>1, <1>2, <1>3, <3>1, <4>2, <4>3 DEF Contents
    <3> QED
      BY <3>2, <3>3
  <2> QED
    BY <2>1 DEF Gone
<1>14. Stays'
  BY <1>1, <1>2, <1>3, AliveNext, <1>4, <1>5, <1>6, <1>7 DEF Contents, Stays, TypeOK, Holding, Unsaved
<1> QED
  BY ONLY <1>4, <1>5, <1>6, <1>7, <1>8, <1>9, <1>10, <1>11, <1>12, <1>13, <1>14, PartsNext DEF TypeOK

\* ... or had none, because another request has removed it.
LEMMA RemoveMissedStep ==
  ASSUME Inv, ~astray', NEW t \in Threads, RemoveStored(t), store[sid[t]] = Nil
  PROVE  Inv'
<1>1. /\ Counters /\ Contents /\ (\A d \in Dicts : Counted(d))
      /\ \A u \in Threads : Holding(u) /\ KeepsDict(u) /\ Unsaved(u)
      /\ Alone /\ Stored /\ OneDict /\ Gone /\ Stays
      /\ AllAlive /\ \A i \in Ids : store[i] # Nil => store[i] \in alive
  BY ONLY Inv, Parts, Alive DEF TypeOK
<1>2. InMemory /\ pc[t] \in {"forget", "purge"} /\ sid[t] \in Ids
  <2>1. InMemory /\ pc[t] \in {"forget", "purge"}
    BY DEF RemoveStored
  <2> QED
    BY <1>1, <2>1 DEF Contents, Holding
<1>3. /\ UNCHANGED <<backend, table, restarts, filled, drawn, known, cookie, sid, sess, served>>
      /\ store' = store /\ NoDeref
      /\ pc' = [pc EXCEPT ![t] = IF pc[t] = "forget" THEN "letgo" ELSE "end"]
      /\ removed' = IF pc[t] = "forget" THEN removed \cup {sid[t]} ELSE removed
      /\ saved' = IF pc[t] = "forget" THEN saved \ {sid[t]} ELSE saved
      /\ kept' \subseteq kept \cup {sid[t]}
  <2>1. store' = store
    BY <1>1, <1>2 DEF Contents, RemoveStored
  <2> QED
    BY <1>2, <2>1 DEF RemoveStored, Removes
<1>4. ASSUME NEW d \in Dicts PROVE Counted(d)'
  <2>1. Holders(d)' = Holders(d)
    BY <1>1, <1>2, <1>3, HoldersNext DEF Contents
  <2> QED
    BY <1>1, <1>3, <2>1 DEF Counted
<1>5. Counters'
  BY <1>1, <1>3 DEF Counters
<1>6. Contents'
  <2>1. alive' \subseteq Dicts /\ astray' \in BOOLEAN
    BY <1>1, <1>2, <1>3 DEF Contents
  <2>2. removed' \subseteq drawn' /\ saved' \subseteq drawn' /\ kept' \subseteq drawn'
    <3>1. sid[t] \in drawn
      BY <1>1, <1>2 DEF Holding
    <3> QED
      BY <1>1, <1>3, <3>1 DEF Contents
  <2>3. pc' \in [Threads -> {"idle", "handler", "lookup", "lookout", "dup", "dupout", "create", "forget",
                             "letgo", "purge", "end", "save", "replace"}]
    BY <1>1, <1>2, <1>3 DEF Contents
  <2>4. store' \in [Ids -> Dicts \cup {Nil}]
    BY <1>1, <1>2, <1>3 DEF Contents
  <2> QED
    BY <1>1, <1>3, <2>1, <2>2, <2>3, <2>4 DEF Contents
<1>7. ASSUME NEW u \in Threads PROVE Holding(u)'
  <2>1. CASE u = t
    BY <1>1, <1>2, <1>3, <2>1 DEF Contents, Holding, Alone
  <2>2. CASE u # t
    <3>1. /\ Holding(u) /\ pc'[u] = pc[u]
          /\ UNCHANGED <<backend, filled, known, drawn, sess, sid, cookie>>
      BY <1>1, <1>3, <2>2 DEF Contents
    <3>2. pc[u] \in {"dup", "dupout"} => sess[u] \in alive'
      BY <1>1, <1>3, FoundStays DEF Holding
    <3> QED
      BY ONLY <3>1, <3>2 DEF Holding, Disputed, InMemory
  <2> QED
    BY <2>1, <2>2
<1>8. ASSUME NEW u \in Threads PROVE KeepsDict(u)'
  <2>1. CASE u = t
    BY <1>1, <1>2, <1>3, <2>1 DEF Contents, Holding, KeepsDict, Shared, Alone
  <2>2. CASE u # t
    BY <1>1, <1>2, <1>3, <2>2 DEF Contents, Holding, KeepsDict, Shared, Alone
  <2> QED
    BY <2>1, <2>2
<1>9. ASSUME NEW u \in Threads PROVE Unsaved(u)'
  <2>1. CASE u = t
    BY <1>1, <1>2, <1>3, <2>1 DEF Contents, Holding, Unsaved
  <2>2. CASE u # t
    BY <1>1, <1>2, <1>3, <2>2 DEF Contents, Holding, Unsaved
  <2> QED
    BY <2>1, <2>2
<1>10. Alone'
  BY <1>1, <1>2, <1>3 DEF Contents, Holding, Alone, Shared
<1>11. Stored'
  BY <1>1, <1>2, <1>3 DEF Contents, Holding, Stored, Shared
<1>12. OneDict'
  BY <1>1, <1>2, <1>3 DEF Contents, Holding, OneDict
<1>13. Gone'
  <2>1. ASSUME NEW i \in removed' \ kept'
        PROVE  store'[i] = Nil /\ \A u \in Threads : Serving(u)' = i => pc'[u] \in {"letgo", "end"}
    <3>1. /\ Serving(t) = sid[t] /\ Serving(t)' = sid[t] /\ pc'[t] \in {"letgo", "end"}
          /\ \A u \in Threads \ {t} : Serving(u)' = Serving(u) /\ pc'[u] = pc[u]
      BY <1>1, <1>2, <1>3 DEF Contents
    <3>2. CASE i = sid[t] /\ pc[t] = "forget"
      <4>1. \A u \in Threads \ {t} : Serving(u) = sid[t] => pc[u] \in {"letgo", "end"}
        BY <2>1, <3>2 DEF RemoveStored, Removes
      <4> QED
        BY <1>1, <1>2, <1>3, <3>1, <3>2, <4>1 DEF Contents
    <3>3. CASE i # sid[t] \/ pc[t] # "forget"
      <4>1. i \in removed \ kept
        BY <1>2, <2>1, <3>3 DEF RemoveStored, Removes
      <4>2. i \in Ids
        BY <1>1, <4>1 DEF Contents
      <4>3. store[i] = Nil /\ \A u \in Threads : Serving(u) = i => pc[u] \in {"letgo", "end"}
        BY <1>1, <1>2, <4>1 DEF Gone
      <4> QED
        BY <1>1, <1>2, <1>3, <3>1, <4>2, <4>3 DEF Contents
    <3> QED
      BY <3>2, <3>3
  <2> QED
    BY <2>1 DEF Gone
<1>14. Stays'
  BY <1>1, <1>2, <1>3, AliveNext, <1>4, <1>5, <1>6, <1>7 DEF Contents, Stays, TypeOK, Holding, Unsaved
<1> QED
  BY ONLY <1>4, <1>5, <1>6, <1>7, <1>8, <1>9, <1>10, <1>11, <1>12, <1>13, <1>14, PartsNext DEF TypeOK

\* Whether the store had it or not
LEMMA RemoveStoredStep ==
  ASSUME Inv, ~astray', NEW t \in Threads, RemoveStored(t)
  PROVE  Inv'
BY RemoveFoundStep, RemoveMissedStep

\* The request gives its reference back; the last one frees the dictionary.
LEMMA LetGoStep ==
  ASSUME Inv, ~astray', NEW t \in Threads, LetGo(t)
  PROVE  Inv'
<1> USE DEF LetGo
<1>1. /\ Counters /\ Contents /\ (\A d \in Dicts : Counted(d))
      /\ \A u \in Threads : Holding(u) /\ KeepsDict(u) /\ Unsaved(u)
      /\ Alone /\ Stored /\ OneDict /\ Gone /\ Stays
      /\ AllAlive /\ \A i \in Ids : store[i] # Nil => store[i] \in alive
  BY ONLY Inv, Parts, Alive DEF TypeOK
<1>2. ASSUME NEW d \in Dicts PROVE Counted(d)'
  <2>1. CASE d = sess[t]
    <3>1. sess[t] # Nil /\ d \in alive
      BY <1>1, <2>1 DEF AllAlive
    <3>2. <<"request", t>> \in Holders(d) /\ Holders(d)' = Holders(d) \ {<<"request", t>>}
      <4>1. /\ store' = store /\ sess' = [sess EXCEPT ![t] = Nil] /\ DOMAIN sess = Threads
            /\ sess[t] = d /\ d # Nil
            /\ pc[t] \in {"letgo", "end"} /\ pc'[t] \in {"handler", "idle"}
            /\ \A u \in Threads : u # t => pc'[u] = pc[u]
        BY <1>1, <2>1, <3>1 DEF Contents, Holding
      <4> QED
        BY ONLY <4>1, t \in Threads DEF Holders
    <3>3. refs'[d] = refs[d] - 1 /\ refs[d] \in Nat /\ (d \in alive' <=> refs[d] # 1)
      BY <1>1, <2>1, <3>1 DEF Counters, Deref
    <3> QED
      BY <1>1, <3>2, <3>3, CountLess
  <2>2. CASE d # sess[t]
    <3>1. Holders(d)' = Holders(d)
      BY <1>1, <2>2, HoldersNext DEF Contents, Holding
    <3>2. refs'[d] = refs[d] /\ (d \in alive' <=> d \in alive)
      BY <1>1, <2>2 DEF Counters, Contents, Deref
    <3> QED
      BY <1>1, <3>1, <3>2 DEF Counted
  <2> QED
    BY <2>1, <2>2
<1>3. Counters'
  <2>1. ASSUME sess[t] # Nil PROVE sess[t] \in Dicts /\ refs[sess[t]] - 1 \in Nat
    <3>1. sess[t] \in alive /\ sess[t] \in Dicts
      BY <1>1, <2>1 DEF AllAlive, Contents
    <3> QED
      BY <1>1, <3>1 DEF Counters, Counted
  <2> QED
    BY <1>1, <2>1 DEF Counters, Deref
<1>4. Contents'
  BY <1>1 DEF Contents, Holding, Deref
<1>5. ASSUME NEW u \in Threads PROVE Holding(u)'
  <2>1. CASE u = t
    BY <1>1, <2>1 DEF Contents, Holding
  <2>2. CASE u # t
    <3>1. /\ Holding(u) /\ pc'[u] = pc[u] /\ sess'[u] = sess[u] /\ sid'[u] = sid[u]
          /\ cookie'[u] = cookie[u] /\ UNCHANGED <<backend, filled, known, drawn>>
      BY <1>1, <2>2 DEF Contents
    <3>2. pc[u] \in {"dup", "dupout"} => sess[u] \in alive'
      BY <1>1, FoundStays DEF Holding
    <3> QED
      BY ONLY <3>1, <3>2 DEF Holding, Disputed, InMemory
  <2> QED
    BY <2>1, <2>2
<1>6. ASSUME NEW u \in Threads PROVE KeepsDict(u)'
  <2>1. CASE u = t
    BY <1>1, <2>1 DEF Contents, Holding, KeepsDict, Shared
  <2>2. CASE u # t
    BY <1>1, <2>2 DEF Contents, Holding, KeepsDict, Shared
  <2> QED
    BY <2>1, <2>2
<1>7. ASSUME NEW u \in Threads PROVE Unsaved(u)'
  <2>1. CASE u = t
    BY <1>1, <2>1 DEF Contents, Holding, Unsaved
  <2>2. CASE u # t
    BY <1>1, <2>2 DEF Contents, Holding, Unsaved
  <2> QED
    BY <2>1, <2>2
<1>8. Alone'
  <2>1. \A u \in Threads, i \in Ids : i \in {cookie'[u], sid'[u]} => i \in {cookie[u], sid[u]}
    BY <1>1 DEF Contents
  <2> QED
    BY <1>1, <2>1 DEF Alone, Shared
<1>9. Stored'
  BY <1>1 DEF Contents, Holding, Stored, Shared
<1>10. OneDict'
  BY <1>1, ZenonT(40) DEF Contents, Holding, OneDict
<1>11. Gone'
  BY <1>1 DEF Contents, Gone
<1>12. Stays'
  <2>1. \A i \in Ids : store'[i] # Nil => store'[i] \in alive'
    BY <1>2, <1>3, <1>4, <1>5, AliveNext DEF TypeOK
  <2> QED
    BY <1>1, <2>1 DEF Contents, Stays
<1> QED
  BY ONLY <1>2, <1>3, <1>4, <1>5, <1>6, <1>7, <1>8, <1>9, <1>10, <1>11, <1>12, PartsNext DEF TypeOK

\* A request that ends without a session holds none.
LEMMA FinishStep ==
  ASSUME Inv, ~astray', NEW t \in Threads, Finish(t)
  PROVE  Inv'
<1> USE DEF Finish
<1>1. /\ Counters /\ Contents /\ (\A d \in Dicts : Counted(d))
      /\ \A u \in Threads : Holding(u) /\ KeepsDict(u) /\ Unsaved(u)
      /\ Alone /\ Stored /\ OneDict /\ Gone /\ Stays
      /\ AllAlive /\ \A i \in Ids : store[i] # Nil => store[i] \in alive
  BY ONLY Inv, Parts, Alive DEF TypeOK
<1>2. ASSUME NEW d \in Dicts PROVE Counted(d)'
  <2>1. Holders(d)' = Holders(d)
    BY <1>1, HoldersNext DEF Contents, Holding
  <2> QED
    BY <1>1, <2>1 DEF Counted
<1>3. Counters'
  BY <1>1 DEF Counters
<1>4. Contents'
  BY <1>1 DEF Contents, Holding
<1>5. ASSUME NEW u \in Threads PROVE Holding(u)'
  <2>1. CASE u = t
    BY <1>1, <2>1 DEF Contents, Holding
  <2>2. CASE u # t
    BY <1>1, <2>2 DEF Contents, Holding
  <2> QED
    BY <2>1, <2>2
<1>6. ASSUME NEW u \in Threads PROVE KeepsDict(u)'
  <2>1. CASE u = t
    BY <1>1, <2>1 DEF Contents, Holding, KeepsDict, Shared
  <2>2. CASE u # t
    BY <1>1, <2>2 DEF Contents, Holding, KeepsDict, Shared
  <2> QED
    BY <2>1, <2>2
<1>7. ASSUME NEW u \in Threads PROVE Unsaved(u)'
  <2>1. CASE u = t
    BY <1>1, <2>1 DEF Contents, Holding, Unsaved
  <2>2. CASE u # t
    BY <1>1, <2>2 DEF Contents, Holding, Unsaved
  <2> QED
    BY <2>1, <2>2
<1>8. Alone'
  <2>1. \A u \in Threads, i \in Ids : i \in {cookie'[u], sid'[u]} => i \in {cookie[u], sid[u]}
    BY <1>1 DEF Contents
  <2> QED
    BY <1>1, <2>1 DEF Alone, Shared
<1>9. Stored'
  BY <1>1 DEF Contents, Holding, Stored, Shared
<1>10. OneDict'
  BY <1>1, ZenonT(40) DEF Contents, Holding, OneDict
<1>11. Gone'
  BY <1>1 DEF Contents, Gone
<1>12. Stays'
  BY <1>1 DEF Contents, Stays
<1> QED
  BY ONLY <1>2, <1>3, <1>4, <1>5, <1>6, <1>7, <1>8, <1>9, <1>10, <1>11, <1>12, PartsNext DEF TypeOK

\* The end of a request decides whether to save or to remove.
LEMMA CountStep ==
  ASSUME Inv, ~astray', NEW t \in Threads, Count(t)
  PROVE  Inv'
<1> USE DEF Count
<1>1. /\ Counters /\ Contents /\ (\A d \in Dicts : Counted(d))
      /\ \A u \in Threads : Holding(u) /\ KeepsDict(u) /\ Unsaved(u)
      /\ Alone /\ Stored /\ OneDict /\ Gone /\ Stays
      /\ AllAlive /\ \A i \in Ids : store[i] # Nil => store[i] \in alive
  BY ONLY Inv, Parts, Alive DEF TypeOK
<1>2. ASSUME NEW d \in Dicts PROVE Counted(d)'
  <2>1. Holders(d)' = Holders(d)
    BY <1>1, HoldersNext DEF Contents
  <2> QED
    BY <1>1, <2>1 DEF Counted
<1>3. Counters'
  BY <1>1 DEF Counters
<1>4. Contents'
  BY <1>1 DEF Contents, Holding
<1>5. ASSUME NEW u \in Threads PROVE Holding(u)'
  <2>1. CASE u = t
    BY <1>1, <2>1 DEF Contents, Holding
  <2>2. CASE u # t
    BY <1>1, <2>2 DEF Contents, Holding
  <2> QED
    BY <2>1, <2>2
<1>6. ASSUME NEW u \in Threads PROVE KeepsDict(u)'
  <2>1. CASE u = t
    BY <1>1, <2>1 DEF Contents, Holding, KeepsDict, Shared
  <2>2. CASE u # t
    BY <1>1, <2>2 DEF Contents, Holding, KeepsDict, Shared
  <2> QED
    BY <2>1, <2>2
<1>7. ASSUME NEW u \in Threads PROVE Unsaved(u)'
  <2>1. CASE u = t
    BY <1>1, <2>1 DEF Contents, Holding, Unsaved
  <2>2. CASE u # t
    BY <1>1, <2>2 DEF Contents, Holding, Unsaved
  <2> QED
    BY <2>1, <2>2
<1>8. Alone'
  BY <1>1 DEF Contents, Holding, Alone, Shared
<1>9. Stored'
  BY <1>1 DEF Contents, Holding, Stored, Shared
<1>10. OneDict'
  BY <1>1, ZenonT(40) DEF Contents, Holding, OneDict
<1>11. Gone'
  BY <1>1 DEF Contents, Gone
<1>12. Stays'
  BY <1>1 DEF Contents, Stays
<1> QED
  BY ONLY <1>2, <1>3, <1>4, <1>5, <1>6, <1>7, <1>8, <1>9, <1>10, <1>11, <1>12, PartsNext DEF TypeOK

\* The reference for the store is counted before the dictionary is put there.
LEMMA SaveStep ==
  ASSUME Inv, ~astray', NEW t \in Threads, Save(t)
  PROVE  Inv'
<1> USE DEF Save
<1>1. /\ Counters /\ Contents /\ (\A d \in Dicts : Counted(d))
      /\ \A u \in Threads : Holding(u) /\ KeepsDict(u) /\ Unsaved(u)
      /\ Alone /\ Stored /\ OneDict /\ Gone /\ Stays
      /\ AllAlive /\ \A i \in Ids : store[i] # Nil => store[i] \in alive
  BY ONLY Inv, Parts, Alive DEF TypeOK
<1>2. ASSUME NEW d \in Dicts PROVE Counted(d)'
  <2>1. sess[t] \in alive /\ sess[t] \in Dicts
    BY <1>1, Constants DEF AllAlive, Contents, Holding
  <2>2. CASE d = sess[t]
    <3>1. <<"saving", t>> \notin Holders(d) /\ Holders(d)' = Holders(d) \cup {<<"saving", t>>}
      <4>1. /\ store' = store /\ sess' = sess /\ sess[t] = d
            /\ pc[t] = "save" /\ pc'[t] = "replace"
            /\ \A u \in Threads : u # t => pc'[u] = pc[u]
        BY <1>1, <2>2 DEF Contents, Holding
      <4> QED
        BY ONLY <4>1 DEF Holders
    <3>2. /\ refs'[d] = refs[d] + 1 /\ refs[d] \in Nat
          /\ d \in alive'
      BY <1>1, <2>1, <2>2 DEF Counters, Deref
    <3> QED
      BY <1>1, <3>1, <3>2, CountMore
  <2>3. CASE d # sess[t]
    <3>1. Holders(d)' = Holders(d)
      BY <1>1, <2>3, HoldersNext DEF Contents, Holding
    <3>2. refs'[d] = refs[d] /\ (d \in alive' <=> d \in alive)
      BY <1>1, <2>1, <2>3 DEF Counters, Deref
    <3> QED
      BY <1>1, <3>1, <3>2 DEF Counted
  <2> QED
    BY <2>2, <2>3
<1>3. Counters'
  <2>1. sess[t] \in Dicts
    BY <1>1 DEF Contents, Holding
  <2>2. refs[sess[t]] + 1 \in Nat
    BY <1>1, <2>1 DEF Counters
  <2> QED
    BY <1>1, <2>2 DEF Counters
<1>4. Contents'
  BY <1>1 DEF Contents, Holding
<1>5. ASSUME NEW u \in Threads PROVE Holding(u)'
  <2>1. CASE u = t
    BY <1>1, <2>1 DEF Contents, Holding
  <2>2. CASE u # t
    BY <1>1, <2>2 DEF Contents, Holding
  <2> QED
    BY <2>1, <2>2
<1>6. ASSUME NEW u \in Threads PROVE KeepsDict(u)'
  <2>1. CASE u = t
    BY <1>1, <2>1 DEF Contents, Holding, KeepsDict, Shared
  <2>2. CASE u # t
    BY <1>1, <2>2 DEF Contents, Holding, KeepsDict, Shared
  <2> QED
    BY <2>1, <2>2
<1>7. ASSUME NEW u \in Threads PROVE Unsaved(u)'
  <2>1. CASE u = t
    BY <1>1, <2>1 DEF Contents, Holding, Unsaved
  <2>2. CASE u # t
    BY <1>1, <2>2 DEF Contents, Holding, Unsaved
  <2> QED
    BY <2>1, <2>2
<1>8. Alone'
  BY <1>1 DEF Contents, Holding, Alone, Shared
<1>9. Stored'
  BY <1>1 DEF Contents, Holding, Stored, Shared
<1>10. OneDict'
  BY <1>1 DEF Contents, Holding, OneDict
<1>11. Gone'
  BY <1>1 DEF Contents, Gone
<1>12. Stays'
  BY <1>1 DEF Contents, Stays
<1> QED
  BY ONLY <1>2, <1>3, <1>4, <1>5, <1>6, <1>7, <1>8, <1>9, <1>10, <1>11, <1>12, PartsNext DEF TypeOK

\* What is replaced is the request's own dictionary: the reference taken a step before
\* is released again ...
LEMMA ReplaceFoundStep ==
  ASSUME Inv, ~astray', NEW t \in Threads, Replace(t), store[sid[t]] # Nil
  PROVE  Inv'
<1>1. /\ Counters /\ Contents /\ (\A d \in Dicts : Counted(d))
      /\ \A u \in Threads : Holding(u) /\ KeepsDict(u) /\ Unsaved(u)
      /\ Alone /\ Stored /\ OneDict /\ Gone /\ Stays
      /\ AllAlive /\ \A i \in Ids : store[i] # Nil => store[i] \in alive
  BY ONLY Inv, Parts, Alive DEF TypeOK
<1>2. InMemory /\ pc[t] = "replace" /\ sid[t] \in Ids /\ store[sid[t]] = sess[t] /\ sess[t] \in Dicts
  <2>1. pc[t] = "replace"
    BY DEF Replace
  <2>2. InMemory /\ sid[t] # Nil /\ sid[t] \in Ids
    BY <1>1, <2>1 DEF Contents, Holding
  <2> QED
    BY <1>1, <2>1, <2>2 DEF Contents, KeepsDict
<1>3. /\ UNCHANGED <<backend, table, restarts, store, filled, drawn, known, cookie, sid, sess, served,
                     removed, kept>>
      /\ pc' = [pc EXCEPT ![t] = "end"]
      /\ Deref(sess[t])
      /\ saved' = IF filled[sess[t]] THEN saved \cup {sid[t]} ELSE saved
  <2>1. store' = store
    BY <1>1, <1>2 DEF Replace, Contents
  <2> QED
    BY <1>2, <2>1 DEF Replace
<1>4. ASSUME NEW d \in Dicts PROVE Counted(d)'
  <2>1. sess[t] \in alive /\ sess[t] \in Dicts
    BY <1>1, <1>2, <1>3, <1>2 DEF AllAlive, Contents, Holding
  <2>2. CASE d = sess[t]
    <3>1. <<"saving", t>> \in Holders(d) /\ Holders(d)' = Holders(d) \ {<<"saving", t>>}
      <4>1. /\ store' = store /\ sess' = sess /\ sess[t] = d
            /\ pc[t] = "replace" /\ pc'[t] = "end"
            /\ \A u \in Threads : u # t => pc'[u] = pc[u]
        BY <1>1, <1>2, <1>3, <2>2 DEF Contents, Holding
      <4> QED
        BY ONLY <4>1 DEF Holders
    <3>2. /\ refs'[d] = refs[d] - 1 /\ refs[d] \in Nat
          /\ d \in alive' <=> refs[d] # 1
      BY <1>1, <1>2, <1>3, <2>1, <2>2 DEF Counters, Deref
    <3> QED
      BY <1>1, <3>1, <3>2, CountLess
  <2>3. CASE d # sess[t]
    <3>1. Holders(d)' = Holders(d)
      BY <1>1, <1>2, <1>3, <2>3, HoldersNext DEF Contents, Holding
    <3>2. refs'[d] = refs[d] /\ (d \in alive' <=> d \in alive)
      BY <1>1, <1>2, <1>3, <2>1, <2>3 DEF Counters, Deref
    <3> QED
      BY <1>1, <3>1, <3>2 DEF Counted
  <2> QED
    BY <2>2, <2>3
<1>5. Counters'
  <2>1. sess[t] \in alive /\ sess[t] \in Dicts
    BY <1>1, <1>2, <1>3  DEF AllAlive, Contents
  <2>2. refs[sess[t]] - 1 \in Nat
    BY <1>1, <1>2, <1>3, <2>1 DEF Counters, Counted
  <2> QED
    BY <1>1, <1>2, <1>3, <2>2 DEF Counters, Deref
<1>6. Contents'
  <2>1. alive' \subseteq Dicts /\ astray' \in BOOLEAN
    BY <1>1, <1>2, <1>3 DEF Contents, Deref
  <2>2. removed' \subseteq drawn' /\ saved' \subseteq drawn' /\ kept' \subseteq drawn'
    <3>1. sid[t] \in drawn
      BY <1>1, <1>2 DEF Holding
    <3> QED
      BY <1>1, <1>3, <3>1 DEF Contents
  <2>3. pc' \in [Threads -> {"idle", "handler", "lookup", "lookout", "dup", "dupout", "create", "forget",
                             "letgo", "purge", "end", "save", "replace"}]
    BY <1>1, <1>2, <1>3 DEF Contents
  <2>4. store' \in [Ids -> Dicts \cup {Nil}]
    BY <1>1, <1>2, <1>3 DEF Contents
  <2> QED
    BY <1>1, <1>3, <2>1, <2>2, <2>3, <2>4 DEF Contents
<1>7. ASSUME NEW u \in Threads PROVE Holding(u)'
  <2>1. CASE u = t
    BY <1>1, <1>2, <1>3, <2>1 DEF Contents, Holding
  <2>2. CASE u # t
    <3>1. /\ Holding(u) /\ pc'[u] = pc[u]
          /\ UNCHANGED <<backend, filled, known, drawn, sess, sid, cookie>>
      BY <1>1, <1>3, <2>2 DEF Contents
    <3>2. pc[u] \in {"dup", "dupout"} => sess[u] \in alive'
      BY <1>1, <1>3, FoundStays DEF Holding
    <3> QED
      BY ONLY <3>1, <3>2 DEF Holding, Disputed, InMemory
  <2> QED
    BY <2>1, <2>2
<1>8. ASSUME NEW u \in Threads PROVE KeepsDict(u)'
  <2>1. CASE u = t
    BY <1>1, <1>2, <1>3, <2>1 DEF Contents, Holding, KeepsDict, Shared
  <2>2. CASE u # t
    BY <1>1, <1>2, <1>3, <2>2 DEF Contents, Holding, KeepsDict, Shared
  <2> QED
    BY <2>1, <2>2
<1>9. ASSUME NEW u \in Threads PROVE Unsaved(u)'
  <2>1. CASE u = t
    BY <1>1, <1>2, <1>3, <2>1 DEF Contents, Holding, Unsaved, OneDict
  <2>2. CASE u # t
    BY <1>1, <1>2, <1>3, <2>2 DEF Contents, Holding, Unsaved, OneDict
  <2> QED
    BY <2>1, <2>2
<1>10. Alone'
  BY <1>1, <1>2, <1>3 DEF Contents, Holding, Alone, Shared
<1>11. Stored'
  BY <1>1, <1>2, <1>3 DEF Contents, Holding, Stored, Shared, Deref
<1>12. OneDict'
  BY <1>1, <1>2, <1>3 DEF Contents, Holding, OneDict
<1>13. Gone'
  <2>1. sid[t] \notin removed \ kept
    BY <1>1, <1>2 DEF Gone
  <2>2. /\ \A u \in Threads : Serving(u)' = Serving(u) /\ (pc'[u] = pc[u] \/ Serving(u) = sid[t])
        /\ \A i \in Ids \ {sid[t]} : store'[i] = store[i]
    BY <1>1, <1>2, <1>3 DEF Contents
  <2>3. removed' = removed /\ kept' = kept /\ removed \subseteq Ids /\ backend' = backend
    BY <1>1, <1>3 DEF Contents
  <2> QED
    BY ONLY <1>1, <2>1, <2>2, <2>3 DEF Gone, InMemory
<1>14. Stays'
  BY <1>1, <1>2, <1>3, AliveNext, <1>4, <1>5, <1>6, <1>7 DEF Contents, Stays, TypeOK
<1> QED
  BY ONLY <1>4, <1>5, <1>6, <1>7, <1>8, <1>9, <1>10, <1>11, <1>12, <1>13, <1>14, PartsNext DEF TypeOK

\* ... or nothing is: then the reference becomes the store's, and the session that another
\* request has removed is there again.
LEMMA ReplaceMissedStep ==
  ASSUME Inv, ~astray', NEW t \in Threads, Replace(t), store[sid[t]] = Nil
  PROVE  Inv'
<1>1. /\ Counters /\ Contents /\ (\A d \in Dicts : Counted(d))
      /\ \A u \in Threads : Holding(u) /\ KeepsDict(u) /\ Unsaved(u)
      /\ Alone /\ Stored /\ OneDict /\ Gone /\ Stays
      /\ AllAlive /\ \A i \in Ids : store[i] # Nil => store[i] \in alive
  BY ONLY Inv, Parts, Alive DEF TypeOK
<1>2. InMemory /\ pc[t] = "replace" /\ sid[t] \in Ids /\ sess[t] \in Dicts /\ sess[t] \in alive
  <2>1. pc[t] = "replace"
    BY DEF Replace
  <2>2. InMemory /\ sid[t] # Nil /\ sid[t] \in Ids
    BY <1>1, <2>1 DEF Contents, Holding
  <2>3. sess[t] # Nil /\ sess[t] \in Dicts
    BY <1>1, <2>1, <2>2 DEF Contents, KeepsDict
  <2> QED
    BY <1>1, <2>1, <2>2, <2>3 DEF AllAlive
<1>3. /\ UNCHANGED <<backend, table, restarts, filled, drawn, known, cookie, sid, sess, served,
                     removed, kept>>
      /\ store' = [store EXCEPT ![sid[t]] = sess[t]] /\ NoDeref
      /\ pc' = [pc EXCEPT ![t] = "end"]
      /\ saved' = IF filled[sess[t]] THEN saved \cup {sid[t]} ELSE saved
  BY <1>2 DEF Replace
<1>4. ASSUME NEW d \in Dicts PROVE Counted(d)'
  <2>1. CASE d = sess[t]
    <3>1. /\ store' = [store EXCEPT ![sid[t]] = d] /\ DOMAIN store = Ids /\ sess' = sess /\ sess[t] = d
          /\ sid[t] \in Ids /\ store[sid[t]] # d /\ pc[t] = "replace" /\ pc'[t] = "end"
          /\ \A u \in Threads : u # t => pc'[u] = pc[u]
      BY <1>1, <1>2, <1>3, <2>1 DEF Contents
    <3>2. <<"saving", t>> \in Holders(d) /\ <<"store", sid[t]>> \notin Holders(d)
      BY ONLY <3>1, t \in Threads DEF Holders
    <3>3. Holders(d)' = (Holders(d) \ {<<"saving", t>>}) \cup {<<"store", sid[t]>>}
      BY ONLY <3>1, t \in Threads DEF Holders
    <3> QED
      BY <1>1, <1>3, <3>2, <3>3, CountSame
  <2>2. CASE d # sess[t]
    <3>1. Holders(d)' = Holders(d)
      BY <1>1, <1>2, <1>3, <2>2, HoldersNext DEF Contents
    <3> QED
      BY <1>1, <1>3, <3>1 DEF Counted
  <2> QED
    BY <2>1, <2>2
<1>5. Counters'
  BY <1>1, <1>3 DEF Counters
<1>6. Contents'
  <2>1. alive' \subseteq Dicts /\ astray' \in BOOLEAN
    BY <1>1, <1>2, <1>3 DEF Contents
  <2>2. removed' \subseteq drawn' /\ saved' \subseteq drawn' /\ kept' \subseteq drawn'
    <3>1. sid[t] \in drawn
      BY <1>1, <1>2 DEF Holding
    <3> QED
      BY <1>1, <1>3, <3>1 DEF Contents
  <2>3. pc' \in [Threads -> {"idle", "handler", "lookup", "lookout", "dup", "dupout", "create", "forget",
                             "letgo", "purge", "end", "save", "replace"}]
    BY <1>1, <1>2, <1>3 DEF Contents
  <2>4. store' \in [Ids -> Dicts \cup {Nil}]
    BY <1>1, <1>2, <1>3 DEF Contents
  <2> QED
    BY <1>1, <1>3, <2>1, <2>2, <2>3, <2>4 DEF Contents
<1>7. ASSUME NEW u \in Threads PROVE Holding(u)'
  <2>1. CASE u = t
    BY <1>1, <1>2, <1>3, <2>1 DEF Contents, Holding
  <2>2. CASE u # t
    <3>1. /\ Holding(u) /\ pc'[u] = pc[u]
          /\ UNCHANGED <<backend, filled, known, drawn, sess, sid, cookie>>
      BY <1>1, <1>3, <2>2 DEF Contents
    <3>2. pc[u] \in {"dup", "dupout"} => sess[u] \in alive'
      BY <1>1, <1>3, FoundStays DEF Holding
    <3> QED
      BY ONLY <3>1, <3>2 DEF Holding, Disputed, InMemory
  <2> QED
    BY <2>1, <2>2
<1>8. ASSUME NEW u \in Threads PROVE KeepsDict(u)'
  <2>1. CASE u = t
    BY <1>1, <1>2, <1>3, <2>1 DEF Contents, Holding, KeepsDict, Shared
  <2>2. CASE u # t
    <3>1. /\ Serving(u)' = Serving(u) /\ UNCHANGED <<backend, sess, known, filled>>
          /\ KeepsDict(u) /\ OneDict /\ InMemory /\ Serving(t) = sid[t] /\ sid[t] # Nil
          /\ store' = [store EXCEPT ![sid[t]] = sess[t]] /\ DOMAIN store = Ids /\ Serving(u) \in Ids \cup {Nil}
      BY <1>1, <1>2, <1>3, <2>2 DEF Contents
    <3>2. Serving(u) # Nil => (Serving(u) = sid[t] <=> sess[u] = sess[t])
      BY ONLY <3>1, u \in Threads, t \in Threads DEF OneDict
    <3>3. CASE Serving(u) = Nil
      BY <3>1, <3>3 DEF KeepsDict
    <3>4. CASE Serving(u) # Nil
      <4>1. /\ sess[u] # Nil /\ store[Serving(u)] \in {sess[u], Nil}
            /\ \A i \in Ids : store[i] = sess[u] => i = Serving(u)
            /\ Shared(Serving(u)) /\ Serving(u) \notin Emptiable => filled[sess[u]]
        BY ONLY <3>1, <3>4 DEF KeepsDict
      <4>2. \A i \in Ids : store'[i] = IF i = sid[t] THEN sess[t] ELSE store[i]
        BY ONLY <3>1
      <4>3. /\ store'[Serving(u)] \in {sess[u], Nil}
            /\ \A i \in Ids : store'[i] = sess[u] => i = Serving(u)
        BY ONLY <3>1, <3>2, <3>4, <4>1, <4>2
      <4>4. /\ Serving(u)' = Serving(u) /\ sess' = sess
            /\ Shared(Serving(u))' /\ Serving(u)' \notin Emptiable => filled'[sess[u]]
        BY ONLY <3>1, <4>1 DEF Shared
      <4> HIDE DEF Serving, Finding
      <4> QED
        BY ONLY <4>1, <4>3, <4>4 DEF KeepsDict
    <3> QED
      BY <3>3, <3>4
  <2> QED
    BY <2>1, <2>2
<1>9. ASSUME NEW u \in Threads PROVE Unsaved(u)'
  <2>1. CASE u = t
    BY <1>1, <1>2, <1>3, <2>1 DEF Contents, Holding, Unsaved, OneDict
  <2>2. CASE u # t
    BY <1>1, <1>2, <1>3, <2>2 DEF Contents, Holding, Unsaved, OneDict
  <2> QED
    BY <2>1, <2>2
<1>10. Alone'
  BY <1>1, <1>2, <1>3 DEF Contents, Holding, Alone, Shared
<1>11. Stored'
  BY <1>1, <1>2, <1>3 DEF Contents, Holding, Stored, Shared, KeepsDict
<1>12. OneDict'
  BY <1>1, <1>2, <1>3 DEF Contents, Holding, OneDict
<1>13. Gone'
  <2>1. sid[t] \notin removed \ kept
    BY <1>1, <1>2 DEF Gone
  <2>2. /\ \A u \in Threads : Serving(u)' = Serving(u) /\ (pc'[u] = pc[u] \/ Serving(u) = sid[t])
        /\ \A i \in Ids \ {sid[t]} : store'[i] = store[i]
    BY <1>1, <1>2, <1>3 DEF Contents
  <2>3. removed' = removed /\ kept' = kept /\ removed \subseteq Ids /\ backend' = backend
    BY <1>1, <1>3 DEF Contents
  <2> QED
    BY ONLY <1>1, <2>1, <2>2, <2>3 DEF Gone, InMemory
<1>14. Stays'
  BY <1>1, <1>2, <1>3, AliveNext, <1>4, <1>5, <1>6, <1>7 DEF Contents, Stays, TypeOK
<1> QED
  BY ONLY <1>4, <1>5, <1>6, <1>7, <1>8, <1>9, <1>10, <1>11, <1>12, <1>13, <1>14, PartsNext DEF TypeOK

\* Whether the store had the session or not
LEMMA ReplaceStep ==
  ASSUME Inv, ~astray', NEW t \in Threads, Replace(t)
  PROVE  Inv'
BY ReplaceFoundStep, ReplaceMissedStep

\* Out of a database a request gets a dictionary of its own ...
LEMMA TextFoundStep ==
  ASSUME Inv, ~astray', NEW t \in Threads, ~InMemory, NEW new \in Dicts \ alive,
         alive' = alive \cup {new}, refs' = [refs EXCEPT ![new] = 1], sess' = [sess EXCEPT ![t] = new],
         pc[t] \in {"lookup", "lookout"},
         filled' = [filled EXCEPT ![new] = (table[cookie[t]] = "keys")],
         sid' = [sid EXCEPT ![t] = cookie[t]],
         pc' = [pc EXCEPT ![t] = IF pc[t] = "lookup" THEN "handler" ELSE "forget"],
         UNCHANGED <<database, store, ids, cookie, served, history>>
  PROVE  Inv'
<1>1. /\ Counters /\ Contents /\ (\A d \in Dicts : Counted(d))
      /\ \A u \in Threads : Holding(u) /\ KeepsDict(u) /\ Unsaved(u)
      /\ Alone /\ Stored /\ OneDict /\ Gone /\ Stays
      /\ AllAlive /\ \A i \in Ids : store[i] # Nil => store[i] \in alive
  BY ONLY Inv, Parts, Alive DEF TypeOK
<1>2. /\ cookie[t] \in Ids /\ cookie[t] \in known /\ sid[t] = Nil /\ sess[t] = Nil
      /\ sess'[t] = new /\ sid'[t] = cookie[t] /\ new # Nil
      /\ pc'[t] = IF pc[t] = "lookup" THEN "handler" ELSE "forget"
  BY <1>1 DEF Contents, Holding
<1>3. \A u \in Threads : /\ sess[u] # new
                         /\ u # t => sess'[u] = sess[u] /\ sid'[u] = sid[u] /\ pc'[u] = pc[u]
                         /\ sess[u] # Nil => filled'[sess[u]] = filled[sess[u]]
  <2> SUFFICES ASSUME NEW u \in Threads
               PROVE  /\ sess[u] # new
                      /\ u # t => sess'[u] = sess[u] /\ sid'[u] = sid[u] /\ pc'[u] = pc[u]
                      /\ sess[u] # Nil => filled'[sess[u]] = filled[sess[u]]
    OBVIOUS
  <2>1. sess[u] # new
    BY <1>1, <1>2 DEF AllAlive
  <2>2. u # t => sess'[u] = sess[u] /\ sid'[u] = sid[u] /\ pc'[u] = pc[u]
    BY <1>1 DEF Contents
  <2>3. sess[u] # Nil => filled'[sess[u]] = filled[sess[u]]
    BY <1>1, <2>1 DEF Contents
  <2> QED
    BY <2>1, <2>2, <2>3
<1>4. ASSUME NEW d \in Dicts PROVE Counted(d)'
  <2>1. CASE d = new
    <3>1. /\ store' = store /\ sess' = [sess EXCEPT ![t] = d] /\ DOMAIN sess = Threads
          /\ pc'[t] \in {"handler", "forget"}
      BY <1>1, <1>2, <1>3, <2>1 DEF Contents
    <3>2. (\A j \in Ids : store[j] # d) /\ \A u \in Threads : sess[u] # d
      BY <1>1, <1>2, <1>3, <2>1 DEF AllAlive
    <3>3. Holders(d)' = {<<"request", t>>}
      BY ONLY <3>1, <3>2, t \in Threads DEF Holders
    <3> QED
      BY <1>1, <1>2, <1>3, <2>1, <3>3, CountOne DEF Counters
  <2>2. CASE d # new
    <3>1. Holders(d)' = Holders(d)
      <4>1. \A u \in Threads : sess'[u] = d <=> sess[u] = d
        BY <1>2, <1>3, <2>2
      <4>2. \A u \in Threads : pc'[u] = pc[u] \/ sess[u] # d
        BY <1>2, <1>3, <2>2
      <4> QED
        BY <4>1, <4>2, HoldersNext
    <3> QED
      BY <1>1, <1>2, <1>3, <2>2, <3>1 DEF Counted, Counters
  <2> QED
    BY <2>1, <2>2
<1>5. Counters'
  BY <1>1, <1>2, <1>3 DEF Counters
<1>6. Contents'
  BY <1>1, <1>2, <1>3 DEF Contents, Holding
<1>7. ASSUME NEW u \in Threads PROVE Holding(u)'
  <2>1. CASE u = t
    BY <1>1, <1>2, <1>3, <2>1 DEF Contents, Holding
  <2>2. CASE u # t
    <3>1. Holding(u) /\ sess'[u] = sess[u] /\ sid'[u] = sid[u] /\ pc'[u] = pc[u] /\ cookie'[u] = cookie[u]
          /\ (sess[u] # Nil => filled'[sess[u]] = filled[sess[u]]) /\ known' = known /\ drawn \subseteq drawn'
          /\ store' = store /\ backend' = backend /\ alive \subseteq alive'
      BY <1>1, <1>2, <1>3, <2>2
    <3> QED
      BY ONLY <3>1 DEF Holding, Disputed, InMemory
  <2> QED
    BY <2>1, <2>2
<1>8. ASSUME NEW u \in Threads PROVE KeepsDict(u)'
  <2>1. CASE u = t
    BY <1>1, <1>2, <1>3, <2>1 DEF Contents, Holding, KeepsDict, Shared, AllAlive
  <2>2. CASE u # t
    BY <1>1, <1>2, <1>3, <2>2 DEF Contents, Holding, KeepsDict, Shared, AllAlive
  <2> QED
    BY <2>1, <2>2
<1>9. ASSUME NEW u \in Threads PROVE Unsaved(u)'
  <2>1. CASE u = t
    BY <1>1, <1>2, <1>3, <2>1 DEF Contents, Holding, Unsaved, Stays
  <2>2. CASE u # t
    <3>1. Unsaved(u) /\ sess'[u] = sess[u] /\ sid'[u] = sid[u] /\ saved' = saved /\ backend' = backend
          /\ (sess[u] # Nil => filled'[sess[u]] = filled[sess[u]])
      BY <1>1, <1>2, <1>3, <2>2
    <3> QED
      BY ONLY <3>1 DEF Unsaved
  <2> QED
    BY <2>1, <2>2
<1>10. Alone'
  <2>1. \A u \in Threads, i \in Ids : i \in {cookie'[u], sid'[u]} => i \in {cookie[u], sid[u]}
    BY <1>1, <1>2, <1>3 DEF Contents
  <2> QED
    BY <1>1, <1>2, <1>3, <2>1 DEF Alone, Shared
<1>11. Stored'
  BY <1>1, <1>2, <1>3 DEF Contents, Holding, Stored, Shared, AllAlive
<1>12. OneDict'
  <2>1. ASSUME NEW v \in Threads, NEW w \in Threads, v # w, sess'[v] # Nil PROVE sess'[v] # sess'[w]
    BY <1>1, <1>2, <1>3, <2>1 DEF OneDict
  <2> QED
    BY <1>1, <1>2, <1>3, <2>1 DEF OneDict
<1>13. Gone'
  BY <1>1, <1>2, <1>3 DEF Contents, Gone
<1>14. Stays'
  BY <1>1, <1>2, <1>3 DEF Contents, Stays, AllAlive
<1> QED
  BY ONLY <1>4, <1>5, <1>6, <1>7, <1>8, <1>9, <1>10, <1>11, <1>12, <1>13, <1>14, PartsNext DEF TypeOK

\* ... or none.
LEMMA TextMissedStep ==
  ASSUME Inv, ~astray', NEW t \in Threads, ~InMemory, pc[t] \in {"lookup", "lookout"},
         pc' = [pc EXCEPT ![t] = IF pc[t] = "lookup" THEN "create" ELSE "handler"],
         UNCHANGED <<database, store, dicts, ids, request, served, history>>
  PROVE  Inv'
<1>1. /\ Counters /\ Contents /\ (\A d \in Dicts : Counted(d))
      /\ \A u \in Threads : Holding(u) /\ KeepsDict(u) /\ Unsaved(u)
      /\ Alone /\ Stored /\ OneDict /\ Gone /\ Stays
      /\ AllAlive /\ \A i \in Ids : store[i] # Nil => store[i] \in alive
  BY ONLY Inv, Parts, Alive DEF TypeOK
<1>2. ASSUME NEW d \in Dicts PROVE Counted(d)'
  <2>1. Holders(d)' = Holders(d)
    BY <1>1, HoldersNext DEF Contents, Holding
  <2> QED
    BY <1>1, <2>1 DEF Counted
<1>3. Counters'
  BY <1>1 DEF Counters
<1>4. Contents'
  BY <1>1 DEF Contents, Holding
<1>5. ASSUME NEW u \in Threads PROVE Holding(u)'
  <2>1. CASE u = t
    BY <1>1, <2>1 DEF Contents, Holding
  <2>2. CASE u # t
    BY <1>1, <2>2 DEF Contents, Holding
  <2> QED
    BY <2>1, <2>2
<1>6. ASSUME NEW u \in Threads PROVE KeepsDict(u)'
  <2>1. CASE u = t
    BY <1>1, <2>1 DEF Contents, Holding, KeepsDict, Shared
  <2>2. CASE u # t
    BY <1>1, <2>2 DEF Contents, Holding, KeepsDict, Shared
  <2> QED
    BY <2>1, <2>2
<1>7. ASSUME NEW u \in Threads PROVE Unsaved(u)'
  <2>1. CASE u = t
    BY <1>1, <2>1 DEF Contents, Holding, Unsaved
  <2>2. CASE u # t
    BY <1>1, <2>2 DEF Contents, Holding, Unsaved
  <2> QED
    BY <2>1, <2>2
<1>8. Alone'
  BY <1>1 DEF Contents, Holding, Alone, Shared
<1>9. Stored'
  BY <1>1 DEF Contents, Holding, Stored, Shared
<1>10. OneDict'
  BY <1>1 DEF Contents, Holding, OneDict
<1>11. Gone'
  BY <1>1 DEF Contents, Gone
<1>12. Stays'
  BY <1>1 DEF Contents, Stays
<1> QED
  BY ONLY <1>2, <1>3, <1>4, <1>5, <1>6, <1>7, <1>8, <1>9, <1>10, <1>11, <1>12, PartsNext DEF TypeOK

\* Every request makes a dictionary of its own out of the text.
LEMMA LookupTextStep ==
  ASSUME Inv, ~astray', NEW t \in Threads, LookupText(t)
  PROVE  Inv'
<1>1. ~InMemory /\ pc[t] \in {"lookup", "lookout"} /\ UNCHANGED <<database, store, ids, cookie, served, history>>
  BY DEF LookupText
<1>2. PICK text \in GetText(cookie[t]) :
        IF text = "none"
          THEN /\ pc' = [pc EXCEPT ![t] = IF pc[t] = "lookup" THEN "create" ELSE "handler"]
               /\ UNCHANGED <<dicts, sid, sess>>
          ELSE \E d \in Dicts \ alive :
                 /\ alive' = alive \cup {d}
                 /\ refs' = [refs EXCEPT ![d] = 1]
                 /\ filled' = [filled EXCEPT ![d] = (text = "keys")]
                 /\ sess' = [sess EXCEPT ![t] = d]
                 /\ sid' = [sid EXCEPT ![t] = cookie[t]]
                 /\ pc' = [pc EXCEPT ![t] = IF pc[t] = "lookup" THEN "handler" ELSE "forget"]
  BY DEF LookupText
<1>3. CASE text = "none"
  BY <1>1, <1>2, <1>3, TextMissedStep
<1>4. CASE text # "none"
  <2>1. text = table[cookie[t]]
    BY <1>4, Reads
  <2> QED
    BY <1>1, <1>2, <1>4, <2>1, TextFoundStep
<1> QED
  BY <1>3, <1>4

\* The new session was saved and read back ...
LEMMA TextCreatedStep ==
  ASSUME Inv, ~astray', NEW t \in Threads, ~InMemory, NEW new \in Dicts \ alive,
         alive' = alive \cup {new}, refs' = [refs EXCEPT ![new] = 1], sess' = [sess EXCEPT ![t] = new],
         NEW i \in Ids \ drawn, drawn' = drawn \cup {i},
         table' = table \/ table' = [table EXCEPT ![i] = "empty"],
         sid' = [sid EXCEPT ![t] = i], pc[t] = "create", pc' = [pc EXCEPT ![t] = "handler"],
         filled' = [filled EXCEPT ![new] = FALSE],
         UNCHANGED <<backend, restarts, store, known, cookie, served, history>>
  PROVE  Inv'
<1>1. /\ Counters /\ Contents /\ (\A d \in Dicts : Counted(d))
      /\ \A u \in Threads : Holding(u) /\ KeepsDict(u) /\ Unsaved(u)
      /\ Alone /\ Stored /\ OneDict /\ Gone /\ Stays
      /\ AllAlive /\ \A j \in Ids : store[j] # Nil => store[j] \in alive
  BY ONLY Inv, Parts, Alive DEF TypeOK
<1>2. /\ i \in Ids /\ sess[t] = Nil /\ sess'[t] = new /\ sid'[t] = i /\ new # Nil /\ i # Nil
      /\ pc'[t] = "handler" /\ ~filled'[new] /\ cookie[t] # i
  <2>1. cookie[t] # i /\ sess[t] = Nil
    <3>1. i \notin known \cup {Nil}
      BY <1>1 DEF Contents
    <3> QED
      BY <1>1, <3>1 DEF Holding
  <2> QED
    BY <1>1, <2>1 DEF Contents
<1>3. \A u \in Threads : /\ sess[u] # new
                         /\ u # t => sess'[u] = sess[u] /\ sid'[u] = sid[u] /\ pc'[u] = pc[u]
                         /\ sess[u] # Nil => filled'[sess[u]] = filled[sess[u]]
  <2> SUFFICES ASSUME NEW u \in Threads
               PROVE  /\ sess[u] # new
                      /\ u # t => sess'[u] = sess[u] /\ sid'[u] = sid[u] /\ pc'[u] = pc[u]
                      /\ sess[u] # Nil => filled'[sess[u]] = filled[sess[u]]
    OBVIOUS
  <2>1. sess[u] # new
    BY <1>1, <1>2 DEF AllAlive
  <2>2. u # t => sess'[u] = sess[u] /\ sid'[u] = sid[u] /\ pc'[u] = pc[u]
    BY <1>1 DEF Contents
  <2>3. sess[u] # Nil => filled'[sess[u]] = filled[sess[u]]
    BY <1>1, <2>1 DEF Contents
  <2> QED
    BY <2>1, <2>2, <2>3
<1>4. ASSUME NEW d \in Dicts PROVE Counted(d)'
  <2>1. CASE d = new
    <3>1. /\ store' = store /\ sess' = [sess EXCEPT ![t] = d] /\ DOMAIN sess = Threads
          /\ pc'[t] \in {"handler", "forget"}
      BY <1>1, <1>2, <1>3, <2>1 DEF Contents
    <3>2. (\A j \in Ids : store[j] # d) /\ \A u \in Threads : sess[u] # d
      BY <1>1, <1>2, <1>3, <2>1 DEF AllAlive
    <3>3. Holders(d)' = {<<"request", t>>}
      BY ONLY <3>1, <3>2, t \in Threads DEF Holders
    <3> QED
      BY <1>1, <1>2, <1>3, <2>1, <3>3, CountOne DEF Counters
  <2>2. CASE d # new
    <3>1. Holders(d)' = Holders(d)
      <4>1. \A u \in Threads : sess'[u] = d <=> sess[u] = d
        BY <1>2, <1>3, <2>2
      <4>2. \A u \in Threads : pc'[u] = pc[u] \/ sess[u] # d
        BY <1>2, <1>3, <2>2
      <4> QED
        BY <4>1, <4>2, HoldersNext
    <3> QED
      BY <1>1, <1>2, <1>3, <2>2, <3>1 DEF Counted, Counters
  <2> QED
    BY <2>1, <2>2
<1>5. Counters'
  BY <1>1, <1>2, <1>3 DEF Counters
<1>6. Contents'
  <2>1. table' \in [Ids -> {"none", "empty", "keys"}]
    BY <1>1, <1>2, <1>3 DEF Contents
  <2>2. alive' \subseteq Dicts /\ filled' \in [Dicts -> BOOLEAN] /\ sess' \in [Threads -> Dicts \cup {Nil}]
    BY <1>1, <1>2, <1>3 DEF Contents
  <2>3. /\ known' \subseteq drawn' /\ drawn' \subseteq Ids
        /\ removed' \subseteq drawn' /\ saved' \subseteq drawn' /\ kept' \subseteq drawn'
        /\ astray' \in BOOLEAN
    BY <1>1, <1>2, <1>3 DEF Contents
  <2>4. /\ backend' \in Backends \cup {"no backend"}
        /\ store' \in [Ids -> Dicts \cup {Nil}]
        /\ cookie' \in [Threads -> Ids \cup {Nil}]
        /\ sid' \in [Threads -> Ids \cup {Nil}]
    BY <1>1, <1>2, <1>3 DEF Contents
  <2>5. pc' \in [Threads -> {"idle", "handler", "lookup", "lookout", "dup", "dupout", "create", "forget",
                             "letgo", "purge", "end", "save", "replace"}]
    BY <1>1, <1>2, <1>3 DEF Contents
  <2> QED
    BY ONLY <2>1, <2>2, <2>3, <2>4, <2>5 DEF Contents
<1>7. ASSUME NEW u \in Threads PROVE Holding(u)'
  <2>1. CASE u = t
    BY <1>1, <1>2, <1>3, <2>1, ZenonT(40) DEF Contents, Holding
  <2>2. CASE u # t
    <3>1. Holding(u) /\ sess'[u] = sess[u] /\ sid'[u] = sid[u] /\ pc'[u] = pc[u] /\ cookie'[u] = cookie[u]
          /\ (sess[u] # Nil => filled'[sess[u]] = filled[sess[u]]) /\ known' = known /\ drawn \subseteq drawn'
          /\ store' = store /\ backend' = backend /\ alive \subseteq alive'
      BY <1>1, <1>2, <1>3, <2>2
    <3> QED
      BY ONLY <3>1 DEF Holding, Disputed, InMemory
  <2> QED
    BY <2>1, <2>2
<1>8. ASSUME NEW u \in Threads PROVE KeepsDict(u)'
  <2>1. CASE u = t
    BY <1>1, <1>2, <1>3, <2>1 DEF Contents, Holding, KeepsDict, Shared, AllAlive
  <2>2. CASE u # t
    BY <1>1, <1>2, <1>3, <2>2 DEF Contents, Holding, KeepsDict, Shared, AllAlive
  <2> QED
    BY <2>1, <2>2
<1>9. ASSUME NEW u \in Threads PROVE Unsaved(u)'
  <2>1. CASE u = t
    BY <1>1, <1>2, <1>3, <2>1 DEF Contents, Unsaved
  <2>2. CASE u # t
    <3>1. Unsaved(u) /\ sess'[u] = sess[u] /\ sid'[u] = sid[u] /\ saved' = saved /\ backend' = backend
          /\ (sess[u] # Nil => filled'[sess[u]] = filled[sess[u]])
      BY <1>1, <1>2, <1>3, <2>2
    <3> QED
      BY ONLY <3>1 DEF Unsaved
  <2> QED
    BY <2>1, <2>2
<1>10. Alone'
  <2>1. \A u \in Threads : i \notin {cookie[u], sid[u]}
    <3>1. i \notin known \cup {Nil} /\ i \notin drawn \cup {Nil}
      BY <1>1 DEF Contents
    <3>2. \A u \in Threads : cookie[u] \in known \cup {Nil} /\ sid[u] \in drawn \cup {Nil}
      BY <1>1 DEF Holding
    <3> QED
      BY ONLY <3>1, <3>2
  <2>2. \A u \in Threads, j \in Ids : j \in {cookie'[u], sid'[u]} => j \in {cookie[u], sid[u]} \/ (j = i /\ u = t)
    <3>1. cookie' = cookie /\ sid'[t] = i /\ \A u \in Threads : u # t => sid'[u] = sid[u]
      BY <1>1 DEF Contents
    <3> QED
      BY <3>1
  <2>3. known' = known
    BY <1>1
  <2> QED
    BY <1>1, <2>1, <2>2, <2>3 DEF Alone, Shared
<1>11. Stored'
  BY <1>1, <1>2, <1>3 DEF Contents, Holding, Stored, Shared
<1>12. OneDict'
  <2>1. ASSUME NEW v \in Threads, NEW w \in Threads, v # w, sess'[v] # Nil PROVE sess'[v] # sess'[w]
    <3>1. (sess[v] # Nil => sess[v] # sess[w]) /\ sess[v] # new /\ sess[w] # new
      BY <1>1, <1>3, <2>1 DEF OneDict
    <3>2. CASE v = t
      BY <1>2, <1>3, <2>1, <3>1, <3>2
    <3>3. CASE v # t
      <4>1. sess'[v] = sess[v] /\ sess'[w] \in {sess[w], new}
        BY <1>2, <1>3, <2>1, <3>3
      <4> QED
        BY ONLY <2>1, <3>1, <4>1
    <3> QED
      BY <3>2, <3>3
  <2> QED
    BY <1>1, <2>1 DEF OneDict
<1>13. Gone'
  BY <1>1, <1>2, <1>3 DEF Contents, Gone
<1>14. Stays'
  <2>1. ASSUME NEW j \in saved, j \notin Overlapping PROVE table'[j] = "keys"
    <3>1. j \in Ids /\ j # i /\ table[j] = "keys"
      BY <1>1, <2>1 DEF Contents, Stays
    <3> QED
      BY <1>1, <3>1 DEF Contents
  <2> QED
    BY <1>1, <2>1 DEF Stays
<1> QED
  BY ONLY <1>4, <1>5, <1>6, <1>7, <1>8, <1>9, <1>10, <1>11, <1>12, <1>13, <1>14, PartsNext DEF TypeOK

\* ... or not.
LEMMA TextLostStep ==
  ASSUME Inv, ~astray', NEW t \in Threads, ~InMemory, NEW i \in Ids \ drawn, drawn' = drawn \cup {i},
         table' = table \/ table' = [table EXCEPT ![i] = "empty"],
         sid' = [sid EXCEPT ![t] = i], pc[t] = "create", pc' = [pc EXCEPT ![t] = "handler"],
         UNCHANGED <<backend, restarts, store, dicts, sess, known, cookie, served, history>>
  PROVE  Inv'
<1>1. /\ Counters /\ Contents /\ (\A d \in Dicts : Counted(d))
      /\ \A u \in Threads : Holding(u) /\ KeepsDict(u) /\ Unsaved(u)
      /\ Alone /\ Stored /\ OneDict /\ Gone /\ Stays
      /\ AllAlive /\ \A j \in Ids : store[j] # Nil => store[j] \in alive
  BY ONLY Inv, Parts, Alive DEF TypeOK
<1>2. ASSUME NEW d \in Dicts PROVE Counted(d)'
  <2>1. Holders(d)' = Holders(d)
    <3>1. store' = store /\ sess' = sess /\ \A u \in Threads : pc'[u] = IF u = t THEN "handler" ELSE pc[u]
      BY <1>1 DEF Contents
    <3> QED
      BY <1>1, <3>1, HoldersNext
  <2> QED
    BY <1>1, <2>1 DEF Counted
<1>3. Counters'
  BY <1>1 DEF Counters
<1>4. Contents'
  <2>1. table' \in [Ids -> {"none", "empty", "keys"}]
    BY <1>1 DEF Contents
  <2>2. /\ known' \subseteq drawn' /\ drawn' \subseteq Ids
        /\ removed' \subseteq drawn' /\ saved' \subseteq drawn'
    BY <1>1 DEF Contents
  <2>3. sid' \in [Threads -> Ids \cup {Nil}]
    BY <1>1 DEF Contents
  <2>4. pc' \in [Threads -> {"idle", "handler", "lookup", "lookout", "dup", "dupout", "create", "forget",
                             "letgo", "purge", "end", "save", "replace"}]
    BY <1>1 DEF Contents
  <2> QED
    BY <1>1, <2>1, <2>2, <2>3, <2>4 DEF Contents
<1>5. ASSUME NEW u \in Threads PROVE Holding(u)'
  <2>1. CASE u = t
    BY <1>1, <2>1 DEF Contents, Holding
  <2>2. CASE u # t
    BY <1>1, <2>2 DEF Contents, Holding
  <2> QED
    BY <2>1, <2>2
<1>6. ASSUME NEW u \in Threads PROVE KeepsDict(u)'
  <2>1. CASE u = t
    BY <1>1, <2>1 DEF Contents, Holding, KeepsDict, Shared
  <2>2. CASE u # t
    BY <1>1, <2>2 DEF Contents, Holding, KeepsDict, Shared
  <2> QED
    BY <2>1, <2>2
<1>7. ASSUME NEW u \in Threads PROVE Unsaved(u)'
  <2>1. CASE u = t
    BY <1>1, <2>1 DEF Contents, Holding, Unsaved
  <2>2. CASE u # t
    BY <1>1, <2>2 DEF Contents, Holding, Unsaved
  <2> QED
    BY <2>1, <2>2
<1>8. Alone'
  <2>1. \A u \in Threads : i \notin {cookie[u], sid[u]}
    <3>1. i \notin known \cup {Nil} /\ i \notin drawn \cup {Nil}
      BY <1>1 DEF Contents
    <3>2. \A u \in Threads : cookie[u] \in known \cup {Nil} /\ sid[u] \in drawn \cup {Nil}
      BY <1>1 DEF Holding
    <3> QED
      BY ONLY <3>1, <3>2
  <2>2. \A u \in Threads, j \in Ids : j \in {cookie'[u], sid'[u]} => j \in {cookie[u], sid[u]} \/ (j = i /\ u = t)
    <3>1. cookie' = cookie /\ sid'[t] = i /\ \A u \in Threads : u # t => sid'[u] = sid[u]
      BY <1>1 DEF Contents
    <3> QED
      BY <3>1
  <2>3. known' = known
    BY <1>1
  <2> QED
    BY <1>1, <2>1, <2>2, <2>3 DEF Alone, Shared
<1>9. Stored'
  BY <1>1 DEF Contents, Holding, Stored, Shared
<1>10. OneDict'
  BY <1>1 DEF Contents, Holding, OneDict
<1>11. Gone'
  BY <1>1 DEF Contents, Gone
<1>12. Stays'
  <2>1. ASSUME NEW j \in saved, j \notin Overlapping PROVE table'[j] = "keys"
    <3>1. j \in Ids /\ j # i /\ table[j] = "keys"
      BY <1>1, <2>1 DEF Contents, Stays
    <3> QED
      BY <1>1, <3>1 DEF Contents
  <2> QED
    BY <1>1, <2>1 DEF Stays
<1> QED
  BY ONLY <1>2, <1>3, <1>4, <1>5, <1>6, <1>7, <1>8, <1>9, <1>10, <1>11, <1>12, PartsNext DEF TypeOK

\* A new id, and a new dictionary that only the request has.
LEMMA CreateTextStep ==
  ASSUME Inv, ~astray', NEW t \in Threads, CreateText(t)
  PROVE  Inv'
<1>1. /\ ~InMemory /\ pc[t] = "create" /\ pc' = [pc EXCEPT ![t] = "handler"]
      /\ UNCHANGED <<backend, restarts, store, known, cookie, served, history>>
  BY DEF CreateText
<1>2. PICK i \in Ids \ drawn, d \in Dicts \ alive :
        /\ drawn' = drawn \cup {i}
        /\ table' \in SaveText(i, "empty")
        /\ sid' = [sid EXCEPT ![t] = i]
        /\ \/ /\ alive' = alive \cup {d}
              /\ refs' = [refs EXCEPT ![d] = 1]
              /\ filled' = [filled EXCEPT ![d] = FALSE]
              /\ sess' = [sess EXCEPT ![t] = d]
           \/ UNCHANGED <<dicts, sess>>
  BY DEF CreateText
<1>3. table' = table \/ table' = [table EXCEPT ![i] = "empty"]
  BY <1>2, Saves
<1>4. CASE UNCHANGED <<dicts, sess>>
  BY <1>1, <1>2, <1>3, <1>4, TextLostStep
<1>5. CASE /\ alive' = alive \cup {d} /\ refs' = [refs EXCEPT ![d] = 1]
           /\ filled' = [filled EXCEPT ![d] = FALSE] /\ sess' = [sess EXCEPT ![t] = d]
  BY <1>1, <1>2, <1>3, <1>5, TextCreatedStep
<1> QED
  BY <1>2, <1>4, <1>5

\* The database keeps the session, empty: it was not saved, or is no longer.
LEMMA RemoveTextStep ==
  ASSUME Inv, ~astray', NEW t \in Threads, RemoveText(t)
  PROVE  Inv'
<1>1. /\ Counters /\ Contents /\ (\A d \in Dicts : Counted(d))
      /\ \A u \in Threads : Holding(u) /\ KeepsDict(u) /\ Unsaved(u)
      /\ Alone /\ Stored /\ OneDict /\ Gone /\ Stays
      /\ AllAlive /\ \A i \in Ids : store[i] # Nil => store[i] \in alive
  BY ONLY Inv, Parts, Alive DEF TypeOK
<1>2. ~InMemory /\ pc[t] \in {"forget", "purge"} /\ sid[t] \in Ids
  <2>1. ~InMemory /\ pc[t] \in {"forget", "purge"}
    BY DEF RemoveText
  <2> QED
    BY <1>1, <2>1 DEF Contents, Holding
<1>3. /\ UNCHANGED <<backend, restarts, store, alive, refs, filled, drawn, known, cookie, sid, sess, served>>
      /\ table' = table \/ table' = [table EXCEPT ![sid[t]] = "empty"]
      /\ astray' = astray /\ kept' \subseteq kept \cup {sid[t]}
      /\ removed' = IF pc[t] = "forget" THEN removed \cup {sid[t]} ELSE removed
      /\ saved' = IF pc[t] = "forget" THEN saved \ {sid[t]} ELSE saved
      /\ pc' = [pc EXCEPT ![t] = IF pc[t] = "forget" THEN "letgo" ELSE "end"]
  <2>1. /\ kept' \subseteq kept \cup {sid[t]}
        /\ removed' = IF pc[t] = "forget" THEN removed \cup {sid[t]} ELSE removed
        /\ saved' = IF pc[t] = "forget" THEN saved \ {sid[t]} ELSE saved
    BY DEF RemoveText, Removes
  <2> QED
    BY <1>2, <2>1, Saves DEF RemoveText
<1>4. ASSUME NEW d \in Dicts PROVE Counted(d)'
  <2>1. Holders(d)' = Holders(d)
    BY <1>1, <1>2, <1>3, HoldersNext DEF Contents
  <2> QED
    BY <1>1, <1>2, <1>3, <2>1 DEF Counted
<1>5. Counters'
  BY <1>1, <1>2, <1>3 DEF Counters
<1>6. Contents'
  <2>1. table' \in [Ids -> {"none", "empty", "keys"}]
    BY <1>1, <1>2, <1>3 DEF Contents
  <2>2. saved' \subseteq drawn' /\ removed' \subseteq drawn' /\ kept' \subseteq drawn' /\ astray' \in BOOLEAN
    <3>1. sid[t] \in drawn
      BY <1>1, <1>2 DEF Holding
    <3> QED
      BY <1>1, <1>3, <3>1 DEF Contents
  <2>3. pc' \in [Threads -> {"idle", "handler", "lookup", "lookout", "dup", "dupout", "create", "forget",
                             "letgo", "purge", "end", "save", "replace"}]
    BY <1>1, <1>2, <1>3 DEF Contents
  <2> QED
    BY <1>1, <1>2, <1>3, <2>1, <2>2, <2>3 DEF Contents
<1>7. ASSUME NEW u \in Threads PROVE Holding(u)'
  <2>1. CASE u = t
    BY <1>1, <1>2, <1>3, <2>1 DEF Contents, Holding
  <2>2. CASE u # t
    BY <1>1, <1>2, <1>3, <2>2 DEF Contents, Holding
  <2> QED
    BY <2>1, <2>2
<1>8. ASSUME NEW u \in Threads PROVE KeepsDict(u)'
  <2>1. CASE u = t
    BY <1>1, <1>2, <1>3, <2>1 DEF Contents, Holding, KeepsDict, Shared
  <2>2. CASE u # t
    BY <1>1, <1>2, <1>3, <2>2 DEF Contents, Holding, KeepsDict, Shared
  <2> QED
    BY <2>1, <2>2
<1>9. ASSUME NEW u \in Threads PROVE Unsaved(u)'
  <2>1. CASE u = t
    BY <1>1, <1>2, <1>3, <2>1 DEF Contents, Holding, Unsaved
  <2>2. CASE u # t
    BY <1>1, <1>2, <1>3, <2>2 DEF Contents, Holding, Unsaved
  <2> QED
    BY <2>1, <2>2
<1>10. Alone'
  BY <1>1, <1>2, <1>3 DEF Contents, Holding, Alone, Shared
<1>11. Stored'
  BY <1>1, <1>2, <1>3 DEF Contents, Holding, Stored, Shared
<1>12. OneDict'
  BY <1>1, <1>2, <1>3 DEF Contents, Holding, OneDict
<1>13. Gone'
  BY <1>1, <1>2, <1>3 DEF Contents, Gone
<1>14. Stays'
  <2>1. ASSUME pc[t] = "purge" PROVE sid[t] \in Overlapping \/ sid[t] \notin saved
    BY <1>1, <1>2, <2>1 DEF Holding, Unsaved
  <2>2. ASSUME NEW i \in saved', i \notin Overlapping PROVE table'[i] = "keys"
    <3>1. i \in saved /\ i # sid[t] /\ table[i] = "keys"
      BY <1>1, <1>2, <1>3, <2>1, <2>2 DEF Stays
    <3> QED
      BY <1>3, <3>1, <2>2, <1>1 DEF Contents
  <2> QED
    BY <1>2, <1>3, <2>2 DEF Stays
<1> QED
  BY ONLY <1>4, <1>5, <1>6, <1>7, <1>8, <1>9, <1>10, <1>11, <1>12, <1>13, <1>14, PartsNext DEF TypeOK

\* Only one request saves the session: what it saves is what stays.
LEMMA SaveKeysStep ==
  ASSUME Inv, ~astray', NEW t \in Threads, SaveKeys(t)
  PROVE  Inv'
<1>1. /\ Counters /\ Contents /\ (\A d \in Dicts : Counted(d))
      /\ \A u \in Threads : Holding(u) /\ KeepsDict(u) /\ Unsaved(u)
      /\ Alone /\ Stored /\ OneDict /\ Gone /\ Stays
      /\ AllAlive /\ \A i \in Ids : store[i] # Nil => store[i] \in alive
  BY ONLY Inv, Parts, Alive DEF TypeOK
<1>2. ~InMemory /\ pc[t] = "save" /\ sid[t] \in Ids /\ sess[t] \in Dicts /\ filled[sess[t]]
  <2>1. ~InMemory /\ pc[t] = "save"
    BY DEF SaveKeys
  <2> QED
    BY <1>1, <2>1 DEF Contents, Holding
<1>3. /\ UNCHANGED <<backend, restarts, store, alive, refs, filled, drawn, known, cookie, sid, sess, served,
                     removed, kept, astray>>
      /\ table' = table \/ table' = [table EXCEPT ![sid[t]] = "keys"]
      /\ saved' = IF table'[sid[t]] = "keys" THEN saved \cup {sid[t]} ELSE saved
      /\ pc' = [pc EXCEPT ![t] = "end"]
  BY Saves DEF SaveKeys
<1>4. ASSUME NEW d \in Dicts PROVE Counted(d)'
  <2>1. Holders(d)' = Holders(d)
    BY <1>1, <1>2, <1>3, HoldersNext, ZenonT(40) DEF Contents
  <2> QED
    BY <1>1, <1>2, <1>3, <2>1 DEF Counted
<1>5. Counters'
  BY <1>1, <1>2, <1>3 DEF Counters
<1>6. Contents'
  <2>1. table' \in [Ids -> {"none", "empty", "keys"}]
    BY <1>1, <1>2, <1>3 DEF Contents
  <2>2. saved' \subseteq drawn' /\ removed' \subseteq drawn' /\ kept' \subseteq drawn' /\ astray' \in BOOLEAN
    <3>1. sid[t] \in drawn
      BY <1>1, <1>2 DEF Holding
    <3> QED
      BY <1>1, <1>3, <3>1 DEF Contents
  <2>3. pc' \in [Threads -> {"idle", "handler", "lookup", "lookout", "dup", "dupout", "create", "forget",
                             "letgo", "purge", "end", "save", "replace"}]
    BY <1>1, <1>2, <1>3 DEF Contents
  <2> QED
    BY <1>1, <1>2, <1>3, <2>1, <2>2, <2>3 DEF Contents
<1>7. ASSUME NEW u \in Threads PROVE Holding(u)'
  <2>1. CASE u = t
    <3>1. pc'[t] = "end" /\ sid[t] # Nil /\ Holding(t) /\ pc[t] = "save"
      BY <1>1, <1>2, <1>3 DEF Contents
    <3> QED
      BY <1>2, <1>3, <2>1, <3>1 DEF Holding
  <2>2. CASE u # t
    <3>1. pc'[u] = pc[u] /\ Holding(u)
      BY <1>1, <1>2, <1>3, <2>2 DEF Contents
    <3> QED
      BY <1>3, <3>1 DEF Holding
  <2> QED
    BY <2>1, <2>2
<1>8. ASSUME NEW u \in Threads PROVE KeepsDict(u)'
  <2>1. CASE u = t
    BY <1>1, <1>2, <1>3, <2>1 DEF Contents, Holding, KeepsDict, Shared
  <2>2. CASE u # t
    BY <1>1, <1>2, <1>3, <2>2 DEF Contents, Holding, KeepsDict, Shared
  <2> QED
    BY <2>1, <2>2
<1>9. ASSUME NEW u \in Threads PROVE Unsaved(u)'
  <2>1. CASE u = t
    BY <1>1, <1>2, <1>3, <2>1 DEF Contents, Holding, Unsaved, Alone, Shared
  <2>2. CASE u # t
    BY <1>1, <1>2, <1>3, <2>2 DEF Contents, Holding, Unsaved, Alone, Shared
  <2> QED
    BY <2>1, <2>2
<1>10. Alone'
  BY <1>1, <1>2, <1>3 DEF Contents, Holding, Alone, Shared
<1>11. Stored'
  BY <1>1, <1>2, <1>3 DEF Contents, Holding, Stored, Shared
<1>12. OneDict'
  BY <1>1, <1>2, <1>3 DEF Contents, Holding, OneDict
<1>13. Gone'
  BY <1>1, <1>2, <1>3 DEF Contents, Gone
<1>14. Stays'
  BY <1>1, <1>2, <1>3 DEF Contents, Stays
<1> QED
  BY ONLY <1>4, <1>5, <1>6, <1>7, <1>8, <1>9, <1>10, <1>11, <1>12, <1>13, <1>14, PartsNext DEF TypeOK

\* Without a backend there is nothing to make.
LEMMA CreateNoneStep ==
  ASSUME Inv, ~astray', NEW t \in Threads, CreateNone(t)
  PROVE  Inv'
<1> USE DEF CreateNone
<1>1. /\ Counters /\ Contents /\ (\A d \in Dicts : Counted(d))
      /\ \A u \in Threads : Holding(u) /\ KeepsDict(u) /\ Unsaved(u)
      /\ Alone /\ Stored /\ OneDict /\ Gone /\ Stays
      /\ AllAlive /\ \A i \in Ids : store[i] # Nil => store[i] \in alive
  BY ONLY Inv, Parts, Alive DEF TypeOK
<1>2. ASSUME NEW d \in Dicts PROVE Counted(d)'
  <2>1. Holders(d)' = Holders(d)
    BY <1>1, HoldersNext DEF Contents
  <2> QED
    BY <1>1, <2>1 DEF Counted
<1>3. Counters'
  BY <1>1 DEF Counters
<1>4. Contents'
  BY <1>1 DEF Contents, Holding
<1>5. ASSUME NEW u \in Threads PROVE Holding(u)'
  <2>1. CASE u = t
    BY <1>1, <2>1 DEF Contents, Holding
  <2>2. CASE u # t
    BY <1>1, <2>2 DEF Contents, Holding
  <2> QED
    BY <2>1, <2>2
<1>6. ASSUME NEW u \in Threads PROVE KeepsDict(u)'
  <2>1. CASE u = t
    BY <1>1, <2>1 DEF Contents, Holding, KeepsDict, Shared
  <2>2. CASE u # t
    BY <1>1, <2>2 DEF Contents, Holding, KeepsDict, Shared
  <2> QED
    BY <2>1, <2>2
<1>7. ASSUME NEW u \in Threads PROVE Unsaved(u)'
  <2>1. CASE u = t
    BY <1>1, <2>1 DEF Contents, Holding, Unsaved
  <2>2. CASE u # t
    BY <1>1, <2>2 DEF Contents, Holding, Unsaved
  <2> QED
    BY <2>1, <2>2
<1>8. Alone'
  BY <1>1 DEF Contents, Holding, Alone, Shared
<1>9. Stored'
  BY <1>1 DEF Contents, Holding, Stored, Shared
<1>10. OneDict'
  BY <1>1 DEF Contents, Holding, OneDict
<1>11. Gone'
  BY <1>1 DEF Contents, Gone
<1>12. Stays'
  BY <1>1 DEF Contents, Stays
<1> QED
  BY ONLY <1>2, <1>3, <1>4, <1>5, <1>6, <1>7, <1>8, <1>9, <1>10, <1>11, <1>12, PartsNext DEF TypeOK

\* When all requests are done, the store holds the only reference to each dictionary.
LEMMA ShutdownStep ==
  ASSUME Inv, ~astray', Shutdown
  PROVE  Inv'
<1> USE DEF Shutdown
<1>1. /\ Counters /\ Contents /\ (\A d \in Dicts : Counted(d))
      /\ \A u \in Threads : Holding(u) /\ KeepsDict(u) /\ Unsaved(u)
      /\ Alone /\ Stored /\ OneDict /\ Gone /\ Stays
      /\ AllAlive /\ \A i \in Ids : store[i] # Nil => store[i] \in alive
  BY ONLY Inv, Parts, Alive DEF TypeOK
<1>2. \A u \in Threads : pc[u] = "idle" /\ cookie[u] = Nil /\ sid[u] = Nil /\ sess[u] = Nil
  BY <1>1 DEF Holding
<1>3. ASSUME NEW d \in Dicts PROVE refs'[d] = 0 /\ d \notin alive'
  <2>1. Holders(d) = {<<"store", i>> : i \in {j \in Ids : store[j] = d}}
    BY <1>2 DEF Holders
  <2> DEFINE S == {j \in Ids : store[j] = d}
  <2>2. Cardinality(Holders(d)) = Cardinality(S)
    <3>1. CASE S = {}
      BY <2>1, <3>1
    <3>2. CASE S # {}
      <4>1. PICK i \in Ids : store[i] = d
        BY <3>2
      <4>2. S = {i} /\ Holders(d) = {<<"store", i>>}
        BY <1>1, <2>1, <4>1 DEF Stored
      <4> QED
        BY ONLY <4>2, FS_Singleton
    <3> QED
      BY <3>1, <3>2
  <2>3. refs[d] \in Nat /\ refs[d] = Cardinality(S)
    BY <1>1, <2>2 DEF Counted, Counters
  <2>4. refs'[d] = 0
    BY <2>3
  <2> QED
    BY <2>4
<1>4. ASSUME NEW d \in Dicts PROVE Counted(d)'
  <2>1. refs'[d] = 0 /\ d \notin alive'
    BY <1>3
  <2>2. Holders(d)' = {}
    <3>1. d # Nil /\ (\A i \in Ids : store'[i] = Nil) /\ sess' = sess /\ \A u \in Threads : sess[u] = Nil
      BY <1>1, <1>2, <1>3
    <3> QED
      BY ONLY <3>1 DEF Holders
  <2> QED
    BY <2>1, <2>2, FS_EmptySet DEF Counted
<1>5. Counters'
  BY <1>1, <1>2, <1>3 DEF Counters
<1>6. Contents'
  BY <1>1, <1>2, <1>3 DEF Contents, Holding
<1>7. ASSUME NEW u \in Threads PROVE Holding(u)'
  BY <1>1, <1>2, <1>3 DEF Contents, Holding
<1>8. ASSUME NEW u \in Threads PROVE KeepsDict(u)'
  BY <1>1, <1>2, <1>3 DEF Contents, Holding, KeepsDict, Shared
<1>9. ASSUME NEW u \in Threads PROVE Unsaved(u)'
  BY <1>1, <1>2, <1>3 DEF Contents, Holding, Unsaved
<1>10. Alone'
  BY <1>1, <1>2, <1>3 DEF Contents, Holding, Alone, Shared
<1>11. Stored'
  BY <1>1, <1>2, <1>3 DEF Contents, Holding, Stored, Shared
<1>12. OneDict'
  BY <1>1, <1>2, <1>3 DEF Contents, Holding, OneDict
<1>13. Gone'
  BY <1>1, <1>2, <1>3 DEF Contents, Gone
<1>14. Stays'
  BY <1>1, <1>2, <1>3 DEF Contents, Stays
<1> QED
  BY ONLY <1>4, <1>5, <1>6, <1>7, <1>8, <1>9, <1>10, <1>11, <1>12, <1>13, <1>14, PartsNext DEF TypeOK

\* Memory and requests go; the table and what was saved in it stay.
LEMMA RestartStep ==
  ASSUME Inv, ~astray', Restart
  PROVE  Inv'
<1> USE DEF Restart
<1>1. /\ Counters /\ Contents /\ (\A d \in Dicts : Counted(d))
      /\ \A u \in Threads : Holding(u) /\ KeepsDict(u) /\ Unsaved(u)
      /\ Alone /\ Stored /\ OneDict /\ Gone /\ Stays
      /\ AllAlive /\ \A i \in Ids : store[i] # Nil => store[i] \in alive
  BY ONLY Inv, Parts, Alive DEF TypeOK
<1>2. ASSUME NEW d \in Dicts PROVE Counted(d)'
  <2>1. refs'[d] = 0 /\ d \notin alive'
    BY <1>1 DEF Counters
  <2>2. Holders(d)' = {}
    BY <1>1, <2>1 DEF Contents, Holders
  <2> QED
    BY <2>1, <2>2, FS_EmptySet DEF Counted
<1>3. Counters'
  BY <1>1 DEF Counters
<1>4. Contents'
  BY <1>1 DEF Contents, Holding
<1>5. ASSUME NEW u \in Threads PROVE Holding(u)'
  BY <1>1 DEF Contents, Holding
<1>6. ASSUME NEW u \in Threads PROVE KeepsDict(u)'
  BY <1>1 DEF Contents, Holding, KeepsDict, Shared
<1>7. ASSUME NEW u \in Threads PROVE Unsaved(u)'
  BY <1>1 DEF Contents, Holding, Unsaved
<1>8. Alone'
  BY <1>1 DEF Contents, Holding, Alone, Shared
<1>9. Stored'
  BY <1>1 DEF Contents, Holding, Stored, Shared
<1>10. OneDict'
  BY <1>1 DEF Contents, Holding, OneDict
<1>11. Gone'
  BY <1>1 DEF Contents, Gone
<1>12. Stays'
  BY <1>1 DEF Contents, Stays
<1> QED
  BY ONLY <1>2, <1>3, <1>4, <1>5, <1>6, <1>7, <1>8, <1>9, <1>10, <1>11, <1>12, PartsNext DEF TypeOK

\* A stutter.
LEMMA StutterStep ==
  ASSUME Inv, ~astray', UNCHANGED vars
  PROVE  Inv'
<1> USE DEF vars
<1>1. /\ Counters /\ Contents /\ (\A d \in Dicts : Counted(d))
      /\ \A u \in Threads : Holding(u) /\ KeepsDict(u) /\ Unsaved(u)
      /\ Alone /\ Stored /\ OneDict /\ Gone /\ Stays
      /\ AllAlive /\ \A i \in Ids : store[i] # Nil => store[i] \in alive
  BY ONLY Inv, Parts, Alive DEF TypeOK
<1>2. ASSUME NEW d \in Dicts PROVE Counted(d)'
  <2>1. Holders(d)' = Holders(d)
    BY <1>1, HoldersNext DEF Contents
  <2> QED
    BY <1>1, <2>1 DEF Counted
<1>3. Counters'
  BY <1>1 DEF Counters
<1>4. Contents'
  BY <1>1 DEF Contents, Holding
<1>5. ASSUME NEW u \in Threads PROVE Holding(u)'
  BY <1>1 DEF Contents, Holding
<1>6. ASSUME NEW u \in Threads PROVE KeepsDict(u)'
  BY <1>1 DEF Contents, Holding, KeepsDict, Shared
<1>7. ASSUME NEW u \in Threads PROVE Unsaved(u)'
  BY <1>1 DEF Contents, Holding, Unsaved
<1>8. Alone'
  BY <1>1 DEF Contents, Holding, Alone, Shared
<1>9. Stored'
  BY <1>1 DEF Contents, Holding, Stored, Shared
<1>10. OneDict'
  BY <1>1 DEF Contents, Holding, OneDict
<1>11. Gone'
  BY <1>1 DEF Contents, Gone
<1>12. Stays'
  BY <1>1 DEF Contents, Stays
<1> QED
  BY ONLY <1>2, <1>3, <1>4, <1>5, <1>6, <1>7, <1>8, <1>9, <1>10, <1>11, <1>12, PartsNext DEF TypeOK
-----------------------------------------------------------------------------
(* The invariant, and what follows from it *)

HIDE DEF Goto, dicts, ids, request, history, database, InMemory, Serving, Finding, NoDeref, Disputed,
         InStore

\* A store that was just made satisfies the invariant.
LEMMA InitInv == Init => Inv
<1> SUFFICES ASSUME Init PROVE Inv
  OBVIOUS
<1> USE DEF Init
<1>1. TypeOK
  <2>1. Counters
    BY Constants DEF Counters
  <2>2. backend \in Backends \cup {"no backend"}
    BY DEF MemNew, RedisNew, SqliteNew
  <2>3. Contents
    BY <2>2 DEF Contents
  <2> QED
    BY <2>1, <2>3 DEF TypeOK
<1>2. ASSUME NEW d \in Dicts PROVE Counted(d)
  <2>1. Holders(d) = {}
    BY Constants DEF Holders
  <2>2. refs[d] = 0 /\ alive = {}
    OBVIOUS
  <2> QED
    BY ONLY <2>1, <2>2, FS_EmptySet DEF Counted
<1>3. \A t \in Threads : Holding(t) /\ KeepsDict(t) /\ Unsaved(t)
  BY DEF Holding, KeepsDict, Unsaved, Serving, Finding
<1>4. Alone /\ Stored /\ OneDict /\ Gone /\ Stays
  BY Constants DEF Alone, Stored, OneDict, Gone, Stays, Serving, Finding
<1> QED
  BY <1>1, <1>2, <1>3, <1>4, Parts

\* A step is the step of one action, or a stutter.
LEMMA NextInv ==
  ASSUME Inv, ~astray', [Next]_vars
  PROVE  Inv'
<1>1. CASE UNCHANGED vars
  BY <1>1, StutterStep
<1>2. ASSUME NEW t \in Threads,
             \/ Start(t) \/ Ask(t) \/ Lookup(t) \/ Dup(t) \/ Create(t)
             \/ Fill(t) \/ Empty(t) \/ TellCookie(t) \/ Logout(t)
      PROVE  Inv'
  BY <1>2, StartStep, AskStep, LookupStep, DupStep, CreateStep, FillStep, EmptyStep, TellCookieStep,
     LogoutStep
<1>3. ASSUME NEW t \in Threads,
             \/ RemoveStored(t) \/ LetGo(t) \/ Finish(t) \/ Count(t) \/ Save(t) \/ Replace(t)
             \/ LookupText(t) \/ CreateText(t) \/ RemoveText(t) \/ SaveKeys(t) \/ CreateNone(t)
      PROVE  Inv'
  BY <1>3, RemoveStoredStep, LetGoStep, FinishStep, CountStep, SaveStep, ReplaceStep, LookupTextStep,
     CreateTextStep, RemoveTextStep, SaveKeysStep, CreateNoneStep
<1>4. CASE Shutdown \/ Restart
  BY <1>4, ShutdownStep, RestartStep
<1> QED
  BY <1>1, <1>2, <1>3, <1>4 DEF Next

\* Once a lookup has gone astray, it has.
LEMMA AstrayStays == astray /\ [Next]_vars => astray'
<1> SUFFICES ASSUME astray, [Next]_vars PROVE astray'
  OBVIOUS
<1>1. CASE UNCHANGED vars
  BY <1>1 DEF vars
<1>2. ASSUME NEW t \in Threads,
             \/ Start(t) \/ Ask(t) \/ Lookup(t) \/ Dup(t) \/ Create(t) \/ Fill(t) \/ Empty(t)
             \/ TellCookie(t) \/ Logout(t) \/ Finish(t) \/ Count(t) \/ Save(t)
      PROVE  astray'
  BY <1>2 DEF Start, Ask, Lookup, Dup, Create, Fill, Empty, TellCookie, Logout, Finish, Count, Save,
              history
<1>3. ASSUME NEW t \in Threads, LookupText(t) \/ CreateText(t) \/ RemoveText(t) \/ SaveKeys(t)
                                \/ CreateNone(t)
      PROVE  astray'
  BY <1>3 DEF LookupText, CreateText, RemoveText, SaveKeys, CreateNone, history
<1>4. ASSUME NEW t \in Threads, RemoveStored(t) \/ LetGo(t) \/ Replace(t)
      PROVE  astray'
  BY <1>4 DEF RemoveStored, LetGo, Replace, Deref, NoDeref
<1>5. CASE Shutdown \/ Restart
  BY <1>5 DEF Shutdown, Restart
<1> QED
  BY <1>1, <1>2, <1>3, <1>4, <1>5 DEF Next

\* What every state keeps until onion_sessions_mem_get has found a dictionary that was freed
\* before it was counted: how the requests, the store and the database go together.
THEOREM SessionsInvHolds == Spec => []SessionsInv
<1>1. Init => SessionsInv
  BY InitInv DEF SessionsInv
<1>2. SessionsInv /\ [Next]_vars => SessionsInv'
  BY NextInv, AstrayStays DEF SessionsInv
<1> QED
  BY <1>1, <1>2, PTL DEF Spec

\* The reference count of a session's dictionary (onion_dict_dup and onion_dict_free, dict.c)
\* is the number of those who hold it, the store, requests and a save under way, and it is
\* allocated as long as that is not zero: until a lookup goes astray.
THEOREM RefsExactHolds == Spec => []RefsExact
<1>1. SessionsInv => RefsExact
  BY DEF SessionsInv, Inv, RefsExact
<1> QED
  BY <1>1, SessionsInvHolds, PTL

\* The only way to a freed dictionary is a removal between the two steps of
\* onion_sessions_mem_get (sessions_mem.c:38): whatever else requests of one session do at
\* once, what they have is there (sessions.c:110).
THEOREM UsedWhileAliveHolds == Spec => []UsedWhileAlive
<1>1. SessionsInv => UsedWhileAlive
  BY DEF SessionsInv, Inv, UsedWhileAlive
<1> QED
  BY <1>1, SessionsInvHolds, PTL

\* In memory all requests of a session use one dictionary and no dictionary serves two
\* sessions; out of a database every request has its own (sessions_mem.c, sessions_redis.c,
\* sessions_sqlite3.c): until a lookup goes astray.
THEOREM OneDictPerSessionHolds == Spec => []OneDictPerSession
<1>1. SessionsInv => OneDictPerSession
  BY DEF SessionsInv, Inv, OneDictPerSession
<1> QED
  BY <1>1, SessionsInvHolds, PTL

\* A session that onion_request_session_free has removed from the memory comes back only if
\* another request had it then (request.c:505), which saves it: until a lookup goes astray.
THEOREM RemovedGoneHolds == Spec => []RemovedGone
<1>1. SessionsInv => RemovedGone
  BY DEF SessionsInv, Inv, RemovedGone
<1> QED
  BY <1>1, SessionsInvHolds, PTL

\* What onion_sessions_save has kept stays until a handler empties or removes it, over restarts
\* too if it is in a database (request.c:443), but for what requests of one session that
\* overlap take from each other (Disputed): until a lookup goes astray.
THEOREM SavedStaysHolds == Spec => []SavedStays
<1>1. SessionsInv => SavedStays
  BY DEF SessionsInv, Inv, SavedStays
<1> QED
  BY <1>1, SessionsInvHolds, PTL
=============================================================================
