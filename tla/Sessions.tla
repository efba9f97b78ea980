------------------------------ MODULE Sessions ------------------------------
(***************************************************************************)
(* The sessions (sessions.c) and the requests that use them (request.c),   *)
(* kept in memory (sessions_mem.c), in redis or in sqlite                  *)
(* (sessions_redis.c, sessions_sqlite3.c).                                 *)
(*                                                                         *)
(* In memory the store holds one reference to the dictionary of each       *)
(* session, a request that asked for its session holds another one, and    *)
(* the last to let go frees it.  The count has its own mutex; nothing else *)
(* is locked.  A lookup, an insertion and a removal in the store are one   *)
(* step each, although the tree behind it is not locked either: what goes  *)
(* wrong here goes wrong for every store.                                  *)
(*                                                                         *)
(* A database holds a text for each session, which stays when the process  *)
(* ends; every request makes a dictionary of its own of it.  Each of its   *)
(* operations has the backend's mutex, and may fail.                       *)
(***************************************************************************)
EXTENDS Naturals, FiniteSets

CONSTANTS
  Threads,    \* each serves one request at a time
  Ids,        \* session ids; one is drawn only once
  Dicts,      \* addresses of dictionaries
  Overlapping, \* sessions whose client sends a request before the last one is done
  Removable,  \* sessions for which handlers call onion_request_session_free
  Emptiable,  \* sessions out of which handlers take the last key
  Backends,   \* where sessions are kept: a subset of {"memory", "redis", "sqlite3"}
  MaxRestarts, \* bound: ends of the process
  MaxServed,  \* bound: requests
  Nil

ASSUME SessionsAssumption ==
  /\ IsFiniteSet(Threads) /\ IsFiniteSet(Ids) /\ IsFiniteSet(Dicts)
  /\ Overlapping \cup Removable \cup Emptiable \subseteq Ids
  /\ Backends \subseteq {"memory", "redis", "sqlite3"}
  /\ MaxServed \in Nat /\ MaxRestarts \in Nat
  /\ Nil \notin Ids \cup Dicts

VARIABLES
  backend,
  store,    \* memory: the dictionary of each id
  table,    \* database: the text of each id, with keys in it or without
  restarts,
  alive,    \* dictionaries that are allocated
  refs,     \* dict->refcount
  filled,   \* onion_dict_count > 0
  drawn,    \* ids that onion_sessions_generate_id has given
  known,    \* ids that a Set-Cookie header has told a client
  cookie,   \* the id in the request's Cookie header
  sid,      \* req->session_id
  sess,     \* req->session; while a lookup is under way, what it found
  pc,
  served,
  removed,  \* history: ids whose session a handler has removed
  saved,    \* history: ids whose data was saved, and not emptied or removed since
  kept,     \* history: removed ids that another request had when they were removed
  astray    \* history: a dictionary was freed that a lookup had found and not yet counted

dicts == <<alive, refs, filled>>
ids == <<drawn, known>>
request == <<cookie, sid, sess>>
history == <<removed, saved, kept, astray>>
database == <<backend, table, restarts>>
vars == <<backend, store, table, restarts, alive, refs, filled, drawn, known, cookie, sid, sess, pc,
          served, removed, saved, kept, astray>>

Goto(t, label) == pc' = [pc EXCEPT ![t] = label]
-----------------------------------------------------------------------------
\* A database that cannot be opened leaves the server without a backend.
MemNew == {"memory"}
RedisNew == {"redis", "no backend"}
SqliteNew == {"sqlite3", "no backend"}

Init ==
  /\ \/ "memory" \in Backends /\ backend \in MemNew
     \/ "redis" \in Backends /\ backend \in RedisNew
     \/ "sqlite3" \in Backends /\ backend \in SqliteNew
  /\ store = [i \in Ids |-> Nil]
  /\ table = [i \in Ids |-> "none"]
  /\ restarts = 0
  /\ alive = {}
  /\ refs = [d \in Dicts |-> 0]
  /\ filled = [d \in Dicts |-> FALSE]
  /\ drawn = {} /\ known = {}
  /\ cookie = [t \in Threads |-> Nil]
  /\ sid = [t \in Threads |-> Nil]
  /\ sess = [t \in Threads |-> Nil]
  /\ pc = [t \in Threads |-> "idle"]
  /\ served = 0
  /\ removed = {} /\ saved = {} /\ kept = {} /\ astray = FALSE
-----------------------------------------------------------------------------
(* The count of dict.c *)

Finding(t) == pc[t] \in {"dup", "dupout"}
\* onion_dict_free of one reference to d.
Deref(d) ==
  /\ refs' = [refs EXCEPT ![d] = @ - 1]
  /\ alive' = IF refs[d] = 1 THEN alive \ {d} ELSE alive
  /\ astray' = (astray \/ (refs[d] = 1 /\ \E t \in Threads : Finding(t) /\ sess[t] = d))
NoDeref == UNCHANGED <<alive, refs, astray>>
-----------------------------------------------------------------------------
(* The databases: what a lookup may return and what a save may leave.      *)

\* HEXISTS, then HGET; an error of either is no session.
RedisGet(i) ==
  {"none"} \cup (IF table[i] = "none" THEN {} ELSE {table[i]})
\* HSET: HDEL is for a backend without a connection, and never sent.
RedisSave(i, text) == {table, [table EXCEPT ![i] = text]}

\* A step of the SELECT: SQLITE_ROW, SQLITE_DONE or an error.
SqliteGet(i) ==
  LET results == {"error"} \cup (IF table[i] = "none" THEN {"done"} ELSE {"row"})
  IN  {IF rc = "row" THEN table[i] ELSE "none" : rc \in results}
\* INSERT OR REPLACE, which may fail.
SqliteSave(i, text) ==
  {IF rc = "done" THEN [table EXCEPT ![i] = text] ELSE table : rc \in {"done", "error"}}

GetText(i) ==
  CASE backend = "redis" -> RedisGet(i) [] backend = "sqlite3" -> SqliteGet(i) [] OTHER -> {"none"}
SaveText(i, text) == IF backend = "redis" THEN RedisSave(i, text) ELSE SqliteSave(i, text)

InMemory == backend = "memory"
-----------------------------------------------------------------------------
(* A request *)

\* The session a request works on, or has found and is about to count.
Serving(t) == IF Finding(t) THEN cookie[t] ELSE sid[t]
InUse(i) == \E t \in Threads : i \in {cookie[t], sid[t]}

\* The request has no cookie, or one that some client was given.
Start(t) ==
  /\ pc[t] = "idle"
  /\ served < MaxServed
  /\ served' = served + 1
  /\ \E c \in {i \in known : i \in Overlapping \/ ~InUse(i)} \cup {Nil} :
       cookie' = [cookie EXCEPT ![t] = c]
  /\ Goto(t, "handler")
  /\ UNCHANGED <<database, store, dicts, ids, sid, sess, history>>

\* onion_request_get_session_dict; a session the request has is returned at once.
Ask(t) ==
  /\ pc[t] = "handler"
  /\ sess[t] = Nil
  /\ Goto(t, IF cookie[t] # Nil /\ sid[t] = Nil THEN "lookup" ELSE "create")
  /\ UNCHANGED <<database, store, dicts, ids, request, served, history>>

\* onion_sessions_mem_get finds the dictionary, for a handler that wants to use it or
\* to remove it ...
Lookup(t) ==
  /\ InMemory
  /\ pc[t] \in {"lookup", "lookout"}
  /\ sess' = [sess EXCEPT ![t] = store[cookie[t]]]
  /\ Goto(t, IF store[cookie[t]] # Nil
               THEN IF pc[t] = "lookup" THEN "dup" ELSE "dupout"
               ELSE IF pc[t] = "lookup" THEN "create" ELSE "handler")
  /\ UNCHANGED <<database, store, dicts, ids, cookie, sid, served, history>>

\* A bug: onion_dict_hard_dup.
DupHard(t) ==
  /\ pc[t] \in {"dup", "dupout"}
  /\ \E d \in Dicts \ alive :
       /\ alive' = alive \cup {d}
       /\ refs' = [refs EXCEPT ![d] = 1]
       /\ filled' = [filled EXCEPT ![d] = filled[sess[t]]]
       /\ sess' = [sess EXCEPT ![t] = d]
  /\ sid' = [sid EXCEPT ![t] = cookie[t]]
  /\ Goto(t, IF pc[t] = "dup" THEN "handler" ELSE "forget")
  /\ UNCHANGED <<database, store, ids, cookie, served, history>>

\* ... and takes a reference to it.
Dup(t) ==
  /\ pc[t] \in {"dup", "dupout"}
  /\ refs' = [refs EXCEPT ![sess[t]] = @ + 1]
  /\ sid' = [sid EXCEPT ![t] = cookie[t]]
  /\ Goto(t, IF pc[t] = "dup" THEN "handler" ELSE "forget")
  /\ UNCHANGED <<database, store, alive, filled, ids, cookie, sess, served, history>>

\* The lookup in a database makes a dictionary of the text.
LookupText(t) ==
  /\ ~InMemory
  /\ pc[t] \in {"lookup", "lookout"}
  /\ \E text \in GetText(cookie[t]) :
       IF text = "none"
         THEN /\ Goto(t, IF pc[t] = "lookup" THEN "create" ELSE "handler")
              /\ UNCHANGED <<dicts, sid, sess>>
         ELSE \E d \in Dicts \ alive :
                /\ alive' = alive \cup {d}
                /\ refs' = [refs EXCEPT ![d] = 1]
                /\ filled' = [filled EXCEPT ![d] = text = "keys"]
                /\ sess' = [sess EXCEPT ![t] = d]
                /\ sid' = [sid EXCEPT ![t] = cookie[t]]
                /\ Goto(t, IF pc[t] = "lookup" THEN "handler" ELSE "forget")
  /\ UNCHANGED <<database, store, ids, cookie, served, history>>

\* onion_sessions_create and onion_sessions_get: nobody else has the id yet.  One
\* reference is the store's, one is the request's.
Create(t) ==
  /\ InMemory
  /\ pc[t] = "create"
  /\ \E i \in Ids \ drawn, d \in Dicts \ alive :
       /\ drawn' = drawn \cup {i}
       /\ alive' = alive \cup {d}
       /\ refs' = [refs EXCEPT ![d] = 2]
       /\ filled' = [filled EXCEPT ![d] = FALSE]
       /\ store' = [store EXCEPT ![i] = d]
       /\ sid' = [sid EXCEPT ![t] = i]
       /\ sess' = [sess EXCEPT ![t] = d]
  /\ Goto(t, "handler")
  /\ UNCHANGED <<database, known, cookie, served, history>>

\* In a database the new session may not be saved, or not be read: then the request
\* has an id and no session.
CreateText(t) ==
  /\ backend \in {"redis", "sqlite3"}
  /\ pc[t] = "create"
  /\ \E i \in Ids \ drawn, d \in Dicts \ alive :
       /\ drawn' = drawn \cup {i}
       /\ table' \in SaveText(i, "empty")
       /\ sid' = [sid EXCEPT ![t] = i]
       /\ \/ /\ table'[i] = "empty"
             /\ alive' = alive \cup {d}
             /\ refs' = [refs EXCEPT ![d] = 1]
             /\ filled' = [filled EXCEPT ![d] = FALSE]
             /\ sess' = [sess EXCEPT ![t] = d]
          \/ UNCHANGED <<dicts, sess>>
  /\ Goto(t, "handler")
  /\ UNCHANGED <<backend, restarts, store, known, cookie, served, history>>

\* Without a backend there is no id either.
CreateNone(t) ==
  /\ backend = "no backend"
  /\ pc[t] = "create"
  /\ Goto(t, "handler")
  /\ UNCHANGED <<database, store, dicts, ids, request, served, history>>

\* The handler adds a key, or takes the last one away.
Fill(t) ==
  /\ pc[t] = "handler"
  /\ sess[t] # Nil
  /\ filled' = [filled EXCEPT ![sess[t]] = TRUE]
  /\ UNCHANGED <<database, store, alive, refs, ids, request, pc, served, history>>

Empty(t) ==
  /\ pc[t] = "handler"
  /\ sid[t] \in Emptiable /\ sess[t] # Nil
  /\ filled' = [filled EXCEPT ![sess[t]] = FALSE]
  /\ saved' = saved \ ({sid[t]} \cup {i \in Ids : store[i] = sess[t]})
  /\ UNCHANGED <<database, store, alive, refs, ids, request, pc, served, removed, kept, astray>>

\* onion_response_write_headers tells the client the id, if there is something in
\* the session.
TellCookie(t) ==
  /\ pc[t] = "handler"
  /\ sess[t] # Nil
  /\ filled[sess[t]]
  /\ known' = known \cup {sid[t]}
  /\ UNCHANGED <<database, store, dicts, drawn, request, pc, served, history>>

\* A bug: only the request forgets the session.
LogoutLocal(t) ==
  /\ pc[t] = "handler"
  /\ sid[t] \in Removable
  /\ removed' = removed \cup {sid[t]}
  /\ saved' = saved \ {sid[t]}
  /\ Goto(t, "letgo")
  /\ UNCHANGED <<database, store, dicts, ids, request, served, kept, astray>>

\* onion_request_session_free, called by the handler: a session that nobody asked
\* for is looked up first.
Logout(t) ==
  /\ pc[t] = "handler"
  /\ \/ sid[t] \in Removable /\ Goto(t, "forget")
     \/ sid[t] = Nil /\ cookie[t] \in Removable /\ Goto(t, "lookout")
  /\ UNCHANGED <<database, store, dicts, ids, request, served, history>>

\* The session is removed: who else has it and has not done with it may bring it back.
Removes(t) ==
  IF pc[t] = "forget"
    THEN /\ removed' = removed \cup {sid[t]}
         /\ saved' = saved \ {sid[t]}
         /\ kept' = IF \E u \in Threads \ {t} : Serving(u) = sid[t] /\ pc[u] \notin {"letgo", "end"}
                      THEN kept \cup {sid[t]} ELSE kept \ {sid[t]}
    ELSE UNCHANGED <<removed, saved, kept>>
\* Its two steps: onion_sessions_remove takes the session out of the store, which
\* lets go of it ...
RemoveStored(t) ==
  /\ InMemory
  /\ pc[t] \in {"forget", "purge"}
  /\ store' = [store EXCEPT ![sid[t]] = Nil]
  /\ IF store[sid[t]] # Nil
       THEN Deref(store[sid[t]])
       ELSE NoDeref
  /\ Removes(t)
  /\ Goto(t, IF pc[t] = "forget" THEN "letgo" ELSE "end")
  /\ UNCHANGED <<database, filled, ids, request, served>>

\* A database keeps the session, with nothing in it.
RemoveText(t) ==
  /\ ~InMemory
  /\ pc[t] \in {"forget", "purge"}
  /\ table' \in SaveText(sid[t], "empty")
  /\ Removes(t)
  /\ Goto(t, IF pc[t] = "forget" THEN "letgo" ELSE "end")
  /\ UNCHANGED <<backend, restarts, store, dicts, ids, request, served, astray>>

\* ... and the request lets go of it: the handler goes on without a session, or
\* the request is done.
LetGo(t) ==
  /\ pc[t] \in {"letgo", "end"}
  /\ IF sess[t] # Nil THEN Deref(sess[t]) ELSE NoDeref
  /\ sess' = [sess EXCEPT ![t] = Nil]
  /\ sid' = [sid EXCEPT ![t] = Nil]
  /\ cookie' = IF pc[t] = "end" THEN [cookie EXCEPT ![t] = Nil] ELSE cookie
  /\ Goto(t, IF pc[t] = "end" THEN "idle" ELSE "handler")
  /\ UNCHANGED <<database, store, filled, ids, served, removed, saved, kept>>

\* onion_request_clean, or _free, at the end of a request without a session.
Finish(t) ==
  /\ pc[t] = "handler"
  /\ sess[t] = Nil
  /\ cookie' = [cookie EXCEPT ![t] = Nil]
  /\ sid' = [sid EXCEPT ![t] = Nil]
  /\ Goto(t, "idle")
  /\ UNCHANGED <<database, store, dicts, ids, sess, served, history>>

\* With a session: an empty one is removed, another one is saved.
Count(t) ==
  /\ pc[t] = "handler"
  /\ sid[t] # Nil
  /\ Goto(t, IF sess[t] # Nil /\ filled[sess[t]] THEN "save" ELSE "purge")
  /\ UNCHANGED <<database, store, dicts, ids, request, served, history>>

\* A bug: the dictionary is stored without a reference.
SaveUncounted(t) ==
  /\ InMemory
  /\ pc[t] = "save"
  /\ Goto(t, "replace")
  /\ UNCHANGED <<database, store, dicts, ids, request, served, history>>

\* onion_sessions_mem_save: a new reference for the store ...
Save(t) ==
  /\ InMemory
  /\ pc[t] = "save"
  /\ refs' = [refs EXCEPT ![sess[t]] = @ + 1]
  /\ Goto(t, "replace")
  /\ UNCHANGED <<database, store, alive, filled, ids, request, served, history>>

\* A bug: what was stored before is not released.
ReplaceKept(t) ==
  /\ pc[t] = "replace"
  /\ store' = [store EXCEPT ![sid[t]] = sess[t]]
  /\ saved' = IF filled[sess[t]] THEN saved \cup {sid[t]} ELSE saved
  /\ Goto(t, "end")
  /\ UNCHANGED <<database, dicts, ids, request, served, removed, kept, astray>>

\* ... which replaces the one it had (OD_REPLACE, OD_FREE_VALUE).
Replace(t) ==
  /\ pc[t] = "replace"
  /\ store' = [store EXCEPT ![sid[t]] = sess[t]]
  /\ IF store[sid[t]] # Nil
       THEN Deref(store[sid[t]])
       ELSE NoDeref
  /\ saved' = IF filled[sess[t]] THEN saved \cup {sid[t]} ELSE saved
  /\ Goto(t, "end")
  /\ UNCHANGED <<database, filled, ids, request, served, removed, kept>>

\* A database gets the text of the dictionary.
SaveKeys(t) ==
  /\ ~InMemory
  /\ pc[t] = "save"
  /\ table' \in SaveText(sid[t], "keys")
  /\ saved' = IF table'[sid[t]] = "keys" THEN saved \cup {sid[t]} ELSE saved
  /\ Goto(t, "end")
  /\ UNCHANGED <<backend, restarts, store, dicts, ids, request, served, removed, kept, astray>>

\* onion_free, when no request is left: the memory lets go of all it has.
Shutdown ==
  /\ \A t \in Threads : pc[t] = "idle"
  /\ restarts < MaxRestarts
  /\ restarts' = restarts + 1
  /\ refs' = [d \in Dicts |-> refs[d] - Cardinality({i \in Ids : store[i] = d})]
  /\ alive' = {d \in alive : refs'[d] > 0}
  /\ store' = [i \in Ids |-> Nil]
  /\ saved' = IF InMemory THEN {} ELSE saved
  /\ UNCHANGED <<backend, table, filled, ids, request, pc, served, removed, kept, astray>>

\* The process ends, in the middle of what its threads do, and is started again.
Restart ==
  /\ restarts < MaxRestarts
  /\ restarts' = restarts + 1
  /\ store' = [i \in Ids |-> Nil]
  /\ alive' = {}
  /\ refs' = [d \in Dicts |-> 0]
  /\ filled' = [d \in Dicts |-> FALSE]
  /\ cookie' = [t \in Threads |-> Nil]
  /\ sid' = [t \in Threads |-> Nil]
  /\ sess' = [t \in Threads |-> Nil]
  /\ pc' = [t \in Threads |-> "idle"]
  /\ saved' = IF InMemory THEN {} ELSE saved
  /\ UNCHANGED <<backend, table, ids, served, removed, kept, astray>>
-----------------------------------------------------------------------------
Next ==
  \E t \in Threads :
    \/ Start(t) \/ Ask(t) \/ Lookup(t) \/ Dup(t) \/ Create(t)
    \/ Fill(t) \/ Empty(t) \/ TellCookie(t) \/ Logout(t)
    \/ RemoveStored(t) \/ LetGo(t) \/ Finish(t)
    \/ Count(t) \/ Save(t) \/ Replace(t)
    \/ LookupText(t) \/ CreateText(t) \/ RemoveText(t) \/ SaveKeys(t)
    \/ CreateNone(t) \/ Shutdown \/ Restart

Spec == Init /\ [][Next]_vars
-----------------------------------------------------------------------------
Counters ==
  /\ refs \in [Dicts -> Nat]
  /\ served \in 0..MaxServed /\ restarts \in 0..MaxRestarts

Contents ==
  /\ backend \in Backends \cup {"no backend"}
  /\ store \in [Ids -> Dicts \cup {Nil}]
  /\ table \in [Ids -> {"none", "empty", "keys"}]
  /\ alive \subseteq Dicts
  /\ filled \in [Dicts -> BOOLEAN]
  /\ known \subseteq drawn /\ drawn \subseteq Ids
  /\ cookie \in [Threads -> Ids \cup {Nil}]
  /\ sid \in [Threads -> Ids \cup {Nil}]
  /\ sess \in [Threads -> Dicts \cup {Nil}]
  /\ pc \in [Threads -> {"idle", "handler", "lookup", "lookout", "dup", "dupout", "create", "forget",
                         "letgo", "purge", "end", "save", "replace"}]
  /\ removed \subseteq drawn /\ saved \subseteq drawn /\ kept \subseteq drawn /\ astray \in BOOLEAN

TypeOK == Counters /\ Contents

\* Who has a reference to d: the store, once for each id, the requests, and a
\* request that is about to give the store one more.
Holders(d) ==
  {<<"store", i>> : i \in {j \in Ids : store[j] = d}}
    \cup {<<"request", t>> : t \in {u \in Threads : sess[u] = d /\ pc[u] \notin {"dup", "dupout"}}}
    \cup {<<"saving", t>> : t \in {u \in Threads : sess[u] = d /\ pc[u] = "replace"}}

\* onion_sessions_mem_get finds a dictionary and counts its reference in two steps.  If it
\* was freed between them the request works on memory that is no longer its own, and nothing
\* is promised any more: astray.  That is what NoUseAfterFree says, and it is not so.
\* What follows holds as long as it has not happened, and shows that nothing else goes wrong.

\* "This is this way to prevent a thread removing the dict, whilst others are
\* using it" (sessions.c:110): what a lookup found is there when it is used.
AllAlive == \A t \in Threads : sess[t] # Nil => sess[t] \in alive
NoUseAfterFree == AllAlive
\* No request works on a freed dictionary by any other way: not by removing, emptying,
\* saving or replacing the session another request uses.
UsedWhileAlive == ~astray => AllAlive

\* The count is exact: no dictionary is freed under a request or under the store,
\* and none is left when the last one lets go.
CountsRight ==
  /\ TypeOK
  /\ \A d \in Dicts :
       /\ refs[d] = Cardinality(Holders(d))
       /\ d \in alive <=> refs[d] > 0
RefsExact == ~astray => CountsRight

\* In memory a session has one dictionary, and a dictionary one session, for every
\* request that uses it: what one adds the others see.  Out of a database every
\* request has a dictionary of its own, which nobody else changes under it.
OneDict ==
  \A t, u \in Threads :
    /\ InMemory /\ Serving(t) # Nil /\ Serving(u) # Nil =>
         (Serving(t) = Serving(u) <=> sess[t] = sess[u])
    /\ ~InMemory /\ t # u /\ sess[t] # Nil => sess[t] # sess[u]
OneDictPerSession == ~astray => OneDict

\* Once a handler has removed it, "this session does not exist anymore" (request.c:505).
\* A request that has it then saves it when it ends: it is there again.
RemovedForGood == InMemory => \A i \in removed : store[i] = Nil
\* Nobody else brings it back: if no other request had it, it is gone from the memory, and
\* no later request gets it.  For the databases see the README.
Gone ==
  InMemory => \A i \in removed \ kept :
    /\ store[i] = Nil
    /\ \A t \in Threads : Serving(t) = i => pc[t] \in {"letgo", "end"}
RemovedGone == ~astray => Gone

InStore(i) == IF InMemory THEN store[i] \in alive /\ filled[store[i]] ELSE table[i] = "keys"
\* "Returned dictionary can be freely managed (added new keys...) and this is the session
\* data" (request.c:443).  A request that has counted none removes the session, whatever
\* another one has added and saved since.
SavedForGood == \A i \in saved : InMemory => InStore(i)
\* What requests of one session may take from each other: out of a database, the one that
\* read the session before another one saved it overwrites what that saved; in memory, the
\* one that emptied it removes it.
Disputed(i) == i \in Overlapping /\ (InMemory => i \in Emptiable)
\* Otherwise it stays, once saved, until a handler empties or removes the session, in a
\* database even when the process ends.
Stays == \A i \in saved : ~Disputed(i) => InStore(i)
SavedStays == ~astray => Stays
-----------------------------------------------------------------------------
(* Why these hold: an inductive invariant                                  *)

\* Several requests may use the session: its id is known to a client that does not wait.
Shared(i) == i \in Overlapping \cap known

\* What a request has at each point.
Holding(t) ==
  /\ cookie[t] \in known \cup {Nil} /\ sid[t] \in drawn \cup {Nil}
  /\ pc[t] = "idle" => cookie[t] = Nil /\ sid[t] = Nil /\ sess[t] = Nil
  /\ pc[t] \in {"lookup", "lookout", "dup", "dupout"} => cookie[t] # Nil /\ sid[t] = Nil
  /\ pc[t] \in {"lookup", "lookout", "create"} => sess[t] = Nil
  /\ pc[t] \in {"dup", "dupout"} => InMemory /\ sess[t] # Nil /\ sess[t] \in alive
  /\ pc[t] \notin {"dup", "dupout"} /\ sess[t] # Nil => sid[t] # Nil
  /\ pc[t] \in {"forget", "letgo", "purge", "end", "save", "replace"} => sid[t] # Nil
  /\ pc[t] \in {"lookout", "dupout"} => cookie[t] \in Removable
  /\ pc[t] \in {"forget", "letgo"} => sid[t] \in Removable
  /\ pc[t] = "purge" /\ ~Disputed(sid[t]) => sess[t] = Nil \/ ~filled[sess[t]]
  /\ pc[t] = "save" => sess[t] # Nil /\ (~InMemory => filled[sess[t]])
  /\ pc[t] = "replace" => InMemory

\* In memory, a request has the dictionary that is stored, if one is.  If no handler takes its
\* last key, what a client knows of has one.
KeepsDict(t) ==
  InMemory /\ Serving(t) # Nil =>
    /\ sess[t] # Nil
    /\ store[Serving(t)] \in {sess[t], Nil}
    /\ \A i \in Ids : store[i] = sess[t] => i = Serving(t)
    /\ Shared(Serving(t)) /\ Serving(t) \notin Emptiable => filled[sess[t]]

\* A session that is not shared is used by one request.
Alone ==
  \A t, u \in Threads, i \in Ids :
    /\ ~Shared(i)
    /\ i \in {cookie[t], sid[t]} /\ i \in {cookie[u], sid[u]}
    => t = u

Stored ==
  /\ \A i \in Ids : store[i] # Nil => InMemory /\ i \in drawn
  /\ \A i, j \in Ids : store[i] = store[j] /\ store[i] # Nil => i = j
  /\ \A i \in Ids : Shared(i) /\ i \notin Emptiable /\ store[i] # Nil => filled[store[i]]

\* A request that ends with nothing in its session will not remove what was saved.
Unsaved(t) ==
  /\ sid[t] # Nil /\ ~Disputed(sid[t])
  /\ sess[t] = Nil \/ ~filled[sess[t]]
  => sid[t] \notin saved

Inv ==
  /\ CountsRight /\ AllAlive /\ OneDict /\ Gone /\ Stays
  /\ \A t \in Threads : Holding(t) /\ KeepsDict(t) /\ Unsaved(t)
  /\ Alone /\ Stored
\* All of it, until a lookup has gone astray
SessionsInv == ~astray => Inv
=============================================================================
