------------------------------ MODULE DataKeys ------------------------------
(***************************************************************************)
(* The data keys of the units an FAU's content is encrypted under: the flow *)
(* of crates/keys/src/data_key.rs, the session cache of cache.rs and the    *)
(* wrapped_keys row of crates/persistence/src/keys.rs.                      *)
(*                                                                         *)
(* A request asks for the key of one unit inside a transaction of its own,  *)
(* writes a row under the key it was given, and commits or rolls back.      *)
(* Every await of data_key is the end of a step, and the caller's           *)
(* transaction may fail or be dropped at each.  The calls to the key        *)
(* service are those of KeyClient; PostgreSQL makes an insert wait for the  *)
(* open transaction that holds a conflicting one.  A wrapped key stands for *)
(* the key it wraps.                                                        *)
(***************************************************************************)
EXTENDS KeyClient, FiniteSets

CONSTANTS
  Session, Unit,
  NoKey, NoSession, NoUnit,
  Idle,          \* how long an entry survives without activity
  MaxKeys        \* bound

ASSUME KeyAssumption == NoKey \notin Nat
ASSUME SlotAssumption == NoSession \notin Session /\ NoUnit \notin Unit
ASSUME BoundAssumption == Idle \in Nat /\ MaxKeys \in Nat

VARIABLES
  stored,     \* wrapped_keys, committed: per unit its key or NoKey
  minted,     \* how many data keys OpenBao has made; they are 1 .. minted
  cache,      \* the cache's entries by session and unit: the key, and for how long it is idle
  task,       \* the requests under way
  rows,       \* the committed rows, each as session and unit, and key
  lost,       \* history: the keys whose transaction rolled back after they were cached
  loggedOut   \* sessions that have ended

keyVars == <<stored, minted, cache, task, rows, lost, loggedOut>>
vars == <<clientVars, keyVars>>

NoTask == [pc |-> "idle", session |-> NoSession, unit |-> NoUnit, wrapped |-> NoKey,
           key |-> NoKey, mine |-> FALSE]

Entry(r) == <<task[r].session, task[r].unit>>

Init ==
  /\ ClientInit
  /\ stored = [u \in Unit |-> NoKey]
  /\ minted = 0
  /\ cache = [e \in {} |-> {}]
  /\ task = [r \in Request |-> NoTask]
  /\ rows = {}
  /\ lost = {}
  /\ loggedOut = {}

-----------------------------------------------------------------------------
(* cache.rs *)

Put(e, key) ==
  cache' = [x \in DOMAIN cache \cup {e} |->
              IF x = e THEN [key |-> key, idle |-> 0] ELSE cache[x]]

Retain(entries) == cache' = [x \in entries |-> cache[x]]

\* KeyCache::get up to its await, for r in state t: a hit counts as activity.
CacheGet(r, t) ==
  LET e == <<t.session, t.unit>>
  IN  \/ /\ e \in DOMAIN cache
         /\ cache' = [cache EXCEPT ![e].idle = 0]
         /\ task' = [task EXCEPT ![r] = [t EXCEPT !.pc = "use", !.key = cache[e].key]]
      \/ /\ e \notin DOMAIN cache
         /\ task' = [task EXCEPT ![r] = [t EXCEPT !.pc = "unwrap"]]
         /\ UNCHANGED cache

TouchSession(s) ==
  /\ cache' = [x \in DOMAIN cache |->
                 IF x[1] = s THEN [cache[x] EXCEPT !.idle = 0] ELSE cache[x]]
  /\ UNCHANGED <<stored, minted, task, rows, lost, loggedOut>>

\* Logout: the session's entries go and it starts nothing new.
ReleaseSession(s) ==
  /\ s \notin loggedOut
  /\ loggedOut' = loggedOut \cup {s}
  /\ Retain({x \in DOMAIN cache : x[1] # s})
  /\ UNCHANGED <<stored, minted, task, rows, lost>>

\* The last client of the session leaves the document.
ReleaseDocument(s, u) ==
  /\ Retain(DOMAIN cache \ {<<s, u>>})
  /\ UNCHANGED <<stored, minted, task, rows, lost, loggedOut>>

Sweep ==
  /\ Retain({x \in DOMAIN cache : cache[x].idle < Idle})
  /\ UNCHANGED <<stored, minted, task, rows, lost, loggedOut>>

-----------------------------------------------------------------------------
(* data_key.rs and persistence/src/keys.rs *)

\* The caller opens its transaction and load_wrapped_key reads what is committed.  A key that
\* is there stays what it is, so that the lookup in the cache needs no step of its own.
LoadWrappedKey(r, s, u) ==
  LET t == [NoTask EXCEPT !.session = s, !.unit = u]
  IN  /\ task[r] = NoTask
      /\ s \notin loggedOut
      /\ \/ /\ stored[u] = NoKey
            /\ task' = [task EXCEPT ![r] = [t EXCEPT !.pc = "ensure"]]
            /\ UNCHANGED cache
         \/ /\ stored[u] # NoKey
            /\ CacheGet(r, [t EXCEPT !.wrapped = stored[u]])
      /\ UNCHANGED <<stored, minted, rows, lost, loggedOut>>

\* new_data_key: first the unit's own key is made sure of ...
EnsureKey(r) ==
  /\ task[r].pc = "ensure"
  /\ Answered(r)
  /\ task' = [task EXCEPT ![r].pc = "mint"]
  /\ UNCHANGED <<stored, minted, cache, rows, lost, loggedOut>>

\* ... and then OpenBao makes a data key.
NewDataKey(r) ==
  /\ task[r].pc = "mint"
  /\ minted < MaxKeys
  /\ Answered(r)
  /\ minted' = minted + 1
  /\ task' = [task EXCEPT ![r].pc = "store", ![r].key = minted + 1]
  /\ UNCHANGED <<stored, cache, rows, lost, loggedOut>>

\* The rest of KeyCache::get: the answer arrives and is put, whatever happened meanwhile.
Unwrap(r) ==
  /\ task[r].pc = "unwrap"
  /\ Answered(r)
  /\ Put(Entry(r), task[r].wrapped)
  /\ task' = [task EXCEPT ![r].pc = "use", ![r].key = task[r].wrapped]
  /\ UNCHANGED <<stored, minted, rows, lost, loggedOut>>

\* A request in a call to the key service.
Calling(r) == task[r].pc \in {"ensure", "mint", "unwrap"}

\* The call fails, and the caller's transaction with it.
KeyServiceFails(r) ==
  /\ Calling(r)
  /\ Failed(r)
  /\ task' = [task EXCEPT ![r] = NoTask]
  /\ UNCHANGED <<stored, minted, cache, rows, lost, loggedOut>>

\* The same when nobody answers.
KeyServiceTimesOut(r) ==
  /\ Calling(r)
  /\ TimedOut(r)
  /\ task' = [task EXCEPT ![r] = NoTask]
  /\ UNCHANGED <<stored, minted, cache, rows, lost, loggedOut>>

\* An open transaction's uncommitted insert into wrapped_keys.
Holds(q, u) == task[q].mine /\ task[q].unit = u

\* Mutant: the loser of the race goes on with the key it made.
LoserKeepsItsKey(r) == task' = [task EXCEPT ![r].pc = "use"] /\ UNCHANGED cache

\* Another session stored its key first: ours is discarded.
LoserLooksUp(r) == CacheGet(r, [task[r] EXCEPT !.wrapped = stored[task[r].unit], !.key = NoKey])

\* Insert, on conflict do nothing, and read back.  The insert waits for any other open
\* transaction that has inserted the unit's row.  The winner puts its key in the cache; its
\* transaction is still open.
StoreWrappedKey(r) ==
  LET u == task[r].unit
  IN  /\ task[r].pc = "store"
      /\ \A q \in Request : ~Holds(q, u)
      /\ \/ /\ stored[u] = NoKey
            /\ task' = [task EXCEPT ![r].pc = "use", ![r].mine = TRUE]
            /\ Put(Entry(r), task[r].key)
         \/ /\ stored[u] # NoKey
            /\ LoserLooksUp(r)
      /\ UNCHANGED <<stored, minted, rows, lost, loggedOut>>

\* The caller writes a row under the key it was given and commits.
Commit(r) ==
  /\ task[r].pc = "use"
  /\ stored' = IF task[r].mine THEN [stored EXCEPT ![task[r].unit] = task[r].key] ELSE stored
  /\ rows' = rows \cup {<<Entry(r), task[r].key>>}
  /\ task' = [task EXCEPT ![r] = NoTask]
  /\ UNCHANGED <<minted, cache, lost, loggedOut>>

\* The caller's transaction ends without a commit, at any await: a statement fails, or the
\* request is dropped.  A key it had stored stays in the cache.
RollBack(r) ==
  /\ Calling(r) \/ task[r].pc \in {"store", "use"}
  /\ lost' = IF task[r].mine THEN lost \cup {<<Entry(r), task[r].key>>} ELSE lost
  /\ task' = [task EXCEPT ![r] = NoTask]
  /\ UNCHANGED <<stored, minted, cache, rows, loggedOut>>

\* The backend restarts: every open transaction rolls back and the memory is gone.
Restart ==
  /\ ClientRestarts
  /\ task' = [r \in Request |-> NoTask]
  /\ Retain({})
  /\ UNCHANGED <<stored, minted, rows, lost, loggedOut>>

\* Time passes; an entry that has been idle long enough is not told from one idle longer.
Tick ==
  /\ cache' = [x \in DOMAIN cache |->
                 IF cache[x].idle < Idle THEN [cache[x] EXCEPT !.idle = @ + 1] ELSE cache[x]]
  /\ UNCHANGED <<stored, minted, task, rows, lost, loggedOut>>

-----------------------------------------------------------------------------
\* Steps of a request beside its calls.
OwnStep(r) == StoreWrappedKey(r) \/ Commit(r)

\* Steps of a request that end a call or its part in one.
AnswerStep(r) ==
  \/ EnsureKey(r)
  \/ NewDataKey(r)
  \/ Unwrap(r)
  \/ KeyServiceFails(r)
  \/ KeyServiceTimesOut(r)
  \/ RollBack(r) /\ EndCall(r)

CacheStep ==
  \/ \E s \in Session : TouchSession(s) \/ ReleaseSession(s)
  \/ \E s \in Session, u \in Unit : ReleaseDocument(s, u)
  \/ Sweep

KeyStep ==
  \/ \E r \in Request, s \in Session, u \in Unit : LoadWrappedKey(r, s, u)
  \/ \E r \in Request : OwnStep(r)
  \/ CacheStep
  \/ Tick

Next ==
  \/ KeyStep /\ UNCHANGED clientVars
  \/ \E r \in Request : Calling(r) /\ CallStep(r) /\ UNCHANGED keyVars
  \/ TokenExpires /\ UNCHANGED keyVars
  \/ \E r \in Request : AnswerStep(r)
  \/ Restart

Spec == Init /\ [][Next]_vars

\* A request goes on by itself, but for its waits: earlier holders of the client's lock, an open
\* transaction with the same row, and OpenBao, which may never answer.  Its own caller ends
\* the transaction once the key is there.
Proceeds(r) ==
  \/ OwnStep(r) /\ UNCHANGED clientVars
  \/ Calling(r) /\ Begin(r) /\ UNCHANGED keyVars
  \/ KeyServiceTimesOut(r)

FairSpec == Spec /\ \A r \in Request : WF_vars(Proceeds(r))

-----------------------------------------------------------------------------
(* Properties. *)

Key == 1 .. minted

TaskRow ==
  [pc : {"idle", "ensure", "mint", "store", "unwrap", "use"},
   session : Session \cup {NoSession}, unit : Unit \cup {NoUnit},
   wrapped : Key \cup {NoKey}, key : Key \cup {NoKey}, mine : BOOLEAN]

\* Every entry, row and request names keys OpenBao has made, and a request past its key's
\* arrival has one.
TypeOK ==
  /\ minted \in Nat
  /\ stored \in [Unit -> Key \cup {NoKey}]
  /\ DOMAIN cache \subseteq Session \X Unit
  /\ \A e \in DOMAIN cache : cache[e] \in [key : Key, idle : 0 .. Idle]
  /\ task \in [Request -> TaskRow]
  /\ \A r \in Request : task[r].pc \in {"store", "use"} => task[r].key \in Key
  /\ rows \subseteq (Session \X Unit) \X Key
  /\ lost \subseteq (Session \X Unit) \X Key
  /\ loggedOut \subseteq Session

\* A committed row can be read again: it was written under the key that the unit's
\* wrapped_keys row holds (docs/key-service-design.md 3.2).  It fails when the transaction
\* that stored the key rolls back after data_key has cached it.
RowsAreReadable == \A row \in rows : stored[row[1][2]] = row[2]

\* Only that can make a row unreadable, and only for the session whose transaction it was:
\* racing first users, expiry, logout, restart and rollbacks of others never do (data_key
\* lets first users mint several keys of which one is stored).
LossStaysInItsSession == \A row \in rows : stored[row[1][2]] = row[2] \/ row \in lost

\* A request that starts also ends, though OpenBao may never answer anybody: nobody waits for
\* ever for the client's lock or for another transaction's wrapped_keys row (call, login,
\* store_wrapped_key).
RequestsEnd == \A r \in Request : task[r].pc # "idle" ~> task[r].pc = "idle"

\* No key stays in the cache after its session has logged out
\* (docs/identity-and-encryption.md, testing table).
NoKeyAfterLogout == \A e \in DOMAIN cache : e[1] \notin loggedOut
=============================================================================
