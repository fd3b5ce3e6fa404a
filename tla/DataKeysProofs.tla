--------------------------- MODULE DataKeysProofs ---------------------------
(***************************************************************************)
(* A committed row is unreadable only when the transaction that had stored *)
(* and cached its key rolled back, and then in that session alone: for any *)
(* number of sessions, units and requests, whatever the key service        *)
(* answers, and with the backend restarting at any moment.                 *)
(***************************************************************************)
EXTENDS DataKeys, TLAPS

-----------------------------------------------------------------------------
(* The inductive invariant. *)

\* The open transaction that has stored a unit's first key is alone in that, the row is
\* not committed yet, and it is past its insert.
InsertInv ==
  /\ \A r \in Request : task[r].mine => task[r].pc = "use" /\ stored[task[r].unit] = NoKey
  /\ \A q, r \in Request : task[q].mine /\ task[r].mine /\ task[q].unit = task[r].unit => q = r

\* The key is the one e's unit has stored, or one that e's session lost.
Good(e, key) == key = stored[e[2]] \/ <<e, key>> \in lost

\* An open transaction of e's session is storing the key.
Pending(e, key) == \E q \in Request : task[q].mine /\ Entry(q) = e /\ task[q].key = key

CacheInv == \A e \in DOMAIN cache : Good(e, cache[e].key) \/ Pending(e, cache[e].key)

\* What a request was told about its unit still holds.
TaskInv ==
  \A r \in Request :
    /\ task[r].pc # "idle" => task[r].unit \in Unit /\ task[r].session \in Session
    /\ task[r].pc = "unwrap" => task[r].wrapped = stored[task[r].unit] /\ task[r].wrapped # NoKey
    /\ task[r].pc = "use" /\ ~task[r].mine => Good(Entry(r), task[r].key)

IndInv == TypeOK /\ InsertInv /\ CacheInv /\ TaskInv /\ LossStaysInItsSession

USE DEF Key

\* The marker for an absent row is none of the minted keys.
LEMMA NoKeyIsNoNumber == \A n \in Nat : n # NoKey
BY KeyAssumption

\* The idle request is a well-formed one.
LEMMA NoTaskType == NoTask \in TaskRow /\ ~NoTask.mine /\ NoTask.pc = "idle"
BY DEF NoTask, TaskRow

\* A fresh database and an empty cache satisfy the invariant.
LEMMA InitIndInv == Init => IndInv
<1> SUFFICES ASSUME Init PROVE IndInv
  OBVIOUS
<1>1. TypeOK
  BY NoTaskType DEF Init, TypeOK, NoTask
<1>2. InsertInv /\ TaskInv
  BY DEF Init, InsertInv, TaskInv, NoTask
<1>3. CacheInv /\ LossStaysInItsSession
  BY DEF Init, CacheInv, LossStaysInItsSession
<1> QED BY <1>1, <1>2, <1>3 DEF IndInv

\* The parts of the type invariant the cache steps need.
LEMMA CacheRows ==
  ASSUME IndInv
  PROVE  /\ minted \in Nat /\ Idle \in Nat /\ loggedOut \subseteq Session
         /\ \A e \in DOMAIN cache : /\ cache[e] \in [key : Key, idle : 0 .. Idle]
                                    /\ e \in Session \X Unit
BY BoundAssumption DEF IndInv, TypeOK

\* Steps that leave the requests, the stored keys and the rows alone, and whose entries
\* keep their keys: touching, releasing, sweeping, and the passing of time.
LEMMA CacheStepKeepsIndInv ==
  ASSUME IndInv, UNCHANGED <<stored, minted, task, rows, lost>>, loggedOut' \subseteq Session,
         DOMAIN cache' \subseteq DOMAIN cache,
         \A e \in DOMAIN cache' : /\ cache'[e] \in [key : Key, idle : 0 .. Idle]
                                  /\ cache'[e].key = cache[e].key
  PROVE  IndInv'
<1>1. TypeOK'
  BY DEF IndInv, TypeOK, TaskRow
<1>2. InsertInv' /\ TaskInv' /\ LossStaysInItsSession'
  BY DEF IndInv, InsertInv, TaskInv, LossStaysInItsSession, Good, Entry
<1>3. CacheInv'
  BY DEF IndInv, CacheInv, Good, Pending, Entry
<1> QED BY <1>1, <1>2, <1>3 DEF IndInv

\* touch_session, the releases and the idle sweep never change a cached key.
LEMMA CacheSteps == IndInv /\ CacheStep => IndInv'
<1> SUFFICES ASSUME IndInv, CacheStep PROVE IndInv'
  OBVIOUS
<1>1. ASSUME NEW s \in Session, TouchSession(s) PROVE IndInv'
  <2>1. /\ UNCHANGED <<stored, minted, task, rows, lost, loggedOut>>
        /\ DOMAIN cache' = DOMAIN cache
        /\ \A e \in DOMAIN cache : cache'[e] = IF e[1] = s THEN [cache[e] EXCEPT !.idle = 0]
                                                          ELSE cache[e]
    BY <1>1 DEF TouchSession
  <2>2. \A e \in DOMAIN cache : /\ cache'[e] \in [key : Key, idle : 0 .. Idle]
                                /\ cache'[e].key = cache[e].key
    BY <2>1, CacheRows
  <2> QED BY <2>1, <2>2, CacheRows, CacheStepKeepsIndInv
<1>2. ASSUME NEW E \in SUBSET DOMAIN cache, Retain(E),
             UNCHANGED <<stored, minted, task, rows, lost>>, loggedOut' \subseteq Session
      PROVE  IndInv'
  BY <1>2, CacheRows, CacheStepKeepsIndInv DEF Retain
<1>3. ASSUME NEW s \in Session, ReleaseSession(s) PROVE IndInv'
  <2>1. loggedOut' \subseteq Session
    BY <1>3, CacheRows DEF ReleaseSession
  <2> QED BY <1>2, <1>3, <2>1 DEF ReleaseSession
<1>4. ASSUME NEW s \in Session, NEW u \in Unit, ReleaseDocument(s, u) PROVE IndInv'
  BY <1>2, <1>4, CacheRows DEF ReleaseDocument
<1>5. CASE Sweep
  BY <1>2, <1>5, CacheRows DEF Sweep
<1> QED BY <1>1, <1>3, <1>4, <1>5 DEF CacheStep

\* The passing of time only makes entries idle.
LEMMA TickStep == IndInv /\ Tick => IndInv'
<1> SUFFICES ASSUME IndInv, Tick PROVE IndInv'
  OBVIOUS
<1>1. /\ UNCHANGED <<stored, minted, task, rows, lost, loggedOut>>
      /\ DOMAIN cache' = DOMAIN cache
      /\ \A e \in DOMAIN cache : cache'[e] = IF cache[e].idle < Idle
                                               THEN [cache[e] EXCEPT !.idle = @ + 1]
                                               ELSE cache[e]
  BY DEF Tick
<1>2. \A e \in DOMAIN cache : /\ cache'[e] \in [key : Key, idle : 0 .. Idle]
                              /\ cache'[e].key = cache[e].key
  BY <1>1, CacheRows
<1> QED BY <1>1, <1>2, CacheRows, CacheStepKeepsIndInv

\* A restart empties the cache and ends every request; the stored keys stay.
LEMMA RestartStep == IndInv /\ Restart => IndInv'
<1> SUFFICES ASSUME IndInv, Restart PROVE IndInv'
  OBVIOUS
<1>1. /\ UNCHANGED <<stored, minted, rows, lost, loggedOut>>
      /\ task' = [r \in Request |-> NoTask]
      /\ DOMAIN cache' = {}
  BY DEF Restart, Retain
<1>2. TypeOK'
  BY <1>1, NoTaskType DEF IndInv, TypeOK, NoTask, TaskRow
<1>3. InsertInv' /\ TaskInv' /\ CacheInv' /\ LossStaysInItsSession'
  BY <1>1 DEF IndInv, InsertInv, TaskInv, CacheInv, LossStaysInItsSession, NoTask
<1> QED BY <1>2, <1>3 DEF IndInv

-----------------------------------------------------------------------------
(* The steps of one request. *)

\* What the invariant says of a request and its entry.
LEMMA TaskFacts ==
  ASSUME IndInv, NEW r \in Request
  PROVE  /\ task[r] \in TaskRow /\ task \in [Request -> TaskRow]
         /\ task[r].pc # "idle" => /\ task[r].unit \in Unit /\ task[r].session \in Session
                                   /\ Entry(r) \in Session \X Unit /\ Entry(r)[2] = task[r].unit
         /\ task[r].pc \in {"store", "use"} => task[r].key \in Key
         /\ task[r].pc # "use" => ~task[r].mine
         /\ task[r].mine => stored[task[r].unit] = NoKey
         /\ stored \in [Unit -> Key \cup {NoKey}]
BY DEF IndInv, TypeOK, InsertInv, TaskInv, Entry

\* A pending key stays so while its own request stays as it is.
LEMMA PendingStays ==
  ASSUME NEW r \in Request, ~task[r].mine, NEW e, NEW key, Pending(e, key),
         \A q \in Request : q # r => task'[q] = task[q]
  PROVE  Pending(e, key)'
BY DEF Pending, Entry

\* A request that holds no insert, before and after, and is told nothing untrue; entries
\* that change come to hold a good key.
LEMMA QuietTask ==
  ASSUME IndInv, NEW r \in Request, NEW t \in TaskRow, task' = [task EXCEPT ![r] = t],
         UNCHANGED <<stored, minted, rows, lost, loggedOut>>,
         ~task[r].mine, ~t.mine,
         t.pc \in {"store", "use"} => t.key \in Key,
         t.pc # "idle" => t.unit \in Unit /\ t.session \in Session,
         t.pc = "unwrap" => t.wrapped = stored[t.unit] /\ t.wrapped # NoKey,
         t.pc = "use" => Good(<<t.session, t.unit>>, t.key),
         DOMAIN cache' \subseteq Session \X Unit,
         \A e \in DOMAIN cache' :
           /\ cache'[e] \in [key : Key, idle : 0 .. Idle]
           /\ \/ e \in DOMAIN cache /\ cache'[e].key = cache[e].key
              \/ Good(e, cache'[e].key)
  PROVE  IndInv'
<1>1. task \in [Request -> TaskRow]
  BY DEF IndInv, TypeOK
<1>2. /\ task'[r] = t
      /\ \A q \in Request : q # r => task'[q] = task[q]
      /\ task' \in [Request -> TaskRow]
  BY <1>1
<1>3. TypeOK'
  BY <1>2 DEF IndInv, TypeOK, TaskRow
<1>4. InsertInv'
  BY <1>2 DEF IndInv, InsertInv
<1>5. TaskInv'
  BY <1>2 DEF IndInv, TaskInv, Good, Entry
<1>6. CacheInv'
  <2> SUFFICES ASSUME NEW e \in DOMAIN cache'
               PROVE  Good(e, cache[e].key)' \/ Pending(e, cache[e].key)'
    BY DEF CacheInv
  <2>1. CASE Good(e, cache'[e].key)
    BY <2>1 DEF Good
  <2>2. CASE e \in DOMAIN cache /\ cache'[e].key = cache[e].key
    <3>1. Good(e, cache[e].key) \/ Pending(e, cache[e].key)
      BY <2>2 DEF IndInv, CacheInv
    <3>2. Good(e, cache'[e].key) \/ Pending(e, cache'[e].key)
      BY <2>2, <3>1
    <3>3. CASE Pending(e, cache'[e].key)
      BY <1>2, <3>3 DEF Pending, Entry
    <3> QED BY <2>1, <3>2, <3>3
  <2> QED BY <2>1, <2>2
<1>7. LossStaysInItsSession'
  BY DEF IndInv, LossStaysInItsSession
<1> QED BY <1>3, <1>4, <1>5, <1>6, <1>7 DEF IndInv

\* With the row committed, what is cached is good.
LEMMA CachedIsGood ==
  ASSUME IndInv, NEW e \in DOMAIN cache, stored[e[2]] # NoKey
  PROVE  Good(e, cache[e].key)
<1>1. ~Pending(e, cache[e].key)
  BY DEF IndInv, InsertInv, Pending, Entry
<1> QED BY <1>1 DEF IndInv, CacheInv

\* The lookup of a stored key: a hit answers with a good key, a miss goes on to unwrap it.
LEMMA CacheGetStep ==
  ASSUME IndInv, NEW r \in Request, NEW t \in TaskRow, CacheGet(r, t),
         UNCHANGED <<stored, minted, rows, lost, loggedOut>>,
         ~task[r].mine, ~t.mine, t.unit \in Unit, t.session \in Session,
         t.wrapped = stored[t.unit], t.wrapped # NoKey
  PROVE  IndInv'
<1> DEFINE e == <<t.session, t.unit>>
<1>1. CASE e \in DOMAIN cache
  <2> DEFINE hit == [t EXCEPT !.pc = "use", !.key = cache[e].key]
  <2>1. /\ task' = [task EXCEPT ![r] = hit]
        /\ cache' = [cache EXCEPT ![e].idle = 0]
    BY <1>1 DEF CacheGet
  <2>2. Good(e, cache[e].key) /\ cache[e].key \in Key
    BY <1>1, CachedIsGood, CacheRows
  <2>3. /\ hit \in TaskRow /\ ~hit.mine /\ hit.pc = "use" /\ hit.key = cache[e].key
        /\ hit.unit = t.unit /\ hit.session = t.session
    BY <2>2 DEF TaskRow
  <2>4. /\ DOMAIN cache' = DOMAIN cache
        /\ \A x \in DOMAIN cache : /\ cache'[x] \in [key : Key, idle : 0 .. Idle]
                                   /\ cache'[x].key = cache[x].key
    BY <2>1, CacheRows
  <2> HIDE DEF hit
  <2> QED BY <2>1, <2>2, <2>3, <2>4, CacheRows, QuietTask
<1>2. CASE e \notin DOMAIN cache
  <2> DEFINE miss == [t EXCEPT !.pc = "unwrap"]
  <2>1. task' = [task EXCEPT ![r] = miss] /\ UNCHANGED cache
    BY <1>2 DEF CacheGet
  <2>2. /\ miss \in TaskRow /\ ~miss.mine /\ miss.pc = "unwrap" /\ miss.unit = t.unit
        /\ miss.session = t.session /\ miss.wrapped = t.wrapped
    BY DEF TaskRow
  <2> HIDE DEF miss
  <2> QED BY <2>1, <2>2, CacheRows, QuietTask
<1> QED BY <1>1, <1>2

\* Reading the stored key: a request remembers what was committed at that moment.
LEMMA LoadWrappedKeyStep ==
  ASSUME IndInv, NEW r \in Request, NEW s \in Session, NEW u \in Unit, LoadWrappedKey(r, s, u)
  PROVE  IndInv'
<1> DEFINE t == [NoTask EXCEPT !.session = s, !.unit = u]
<1>1. /\ UNCHANGED <<stored, minted, rows, lost, loggedOut>>
      /\ ~task[r].mine
  BY NoTaskType DEF LoadWrappedKey
<1>2. stored[u] \in Key \cup {NoKey}
  BY TaskFacts
<1>3. CASE stored[u] = NoKey
  <2> DEFINE n == [t EXCEPT !.pc = "ensure"]
  <2>1. task' = [task EXCEPT ![r] = n] /\ UNCHANGED cache
    BY <1>3 DEF LoadWrappedKey
  <2>2. n \in TaskRow /\ ~n.mine /\ n.pc = "ensure" /\ n.unit = u /\ n.session = s
    BY DEF TaskRow, NoTask
  <2> HIDE DEF n
  <2> QED BY <1>1, <2>1, <2>2, CacheRows, QuietTask
<1>4. CASE stored[u] # NoKey
  <2> DEFINE n == [t EXCEPT !.wrapped = stored[u]]
  <2>1. CacheGet(r, n)
    BY <1>4 DEF LoadWrappedKey
  <2>2. n \in TaskRow /\ ~n.mine /\ n.wrapped = stored[u] /\ n.unit = u /\ n.session = s
    BY <1>2 DEF TaskRow, NoTask
  <2> HIDE DEF n
  <2> QED BY <1>1, <1>4, <2>1, <2>2, CacheGetStep
<1> QED BY <1>3, <1>4

\* Inserting an entry replaces that entry and no other.
LEMMA PutFacts ==
  ASSUME IndInv, NEW e \in Session \X Unit, NEW key \in Key, Put(e, key)
  PROVE  /\ DOMAIN cache' = DOMAIN cache \cup {e}
         /\ DOMAIN cache' \subseteq Session \X Unit
         /\ cache'[e].key = key
         /\ \A x \in DOMAIN cache' : cache'[x] \in [key : Key, idle : 0 .. Idle]
         /\ \A x \in DOMAIN cache : x # e => cache'[x] = cache[x]
BY CacheRows DEF Put

\* Unwrapping caches the key that is stored.
LEMMA UnwrapStep ==
  ASSUME IndInv, NEW r \in Request, Unwrap(r)
  PROVE  IndInv'
<1> DEFINE t == [task[r] EXCEPT !.pc = "use", !.key = task[r].wrapped]
<1>1. /\ task[r].pc = "unwrap" /\ ~task[r].mine
      /\ task[r].wrapped = stored[task[r].unit] /\ task[r].wrapped # NoKey
      /\ UNCHANGED <<stored, minted, rows, lost, loggedOut>>
      /\ Put(Entry(r), task[r].wrapped)
      /\ task' = [task EXCEPT ![r] = t]
  BY TaskFacts DEF Unwrap, IndInv, TaskInv
<1>2. task[r].wrapped \in Key
  BY <1>1, TaskFacts DEF TaskRow
<1>3. /\ t \in TaskRow /\ ~t.mine /\ t.pc = "use" /\ t.key = task[r].wrapped
      /\ t.unit = task[r].unit /\ t.session = task[r].session
  BY <1>1, <1>2, TaskFacts DEF TaskRow
<1>4. /\ DOMAIN cache' \subseteq Session \X Unit
      /\ \A e \in DOMAIN cache' :
           /\ cache'[e] \in [key : Key, idle : 0 .. Idle]
           /\ \/ e \in DOMAIN cache /\ cache'[e].key = cache[e].key
              \/ Good(e, cache'[e].key)
  <2>1. PICK f \in Session \X Unit : f = Entry(r) /\ f[2] = task[r].unit
    BY <1>1, TaskFacts
  <2>2. /\ DOMAIN cache' = DOMAIN cache \cup {f}
        /\ DOMAIN cache' \subseteq Session \X Unit
        /\ cache'[f].key = task[r].wrapped
        /\ \A x \in DOMAIN cache' : cache'[x] \in [key : Key, idle : 0 .. Idle]
        /\ \A x \in DOMAIN cache : x # f => cache'[x] = cache[x]
    BY <1>1, <1>2, <2>1, PutFacts
  <2> QED BY <1>1, <2>1, <2>2 DEF Good
<1>5. Good(<<t.session, t.unit>>, t.key)
  BY <1>1, <1>3, TaskFacts DEF Good
<1> HIDE DEF t
<1> QED BY <1>1, <1>2, <1>3, <1>4, <1>5, TaskFacts, QuietTask

\* A request that inserted no key ends, and changes nothing else.
LEMMA EndStep ==
  ASSUME IndInv, NEW r \in Request, ~task[r].mine, task' = [task EXCEPT ![r] = NoTask],
         UNCHANGED <<stored, minted, cache, rows, lost, loggedOut>>
  PROVE  IndInv'
BY NoTaskType, CacheRows, QuietTask

\* Making sure of the unit's key changes nothing the keys depend on.
LEMMA EnsureKeyStep ==
  ASSUME IndInv, NEW r \in Request, EnsureKey(r)
  PROVE  IndInv'
<1> DEFINE t == [task[r] EXCEPT !.pc = "mint"]
<1>1. /\ task[r].pc = "ensure" /\ ~task[r].mine
      /\ task' = [task EXCEPT ![r] = t]
      /\ UNCHANGED <<stored, minted, cache, rows, lost, loggedOut>>
  BY TaskFacts DEF EnsureKey
<1>2. /\ t \in TaskRow /\ ~t.mine /\ t.pc = "mint"
      /\ t.unit = task[r].unit /\ t.session = task[r].session
  BY <1>1, TaskFacts DEF TaskRow
<1> HIDE DEF t
<1> QED BY <1>1, <1>2, TaskFacts, CacheRows, QuietTask

\* Minting draws a number nobody has used.
LEMMA NewDataKeyStep ==
  ASSUME IndInv, NEW r \in Request, NewDataKey(r)
  PROVE  IndInv'
<1> DEFINE t == [task[r] EXCEPT !.pc = "store", !.key = minted + 1]
<1>1. /\ task[r].pc = "mint" /\ ~task[r].mine
      /\ task' = [task EXCEPT ![r] = t]
      /\ minted' = minted + 1 /\ minted \in Nat
      /\ UNCHANGED <<stored, cache, rows, lost, loggedOut>>
  BY TaskFacts, CacheRows DEF NewDataKey
<1>2. Key \subseteq Key' /\ minted + 1 \in Key'
  BY <1>1
<1>3. task[r] \in TaskRow /\ task \in [Request -> TaskRow]
  BY TaskFacts
<1>4. /\ t \in TaskRow' /\ ~t.mine /\ t.pc = "store" /\ t.key \in Key'
      /\ t.unit = task[r].unit /\ t.session = task[r].session
  <2> DEFINE k == minted + 1
  <2>1. t = [task[r] EXCEPT !.pc = "store", !.key = k] /\ k \in Key'
    BY <1>2
  <2> HIDE DEF k
  <2> QED BY <1>1, <1>2, <1>3, <2>1 DEF TaskRow
<1>5. TaskRow \subseteq TaskRow'
  BY <1>2 DEF TaskRow
<1> HIDE DEF t
<1>6. /\ task'[r] = t /\ \A q \in Request : q # r => task'[q] = task[q]
      /\ task' \in [Request -> TaskRow']
  BY <1>1, <1>3, <1>4, <1>5
<1>7. TypeOK'
  BY <1>1, <1>2, <1>4, <1>6 DEF IndInv, TypeOK
<1>8. InsertInv' /\ LossStaysInItsSession'
  BY <1>1, <1>4, <1>6 DEF IndInv, InsertInv, LossStaysInItsSession
<1>9. TaskInv'
  BY <1>1, <1>4, <1>6, TaskFacts DEF IndInv, TaskInv, Good, Entry
<1>10. CacheInv'
  BY <1>1, <1>6, PendingStays DEF IndInv, CacheInv, Good
<1> QED BY <1>7, <1>8, <1>9, <1>10 DEF IndInv

\* The insert takes the unit's row, and its key is cached under the winner's own entry.
LEMMA WinnerStep ==
  ASSUME IndInv, NEW r \in Request, task[r].pc = "store", stored[task[r].unit] = NoKey,
         \A q \in Request : ~Holds(q, task[r].unit),
         task' = [task EXCEPT ![r].pc = "use", ![r].mine = TRUE],
         Put(Entry(r), task[r].key),
         UNCHANGED <<stored, minted, rows, lost, loggedOut>>
  PROVE  IndInv'
<1> DEFINE t == [task[r] EXCEPT !.pc = "use", !.mine = TRUE]
<1>1. /\ ~task[r].mine /\ task[r].key \in Key /\ task[r].unit \in Unit
      /\ task[r].session \in Session /\ task \in [Request -> TaskRow]
      /\ task' = [task EXCEPT ![r] = t]
  BY TaskFacts
<1>2. /\ t \in TaskRow /\ t.mine /\ t.pc = "use" /\ t.key = task[r].key
      /\ t.unit = task[r].unit /\ t.session = task[r].session
  BY <1>1 DEF TaskRow
<1> HIDE DEF t
<1>3. /\ task'[r] = t /\ \A q \in Request : q # r => task'[q] = task[q]
      /\ task' \in [Request -> TaskRow]
  BY <1>1, <1>2
<1>4. PICK f \in Session \X Unit : f = Entry(r) /\ f = <<task[r].session, task[r].unit>>
  BY <1>1 DEF Entry
<1>5. /\ DOMAIN cache' = DOMAIN cache \cup {f}
      /\ DOMAIN cache' \subseteq Session \X Unit
      /\ cache'[f].key = task[r].key
      /\ \A x \in DOMAIN cache' : cache'[x] \in [key : Key, idle : 0 .. Idle]
      /\ \A x \in DOMAIN cache : x # f => cache'[x] = cache[x]
  BY <1>1, <1>4, PutFacts
<1>6. TypeOK'
  BY <1>1, <1>2, <1>3, <1>5 DEF IndInv, TypeOK, TaskRow
<1>7. InsertInv'
  BY <1>1, <1>2, <1>3 DEF IndInv, InsertInv, Holds
<1>8. TaskInv' /\ LossStaysInItsSession'
  BY <1>1, <1>2, <1>3 DEF IndInv, TaskInv, LossStaysInItsSession, Good, Entry
<1>9. CacheInv'
  <2> SUFFICES ASSUME NEW e \in DOMAIN cache'
               PROVE  Good(e, cache[e].key)' \/ Pending(e, cache[e].key)'
    BY DEF CacheInv
  <2>1. CASE e = f
    BY <1>2, <1>3, <1>4, <1>5, <2>1 DEF Pending, Entry
  <2>2. CASE e # f
    <3>1. e \in DOMAIN cache /\ cache'[e] = cache[e]
      BY <1>5, <2>2
    <3>2. CASE Good(e, cache[e].key)
      BY <3>1, <3>2 DEF Good
    <3>3. CASE Pending(e, cache[e].key)
      BY <1>1, <1>3, <3>1, <3>3 DEF Pending, Entry
    <3> QED BY <3>1, <3>2, <3>3 DEF IndInv, CacheInv
  <2> QED BY <2>1, <2>2
<1> QED BY <1>6, <1>7, <1>8, <1>9 DEF IndInv

\* The insert either takes the unit's row or finds the one that is committed.
LEMMA StoreWrappedKeyStep ==
  ASSUME IndInv, NEW r \in Request, StoreWrappedKey(r)
  PROVE  IndInv'
<1> DEFINE u == task[r].unit
<1>1. /\ task[r].pc = "store" /\ ~task[r].mine
      /\ u \in Unit /\ task[r].session \in Session /\ task[r] \in TaskRow
      /\ \A q \in Request : ~Holds(q, u)
      /\ UNCHANGED <<stored, minted, rows, lost, loggedOut>>
  BY TaskFacts DEF StoreWrappedKey
<1>2. CASE stored[u] = NoKey
  BY <1>1, <1>2, WinnerStep DEF StoreWrappedKey
<1>3. CASE stored[u] # NoKey
  <2> DEFINE t == [task[r] EXCEPT !.wrapped = stored[u], !.key = NoKey]
  <2>1. CacheGet(r, t)
    BY <1>3 DEF StoreWrappedKey, LoserLooksUp
  <2>2. stored[u] \in Key \cup {NoKey}
    BY <1>1, TaskFacts
  <2>3. /\ t \in TaskRow /\ ~t.mine /\ t.wrapped = stored[u]
        /\ t.unit = u /\ t.session = task[r].session
    BY <1>1, <2>2 DEF TaskRow
  <2> HIDE DEF t
  <2> QED BY <1>1, <1>3, <2>1, <2>3, CacheGetStep
<1> QED BY <1>2, <1>3

\* Committing makes the pending key the stored one, which the cache already holds.
LEMMA CommitStep ==
  ASSUME IndInv, NEW r \in Request, Commit(r)
  PROVE  IndInv'
<1>1. PICK f \in Session \X Unit, k \in Key : f = Entry(r) /\ k = task[r].key
  BY TaskFacts DEF Commit
<1>2. /\ task[r].pc = "use" /\ f[2] = task[r].unit /\ f[2] \in Unit
      /\ stored' = IF task[r].mine THEN [stored EXCEPT ![f[2]] = k] ELSE stored
      /\ rows' = rows \cup {<<f, k>>}
      /\ task' = [task EXCEPT ![r] = NoTask]
      /\ UNCHANGED <<minted, cache, lost, loggedOut>>
      /\ stored \in [Unit -> Key \cup {NoKey}] /\ task \in [Request -> TaskRow]
      /\ rows \subseteq (Session \X Unit) \X Key
  BY <1>1, TaskFacts DEF Commit, IndInv, TypeOK
<1>3. /\ task'[r] = NoTask /\ \A q \in Request : q # r => task'[q] = task[q]
      /\ task' \in [Request -> TaskRow]
  BY <1>2, NoTaskType
<1>4. /\ k # NoKey /\ (task[r].mine => stored[f[2]] = NoKey)
      /\ ~task[r].mine => Good(f, k)
  BY <1>1, <1>2, CacheRows, NoKeyIsNoNumber DEF IndInv, InsertInv, TaskInv
<1>5. /\ \A v \in Unit : stored[v] # NoKey => stored'[v] = stored[v]
      /\ \A v \in Unit : v # f[2] => stored'[v] = stored[v]
      /\ task[r].mine => stored'[f[2]] = k
  BY <1>2, <1>4
<1>6. stored' \in [Unit -> Key \cup {NoKey}]
  BY <1>2
<1>7. ASSUME NEW e \in Session \X Unit, NEW key \in Key, Good(e, key) PROVE Good(e, key)'
  <2>1. e[2] \in Unit /\ key # NoKey
    BY CacheRows, NoKeyIsNoNumber
  <2> QED BY <1>2, <1>5, <1>7, <2>1 DEF Good
<1>8. Good(f, k)'
  <2>1. CASE task[r].mine
    BY <1>5, <2>1 DEF Good
  <2>2. CASE ~task[r].mine
    BY <1>4, <1>7, <2>2
  <2> QED BY <2>1, <2>2
<1>9. TypeOK'
  BY <1>2, <1>3, <1>6 DEF IndInv, TypeOK, TaskRow, NoTask
<1>10. InsertInv'
  <2>1. \A q \in Request : q # r /\ task[q].mine =>
          /\ task[q].pc = "use" /\ task[q].unit \in Unit /\ stored[task[q].unit] = NoKey
          /\ task[r].mine => task[q].unit # f[2]
    BY <1>1, <1>2, TaskFacts DEF IndInv, InsertInv
  <2>2. \A q \in Request : q # r /\ task[q].mine => stored'[task[q].unit] = NoKey
    BY <1>2, <1>5, <2>1
  <2> QED BY <1>3, <2>1, <2>2, NoTaskType DEF IndInv, InsertInv
<1>11. LossStaysInItsSession'
  <2>1. \A row \in rows : row[1] \in Session \X Unit /\ row[2] \in Key /\ Good(row[1], row[2])
    <3>1. ASSUME NEW row \in rows PROVE <<row[1], row[2]>> = row
      BY <1>2
    <3> QED BY <1>2, <3>1 DEF IndInv, LossStaysInItsSession, Good
  <2>2. ASSUME NEW row \in rows PROVE stored'[row[1][2]] = row[2] \/ row \in lost'
    <3>1. PICK e \in Session \X Unit, key \in Key : row = <<e, key>>
      BY <1>2
    <3>2. Good(e, key)
      BY <2>1, <3>1
    <3> QED BY <1>7, <3>1, <3>2 DEF Good
  <2>3. stored'[f[2]] = k \/ <<f, k>> \in lost'
    BY <1>8 DEF Good
  <2> QED BY <1>2, <2>2, <2>3 DEF LossStaysInItsSession
<1>12. TaskInv'
  <2> SUFFICES ASSUME NEW q \in Request
               PROVE  /\ task'[q].pc # "idle" => task'[q].unit \in Unit /\ task'[q].session \in Session
                      /\ task'[q].pc = "unwrap" =>
                           /\ task'[q].wrapped = stored'[task'[q].unit]
                           /\ task'[q].wrapped # NoKey
                      /\ task'[q].pc = "use" /\ ~task'[q].mine => Good(Entry(q), task[q].key)'
    BY DEF TaskInv
  <2>1. CASE q = r
    BY <1>3, <2>1 DEF NoTask
  <2>2. CASE q # r
    <3>1. task'[q] = task[q]
      BY <1>3, <2>2
    <3>2. /\ task[q].pc # "idle" => task[q].unit \in Unit /\ task[q].session \in Session
          /\ task[q].pc = "unwrap" =>
               task[q].wrapped = stored[task[q].unit] /\ task[q].wrapped # NoKey
          /\ task[q].pc = "use" /\ ~task[q].mine => Good(Entry(q), task[q].key)
      BY DEF IndInv, TaskInv
    <3>3. ASSUME task[q].pc = "use", ~task[q].mine PROVE Good(Entry(q), task[q].key)'
      <4>1. PICK e \in Session \X Unit, key \in Key : e = Entry(q) /\ key = task[q].key
        BY <3>3, TaskFacts
      <4>2. Good(e, key)'
        BY <1>7, <3>2, <3>3, <4>1
      <4>3. e = Entry(q)' /\ key = task'[q].key
        BY <3>1, <4>1 DEF Entry
      <4> QED BY <4>2, <4>3 DEF Good
    <3> QED BY <1>5, <3>1, <3>2, <3>3
  <2> QED BY <2>1, <2>2
<1>13. CacheInv'
  <2> SUFFICES ASSUME NEW e \in DOMAIN cache
               PROVE  Good(e, cache[e].key)' \/ Pending(e, cache[e].key)'
    BY <1>2 DEF CacheInv
  <2>1. PICK key \in Key : key = cache[e].key /\ e \in Session \X Unit
    BY CacheRows
  <2>2. cache'[e].key = key
    BY <1>2, <2>1
  <2>3. CASE Good(e, key)
    BY <1>7, <2>1, <2>2, <2>3 DEF Good
  <2>4. CASE Pending(e, key)
    <3>1. PICK q \in Request : task[q].mine /\ Entry(q) = e /\ task[q].key = key
      BY <2>4 DEF Pending
    <3>2. CASE q = r
      BY <1>1, <1>8, <2>2, <3>1, <3>2 DEF Good
    <3>3. CASE q # r
      BY <1>3, <2>2, <3>1, <3>3 DEF Pending, Entry
    <3> QED BY <3>2, <3>3
  <2> QED BY <2>1, <2>3, <2>4 DEF IndInv, CacheInv
<1> QED BY <1>9, <1>10, <1>11, <1>12, <1>13 DEF IndInv

\* Rolling back an insert loses its key, which is then cached in its own session at most.
LEMMA RollBackStep ==
  ASSUME IndInv, NEW r \in Request, RollBack(r)
  PROVE  IndInv'
<1>1. /\ task' = [task EXCEPT ![r] = NoTask]
      /\ UNCHANGED <<stored, minted, cache, rows, loggedOut>>
      /\ task \in [Request -> TaskRow]
  BY TaskFacts DEF RollBack
<1>2. CASE ~task[r].mine
  BY <1>1, <1>2, EndStep DEF RollBack
<1>3. CASE task[r].mine
  <2>1. PICK f \in Session \X Unit, k \in Key : f = Entry(r) /\ k = task[r].key
    BY <1>3, TaskFacts DEF IndInv, InsertInv
  <2>2. lost' = lost \cup {<<f, k>>}
    BY <1>3, <2>1 DEF RollBack
  <2>3. /\ task'[r] = NoTask /\ \A q \in Request : q # r => task'[q] = task[q]
        /\ task' \in [Request -> TaskRow]
    BY <1>1, NoTaskType
  <2>4. TypeOK'
    BY <1>1, <2>1, <2>2, <2>3 DEF IndInv, TypeOK, TaskRow, NoTask
  <2>5. InsertInv'
    BY <1>1, <2>3, NoTaskType DEF IndInv, InsertInv
  <2>6. TaskInv' /\ LossStaysInItsSession'
    BY <1>1, <2>2, <2>3, NoTaskType DEF IndInv, TaskInv, LossStaysInItsSession, Good, Entry
  <2>7. CacheInv'
    <3> SUFFICES ASSUME NEW e \in DOMAIN cache
                 PROVE  Good(e, cache[e].key)' \/ Pending(e, cache[e].key)'
      BY <1>1 DEF CacheInv
    <3>1. CASE Good(e, cache[e].key)
      BY <1>1, <2>2, <3>1 DEF Good
    <3>2. CASE Pending(e, cache[e].key)
      <4>1. PICK q \in Request : task[q].mine /\ Entry(q) = e /\ task[q].key = cache[e].key
        BY <3>2 DEF Pending
      <4>2. CASE q = r
        BY <1>1, <2>1, <2>2, <4>1, <4>2 DEF Good
      <4>3. CASE q # r
        BY <1>1, <2>3, <4>1, <4>3 DEF Pending, Entry
      <4> QED BY <4>2, <4>3
    <3> QED BY <3>1, <3>2 DEF IndInv, CacheInv
  <2> QED BY <2>4, <2>5, <2>6, <2>7 DEF IndInv
<1> QED BY <1>2, <1>3

-----------------------------------------------------------------------------
\* A call that ends for r: with its answer, without one, or because r rolls back.
LEMMA AnswerSteps ==
  ASSUME IndInv, NEW r \in Request, AnswerStep(r)
  PROVE  IndInv'
<1>1. CASE KeyServiceFails(r)
  BY <1>1, TaskFacts, EndStep DEF KeyServiceFails, Calling
<1>2. CASE KeyServiceTimesOut(r)
  BY <1>2, TaskFacts, EndStep DEF KeyServiceTimesOut, Calling
<1> QED BY <1>1, <1>2, EnsureKeyStep, NewDataKeyStep, UnwrapStep, RollBackStep DEF AnswerStep

\* The client's steps and stuttering leave the keys alone.
LEMMA KeysUnchanged == IndInv /\ UNCHANGED keyVars => IndInv'
<1> SUFFICES ASSUME IndInv, UNCHANGED keyVars PROVE IndInv'
  OBVIOUS
<1> QED BY CacheRows, CacheStepKeepsIndInv DEF keyVars

\* The steps that leave the key service's client alone.
LEMMA KeySteps == IndInv /\ KeyStep => IndInv'
BY LoadWrappedKeyStep, StoreWrappedKeyStep, CommitStep, CacheSteps, TickStep DEF KeyStep, OwnStep

\* Every step keeps the invariant.
LEMMA NextKeepsIndInv == IndInv /\ [Next]_vars => IndInv'
BY KeysUnchanged, KeySteps, AnswerSteps, RestartStep DEF Next, vars

\* However many sessions race to be first, log out, are swept or lose the backend, and
\* whichever transactions roll back: a committed row is encrypted under its unit's stored
\* key, or under one that its own session had cached before its transaction rolled back.
THEOREM RowsStayReadable == Spec => []LossStaysInItsSession
<1>1. IndInv => LossStaysInItsSession
  BY DEF IndInv
<1> QED BY <1>1, InitIndInv, NextKeepsIndInv, PTL DEF Spec
=============================================================================
