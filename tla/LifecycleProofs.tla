--------------------------- MODULE LifecycleProofs ---------------------------
(***************************************************************************)
(* For any number of migrators, scrapes and requests, and for every value of *)
(* the time constants: a migrator reports its own work only, a ready answer  *)
(* is no older than the cache allows, and no check that was under way when   *)
(* the signal came leads to one.                                             *)
(***************************************************************************)
EXTENDS Lifecycle, TLAPS

-----------------------------------------------------------------------------
(* Migrations. *)

MigratorRow ==
  [at : {"new", "waiting", "locked", "running", "counted", "stopped", "done", "failed"},
   before : Nat, ran : Nat, said : Int]

MigrationsTypeOK ==
  /\ version \in 0 .. Latest
  /\ lock \in Migrator \cup {NoMigrator}
  /\ migrator \in [Migrator -> MigratorRow]

\* The phases between getting the outer lock and giving it up.
Inside == {"locked", "running", "counted", "stopped"}

\* Who is inside holds the lock, so only one process is.
LockHolderInv == \A m \in Migrator : migrator[m].at \in Inside => lock = m

\* While a process runs files, the migrations applied are those it counted and its own; a
\* process that has counted again says what it ran.
CountInv ==
  \A m \in Migrator :
    /\ migrator[m].at \in {"new", "waiting", "locked"} => migrator[m].ran = 0
    /\ migrator[m].at = "running" => version = migrator[m].before + migrator[m].ran
    /\ migrator[m].at \in {"counted", "done"} => migrator[m].said = migrator[m].ran

MigrationsInv == MigrationsTypeOK /\ LockHolderInv /\ CountInv

\* The steps of `fau migrate` keep it: a file is run, and the rows are counted, only by the
\* process that holds the session's lock.
LEMMA MigrateKeepsInv ==
  ASSUME MigrationsInv, NEW m \in Migrator, Migrate(m)
  PROVE  MigrationsInv'
<1> USE MigrationsAssumption DEF MigrationsInv, MigrationsTypeOK, MigratorRow, LockHolderInv,
      CountInv, Inside, NewMigrator, Goes, Failed
<1>1. CASE Connect(m)
  BY <1>1 DEF Connect
<1>2. CASE AcquireOuterLock(m)
  BY <1>2 DEF AcquireOuterLock, LockFree
<1>3. CASE LockUnavailable(m)
  BY <1>3 DEF LockUnavailable
<1>4. CASE CountBefore(m)
  <2>1. migrator' = [migrator EXCEPT ![m] = [migrator[m] EXCEPT !.at = "running", !.before = version]]
    BY <1>4 DEF CountBefore
  <2> QED BY <1>4, <2>1 DEF CountBefore
<1>5. CASE RunFile(m)
  BY <1>5 DEF RunFile
<1>6. CASE CountAfter(m)
  <2>1. migrator' = [migrator EXCEPT ![m] = [migrator[m] EXCEPT
          !.at = "counted", !.said = version - migrator[m].before, !.before = 0]]
    BY <1>6 DEF CountAfter
  <2> QED BY <1>6, <2>1 DEF CountAfter
<1>7. CASE RunFails(m)
  BY <1>7 DEF RunFails
<1>8. CASE ReleaseOuterLock(m)
  BY <1>8 DEF ReleaseOuterLock
<1>9. CASE Die(m)
  BY <1>9 DEF Die
<1> QED BY <1>1, <1>2, <1>3, <1>4, <1>5, <1>6, <1>7, <1>8, <1>9 DEF Migrate

-----------------------------------------------------------------------------
(* The process. *)

ProbeRow ==
  [at : {"idle", "ready", "not_ready"} \cup Busy, since : Nat, late : BOOLEAN]

ProcessTypeOK ==
  /\ now \in Nat
  /\ database \in [up : BOOLEAN, outages : Nat]
  /\ good \in Nat \cup {Never} /\ good <= now
  /\ process \in [at : {"gate", "binding", "serving", "pre_drain", "draining"}, code : Int]
  /\ signalled \in Nat \cup {Never} /\ signalled <= now
  /\ readiness \in [initialised : BOOLEAN, shuttingDown : BOOLEAN, cached : Nat \cup {Never}]
  /\ probe \in [Probe -> ProbeRow]
  /\ request \in [Request -> {"none", "open"}]

\* Once a half second has passed since the signal, no scrape is left that read the flag before
\* it and has only the cache or its answer ahead: a later one finds the flag set.
SignalInv ==
  signalled # Never =>
    /\ readiness.shuttingDown
    /\ now = signalled \/ \A p \in Probe : probe[p].at \notin {"flags_read", "storing"}

\* A check that found the contract compatible has waited for nothing since, and the cache
\* never holds a moment later than the last such check.
FreshInv ==
  /\ \A p \in Probe : probe[p].at \in {"found_ready", "storing"} => good = now
  /\ readiness.cached # Never => good # Never /\ readiness.cached <= good

ProcessInv == ProcessTypeOK /\ SignalInv /\ FreshInv

IndInv == MigrationsInv /\ ProcessInv

\* The types of the process's state, one scrape at a time.
LEMMA ProbeTypes ==
  ASSUME ProcessTypeOK, NEW p \in Probe
  PROVE  probe[p] \in ProbeRow
BY DEF ProcessTypeOK

\* Startup: the gate, the listener, and a signal that comes before there is a handler.
LEMMA StartupKeepsInv ==
  ASSUME ProcessInv, Refuse \/ PassGate \/ Bind \/ BindFails \/ SignalEarly
  PROVE  ProcessInv'
<1> USE DEF ProcessInv, ProcessTypeOK, SignalInv, FreshInv, Never, NoExit,
      Running, Exit
<1>1. CASE Refuse
  BY <1>1 DEF Refuse
<1>2. CASE PassGate
  BY <1>2 DEF PassGate
<1>3. CASE Bind
  BY <1>3 DEF Bind
<1>4. CASE BindFails
  BY <1>4 DEF BindFails
<1>5. CASE SignalEarly
  BY <1>5 DEF SignalEarly
<1> QED BY <1>1, <1>2, <1>3, <1>4, <1>5

\* A signal, the pre-drain, the drain and the watchdog.
LEMMA ShutdownKeepsInv ==
  ASSUME ProcessInv, Signal \/ CloseListener \/ DrainComplete \/ Watchdog
  PROVE  ProcessInv'
<1> USE LifecycleAssumption DEF ProcessInv, ProcessTypeOK, SignalInv, FreshInv,
      Never, NoExit, Running, Exit
<1>1. CASE Signal
  <2>1. ProcessTypeOK'
    <3>1. signalled' \in Nat \cup {Never} /\ signalled' <= now'
      BY <1>1 DEF Signal
    <3>2. process' \in [at : {"gate", "binding", "serving", "pre_drain", "draining"}, code : Int]
      BY <1>1 DEF Signal
    <3>3. readiness' \in [initialised : BOOLEAN, shuttingDown : BOOLEAN, cached : Nat \cup {Never}]
      BY <1>1 DEF Signal
    <3> QED BY <1>1, <3>1, <3>2, <3>3 DEF Signal
  <2>2. SignalInv'
    BY <1>1 DEF Signal
  <2>3. FreshInv'
    BY <1>1 DEF Signal
  <2> QED BY <2>1, <2>2, <2>3
<1>2. CASE CloseListener
  BY <1>2 DEF CloseListener
<1>3. CASE DrainComplete
  BY <1>3 DEF DrainComplete, InFlight
<1>4. CASE Watchdog
  BY <1>4 DEF Watchdog
<1> QED BY <1>1, <1>2, <1>3, <1>4

\* Outages, and time: no half second passes while a scrape waits for nothing.
LEMMA SurroundingsKeepInv ==
  ASSUME ProcessInv, DatabaseFails \/ DatabaseRecovers \/ Tick
  PROVE  ProcessInv'
<1> USE LifecycleAssumption DEF ProcessInv, ProcessTypeOK, SignalInv, FreshInv,
      Never, NoExit
<1>1. CASE DatabaseFails
  BY <1>1 DEF DatabaseFails
<1>2. CASE DatabaseRecovers
  BY <1>2 DEF DatabaseRecovers
<1>3. CASE Tick
  <2>1. ProcessTypeOK'
    BY <1>3 DEF Tick
  <2>2. SignalInv'
    BY <1>3 DEF Tick
  <2>3. FreshInv'
    BY <1>3 DEF Tick
  <2> QED BY <2>1, <2>2, <2>3
<1> QED BY <1>1, <1>2, <1>3

\* Requests begin while the listener is open and are answered while the process runs.
LEMMA RequestsKeepInv ==
  ASSUME ProcessInv, NEW r \in Request, Begin(r) \/ Finish(r)
  PROVE  ProcessInv'
BY DEF ProcessInv, ProcessTypeOK, SignalInv, FreshInv, Never, NoExit,
       Begin, Finish, Listening, Running

ProbeStep(p) ==
  \/ BeginProbe(p) \/ LookInCache(p) \/ DbCheck(p) \/ ReadContract(p)
  \/ CheckFails(p) \/ ReadFlagAgain(p) \/ Store(p)

\* The row of a scrape that ends ready is a row again.
LEMMA ReadyRow ==
  ASSUME NEW row \in ProbeRow
  PROVE  [row EXCEPT !.at = "ready", !.since = 0] \in ProbeRow
BY DEF ProbeRow

\* The steps of a scrape: a compatible contract makes its moment the latest good one, and
\* only such a moment is cached.
LEMMA ProbesKeepTypeAndFreshness ==
  ASSUME ProcessTypeOK, FreshInv, NEW p \in Probe, ProbeStep(p)
  PROVE  ProcessTypeOK' /\ FreshInv'
<1> USE ProbeTypes, LifecycleAssumption DEF ProcessTypeOK, ProbeRow, Busy,
      FreshInv, Never, NoExit, Answer, ProbeGoes
<1>1. CASE BeginProbe(p)
  <2>1. PICK found \in {"not_ready", "flags_read"} :
          probe' = [probe EXCEPT ![p] =
            [probe[p] EXCEPT !.at = found, !.late = readiness.shuttingDown]]
    BY <1>1 DEF BeginProbe
  <2>2. probe' \in [Probe -> ProbeRow]
    BY ZenonT(30), <2>1
  <2>3. \A q \in Probe : probe'[q].at \in {"found_ready", "storing"} => probe'[q] = probe[q]
    BY <2>1
  <2> QED BY <1>1, <2>2, <2>3 DEF BeginProbe
<1>2. CASE LookInCache(p)
  BY <1>2 DEF LookInCache, Hit
<1>3. CASE DbCheck(p)
  BY <1>3 DEF DbCheck
<1>4. CASE ReadContract(p)
  BY <1>4 DEF ReadContract
<1>5. CASE CheckFails(p)
  BY <1>5 DEF CheckFails
<1>6. CASE ReadFlagAgain(p)
  BY <1>6 DEF ReadFlagAgain
<1>7. CASE Store(p)
  <2>1. /\ readiness' = [readiness EXCEPT !.cached = now]
        /\ probe' = [probe EXCEPT ![p] = [probe[p] EXCEPT !.at = "ready", !.since = 0]]
        /\ UNCHANGED <<now, database, good, process, signalled, request>>
    BY <1>7 DEF Store
  <2>2. good = now
    BY <1>7 DEF Store
  <2>3. readiness' \in [initialised : BOOLEAN, shuttingDown : BOOLEAN, cached : Nat \cup {Never}]
        /\ readiness'.cached = now
    BY <2>1
  <2>4. [probe[p] EXCEPT !.at = "ready", !.since = 0] \in ProbeRow
    <3> HIDE DEF ProbeRow
    <3> QED BY ZenonT(30), ReadyRow
  <2>5. probe' \in [Probe -> ProbeRow]
    BY ZenonT(30), <2>1, <2>4
  <2>6. \A q \in Probe : probe'[q].at \in {"found_ready", "storing"} => probe'[q] = probe[q]
    BY <2>1
  <2> QED BY <2>1, <2>2, <2>3, <2>5, <2>6
<1> QED BY <1>1, <1>2, <1>3, <1>4, <1>5, <1>6, <1>7 DEF ProbeStep

\* After the signal a scrape goes neither to the cache nor to its answer.
LEMMA ProbesKeepSignalInv ==
  ASSUME ProcessTypeOK, SignalInv, NEW p \in Probe, ProbeStep(p)
  PROVE  SignalInv'
<1> USE ProbeTypes DEF ProcessTypeOK, ProbeRow, Busy, Answer, ProbeGoes
<1>1. UNCHANGED <<now, signalled>> /\ readiness'.shuttingDown = readiness.shuttingDown
  BY DEF ProbeStep, BeginProbe, LookInCache, Hit, DbCheck, ReadContract, CheckFails, ReadFlagAgain, Store
<1>2. ASSUME NEW q \in Probe, readiness.shuttingDown, probe'[q].at \in {"flags_read", "storing"}
      PROVE  probe[q].at \in {"flags_read", "storing"}
  <2> USE <1>2
  <2>1. CASE BeginProbe(p)
    BY <2>1 DEF BeginProbe
  <2>2. CASE LookInCache(p) \/ Store(p)
    BY <2>2 DEF LookInCache, Store
  <2>3. CASE DbCheck(p) \/ ReadContract(p) \/ CheckFails(p)
    BY <2>3 DEF DbCheck, ReadContract, CheckFails
  <2>4. CASE ReadFlagAgain(p)
    BY <2>4 DEF ReadFlagAgain
  <2> QED BY <2>1, <2>2, <2>3, <2>4 DEF ProbeStep
<1> HIDE DEF ProcessTypeOK, ProbeRow, Answer, ProbeGoes
<1> QED BY <1>1, <1>2 DEF SignalInv

\* A step of a scrape keeps the whole invariant.
LEMMA ProbesKeepInv ==
  ASSUME ProcessInv, NEW p \in Probe, ProbeStep(p)
  PROVE  ProcessInv'
BY ProbesKeepTypeAndFreshness, ProbesKeepSignalInv DEF ProcessInv

-----------------------------------------------------------------------------
(* The theorems. *)

\* A database at any version, nobody migrating, and a process at its gate.
LEMMA InitIndInv == Init => IndInv
<1>1. Init => MigrationsInv
  BY MigrationsAssumption DEF Init, MigrationsInit, NewMigrator, MigrationsInv, MigrationsTypeOK,
     MigratorRow, LockHolderInv, CountInv, Inside
<1>2. Init => ProcessInv
  BY DEF Init, ProcessInv, ProcessTypeOK, ProbeRow, Busy, SignalInv, FreshInv, Never,
     NoExit
<1> QED BY <1>1, <1>2 DEF IndInv

\* Every step of the process and of the migrators beside it keeps the invariant.
LEMMA NextIndInv == IndInv /\ [Next]_vars => IndInv'
<1> SUFFICES ASSUME IndInv, [Next]_vars PROVE IndInv'
  OBVIOUS
<1>1. ASSUME UNCHANGED migrationVars PROVE MigrationsInv'
  BY <1>1 DEF migrationVars, IndInv, MigrationsInv, MigrationsTypeOK, LockHolderInv, CountInv
<1>2. ASSUME UNCHANGED processVars PROVE ProcessInv'
  BY <1>2 DEF processVars, IndInv, ProcessInv, ProcessTypeOK, SignalInv, FreshInv
<1>3. CASE Serve /\ UNCHANGED migrationVars
  <2>1. ASSUME NEW p \in Probe, ProbeStep(p) PROVE ProcessInv'
    BY <2>1, ProbesKeepInv DEF IndInv
  <2>2. ProcessInv'
    BY <1>3, <2>1, StartupKeepsInv, ShutdownKeepsInv, SurroundingsKeepInv, RequestsKeepInv
    DEF Serve, ProbeStep, IndInv
  <2> QED BY <1>1, <1>3, <2>2 DEF IndInv
<1>4. ASSUME NEW m \in Migrator, Migrate(m), UNCHANGED processVars PROVE IndInv'
  BY <1>2, <1>4, MigrateKeepsInv DEF IndInv
<1>5. CASE UNCHANGED vars
  BY <1>1, <1>2, <1>5 DEF vars, IndInv
<1> QED BY <1>3, <1>4, <1>5 DEF Next

\* The invariant holds in every behaviour.
LEMMA Inductive == Spec => []IndInv
BY InitIndInv, NextIndInv, PTL DEF Spec

\* The state of the process and of the migrators keeps its shape, and only one migrator at a
\* time is between acquire_outer_lock and release_outer_lock.
THEOREM TypeCorrect == Spec => [](MigrationsTypeOK /\ ProcessTypeOK /\ LockHolderInv)
<1>1. IndInv => MigrationsTypeOK /\ ProcessTypeOK /\ LockHolderInv
  BY DEF IndInv, MigrationsInv, ProcessInv
<1> QED BY <1>1, Inductive, PTL

\* What a migrate run reports as applied is what it applied itself, however many processes
\* start at once and wherever they die (run_migrations).
THEOREM ReportsAreTrue == Spec => []SaysWhatItRan
<1>1. IndInv => SaysWhatItRan
  BY DEF IndInv, MigrationsInv, CountInv, SaysWhatItRan
<1> QED BY <1>1, Inductive, PTL

\* Only a scrape that looks in the cache or fills it answers "ready".
LEMMA WhoAnswersReady ==
  ASSUME IndInv, [Next]_vars, NEW p \in Probe, probe[p].at # "ready", probe'[p].at = "ready"
  PROVE  LookInCache(p) \/ Store(p)
<1>1. PICK q \in Probe : ProbeStep(q)
  <2>1. probe' # probe
    OBVIOUS
  <2> QED
    BY <2>1
    DEF Next, Serve, ProbeStep, vars, processVars, Refuse, PassGate, Bind, BindFails, SignalEarly,
        Signal, CloseListener, DrainComplete, Watchdog, DatabaseFails, DatabaseRecovers, Tick,
        Begin, Finish
<1> USE ProbeTypes DEF IndInv, ProcessInv, ProcessTypeOK, ProbeRow, Answer, ProbeGoes, Busy
<1>2. ~BeginProbe(q)
  BY DEF BeginProbe
<1>3. ~DbCheck(q) /\ ~ReadContract(q) /\ ~CheckFails(q)
  BY DEF DbCheck, ReadContract, CheckFails
<1>4. ~ReadFlagAgain(q)
  BY DEF ReadFlagAgain
<1>5. LookInCache(q) \/ Store(q) => q = p
  BY DEF LookInCache, Store
<1> QED BY <1>1, <1>2, <1>3, <1>4, <1>5 DEF ProbeStep

\* A scrape answers "ready" only within CacheTtl of a check that found the contract
\* compatible, whatever other scrapes and the migrators do meanwhile (probe_with).
THEOREM ReadyAnswersAreFresh == Spec => ReadyIsFresh
<1> DEFINE Fresh == \A p \in Probe : probe[p].at # "ready" /\ probe'[p].at = "ready" =>
                     good # Never /\ now - good < CacheTtl
<1>1. ASSUME IndInv, [Next]_vars, NEW p \in Probe, probe[p].at # "ready", probe'[p].at = "ready"
      PROVE  good # Never /\ now - good < CacheTtl
  <2>1. CASE LookInCache(p)
    <3>1. readiness.cached # Never /\ now - readiness.cached < CacheTtl
      BY <1>1, <2>1, ProbeTypes DEF IndInv, ProcessInv, ProcessTypeOK, ProbeRow, LookInCache
    <3>2. good # Never /\ readiness.cached <= good
      BY <1>1, <3>1 DEF IndInv, ProcessInv, FreshInv
    <3>3. now \in Nat /\ good \in Int /\ readiness.cached \in Int /\ CacheTtl \in Int
      BY <1>1, LifecycleAssumption DEF IndInv, ProcessInv, ProcessTypeOK, Never
    <3> QED BY <3>1, <3>2, <3>3
  <2>2. CASE Store(p)
    BY <1>1, <2>2, LifecycleAssumption DEF IndInv, ProcessInv, ProcessTypeOK, FreshInv, Store, Never
  <2> QED BY <1>1, <2>1, <2>2, WhoAnswersReady
<1>2. IndInv /\ [Next]_vars => [Fresh]_vars
  BY <1>1
<1> QED BY <1>2, Inductive, PTL DEF Spec, ReadyIsFresh

\* A scrape whose check was under way when the signal came never answers "ready", however
\* long the check takes and whatever it finds (probe_with: shutting_down is read again).
THEOREM SignalEndsReadiness == Spec => ReadyEndsWithTheSignal
<1> DEFINE Early == \A p \in Probe : probe[p].at # "ready" /\ probe'[p].at = "ready" =>
                     signalled = Never \/ now = signalled
<1>1. ASSUME IndInv, [Next]_vars, NEW p \in Probe, probe[p].at # "ready", probe'[p].at = "ready"
      PROVE  signalled = Never \/ now = signalled
  <2>1. probe[p].at \in {"flags_read", "storing"}
    BY <1>1, WhoAnswersReady DEF LookInCache, Store
  <2> QED BY <1>1, <2>1 DEF IndInv, ProcessInv, SignalInv
<1>2. IndInv /\ [Next]_vars => [Early]_vars
  BY <1>1
<1> QED BY <1>2, Inductive, PTL DEF Spec, ReadyEndsWithTheSignal
=============================================================================
