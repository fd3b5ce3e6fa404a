----------------------------- MODULE Lifecycle -----------------------------
(***************************************************************************)
(* One `fau serve` process, from its start to its exit, beside the           *)
(* processes that migrate its database (app/main.rs, readiness.rs,           *)
(* shutdown.rs, persistence/contract.rs and health.rs).                      *)
(*                                                                         *)
(* Time is counted in half seconds.  Only what waits takes time: a query, a  *)
(* request, a sleep.  A probe's steps between two waits run at once, but     *)
(* those of other tasks may come between them.                               *)
(***************************************************************************)
EXTENDS Migrations, FiniteSets

CONSTANTS
  Probe, Request,                     \* scrapes of /health/ready, and other requests
  MinimumContractVersion, ReadableFrom, \* from which version fau_app may read the contract
  CacheTtl, CheckTimeout, PreDrain, DrainBound,   \* in half seconds
  MaxOutages, MaxTime                 \* bounds

ASSUME LifecycleAssumption ==
  /\ MinimumContractVersion \in Nat /\ ReadableFrom \in Nat
  /\ CacheTtl \in Nat \ {0} /\ CheckTimeout \in Nat
  /\ PreDrain \in Nat /\ DrainBound \in Nat /\ PreDrain < DrainBound
  /\ MaxOutages \in Nat /\ MaxTime \in Nat

VARIABLES
  now,
  database,    \* whether it answers, and how often it has failed
  good,        \* history: when it last answered with a compatible contract
  process,     \* where run_server is, and its exit code
  signalled,   \* when the signal arrived; Never
  readiness,   \* the flags and the cache of ReadinessState
  probe,       \* per scrape: where it is
  request      \* per request: where it is

processVars == <<now, database, good, process, signalled, readiness, probe, request>>
vars == <<migrationVars, processVars>>

Never == -1
NoExit == -1

Running(where) == process.at \in where /\ process.code = NoExit
Listening == Running({"serving", "pre_drain"})
IsCompatible(found) == found >= MinimumContractVersion

Init ==
  /\ MigrationsInit
  /\ now = 0
  /\ database = [up |-> TRUE, outages |-> 0]
  /\ good = Never
  /\ process = [at |-> "gate", code |-> NoExit]
  /\ signalled = Never
  /\ readiness = [initialised |-> FALSE, shuttingDown |-> FALSE, cached |-> Never]
  /\ probe = [p \in Probe |-> [at |-> "idle", since |-> 0, late |-> FALSE]]
  /\ request = [r \in Request |-> "none"]

-----------------------------------------------------------------------------
(* main.rs: the startup gate and the listener. *)

\* read_contract_version: an unmigrated database has no table, which counts as version 0;
\* before ReadableFrom the application's role may not read it.
ContractReadable == database.up /\ (version = 0 \/ version >= ReadableFrom)

Exit(code) == process' = [process EXCEPT !.code = code]

\* check_schema_contract refuses a contract below the minimum, and an error that no retry
\* will mend.
Refuse ==
  /\ Running({"gate"})
  /\ database.up
  /\ ~ContractReadable \/ ~IsCompatible(version)
  /\ Exit(1)
  /\ UNCHANGED <<now, database, good, signalled, readiness, probe, request>>

\* The contract is compatible, or the check got no answer: it timed out or failed in a way
\* that may pass, which it can whatever the database holds.  Readiness will ask again.
PassGate ==
  /\ Running({"gate"})
  /\ readiness' = [readiness EXCEPT !.initialised = TRUE]
  /\ process' = [process EXCEPT !.at = "binding"]
  /\ UNCHANGED <<now, database, good, signalled, probe, request>>

Bind ==
  /\ Running({"binding"})
  /\ process' = [process EXCEPT !.at = "serving"]
  /\ UNCHANGED <<now, database, good, signalled, readiness, probe, request>>

BindFails ==
  /\ Running({"binding"})
  /\ Exit(1)
  /\ UNCHANGED <<now, database, good, signalled, readiness, probe, request>>

-----------------------------------------------------------------------------
(* readiness.rs: probe_with, and the check it runs. *)

ProbeGoes(p, where) == probe' = [probe EXCEPT ![p].at = where]
Answer(p, what) == probe' = [probe EXCEPT ![p].at = what, ![p].since = 0]

\* A scrape arrives and reads the two flags.
BeginProbe(p) ==
  /\ Listening
  /\ probe[p].at \in {"idle", "ready", "not_ready"}
  /\ ~probe[p].late
  /\ probe' = [probe EXCEPT
       ![p].at = IF readiness.shuttingDown \/ ~readiness.initialised
                 THEN "not_ready" ELSE "flags_read",
       ![p].late = readiness.shuttingDown]
  /\ UNCHANGED <<now, database, good, process, signalled, readiness, request>>

\* Mutant: a hit starts the second over again.
HitSliding == [readiness EXCEPT !.cached = now]

\* A hit leaves the cache as it is.
Hit == readiness

\* The cache is looked at after its lock has been waited for.
LookInCache(p) ==
  /\ probe[p].at = "flags_read"
  /\ IF readiness.cached # Never /\ now - readiness.cached < CacheTtl
     THEN Answer(p, "ready") /\ readiness' = Hit
     ELSE /\ probe' = [probe EXCEPT ![p].at = "checking", ![p].since = now]
          /\ UNCHANGED readiness
  /\ UNCHANGED <<now, database, good, process, signalled, request>>

\* db_check answers; the contract is read next.
DbCheck(p) ==
  /\ probe[p].at = "checking"
  /\ database.up
  /\ ProbeGoes(p, "reading")
  /\ UNCHANGED <<now, database, good, process, signalled, readiness, request>>

\* read_contract_version answers.
ReadContract(p) ==
  /\ probe[p].at = "reading"
  /\ ContractReadable
  /\ ProbeGoes(p, IF IsCompatible(version) THEN "found_ready" ELSE "found_not_ready")
  /\ good' = IF IsCompatible(version) THEN now ELSE good
  /\ UNCHANGED <<now, database, process, signalled, readiness, request>>

\* A query fails, or both together outlast READINESS_CHECK_TIMEOUT.
CheckFails(p) ==
  /\ probe[p].at \in {"checking", "reading"}
  /\ \/ ~database.up
     \/ probe[p].at = "reading" /\ ~ContractReadable
     \/ now = probe[p].since + CheckTimeout
  /\ ProbeGoes(p, "found_not_ready")
  /\ UNCHANGED <<now, database, good, process, signalled, readiness, request>>

\* Mutant: the flag read before the check is trusted.
ReadFlagOnce(p) ==
  /\ probe[p].at \in {"found_ready", "found_not_ready"}
  /\ IF probe[p].at = "found_not_ready"
     THEN Answer(p, "not_ready") ELSE ProbeGoes(p, "storing")
  /\ UNCHANGED <<now, database, good, process, signalled, readiness, request>>

\* shutting_down is read again after the check.
ReadFlagAgain(p) ==
  /\ probe[p].at \in {"found_ready", "found_not_ready"}
  /\ IF readiness.shuttingDown \/ probe[p].at = "found_not_ready"
     THEN Answer(p, "not_ready") ELSE ProbeGoes(p, "storing")
  /\ UNCHANGED <<now, database, good, process, signalled, readiness, request>>

\* The cache is filled after its lock has been waited for, and the answer given.
Store(p) ==
  /\ probe[p].at = "storing"
  /\ readiness' = [readiness EXCEPT !.cached = now]
  /\ Answer(p, "ready")
  /\ UNCHANGED <<now, database, good, process, signalled, request>>

-----------------------------------------------------------------------------
(* Other requests: a transaction, then an answer. *)

Begin(r) ==
  /\ Listening /\ request[r] = "none"
  /\ request' = [request EXCEPT ![r] = "open"]
  /\ UNCHANGED <<now, database, good, process, signalled, readiness, probe>>

\* The transaction commits and the answer goes out, and another request may come; one may
\* also hang for ever.
Finish(r) ==
  /\ process.code = NoExit /\ request[r] = "open" /\ database.up
  /\ request' = [request EXCEPT ![r] = "none"]
  /\ UNCHANGED <<now, database, good, process, signalled, readiness, probe>>

-----------------------------------------------------------------------------
(* shutdown.rs *)

\* SIGTERM before the listener is up ends the process at once: there is no handler yet.
SignalEarly ==
  /\ Running({"gate", "binding"})
  /\ Exit(143)
  /\ UNCHANGED <<now, database, good, signalled, readiness, probe, request>>

\* The first SIGTERM or SIGINT; a later one is not acted on.  MaxTime leaves room for the
\* watchdog.
Signal ==
  /\ Running({"serving"}) /\ signalled = Never
  /\ now + DrainBound <= MaxTime
  /\ signalled' = now
  /\ process' = [process EXCEPT !.at = "pre_drain"]
  /\ readiness' = [readiness EXCEPT !.shuttingDown = TRUE]
  /\ UNCHANGED <<now, database, good, probe, request>>

\* The pre-drain sleep is over: axum stops accepting.
CloseListener ==
  /\ Running({"pre_drain"}) /\ now = signalled + PreDrain
  /\ process' = [process EXCEPT !.at = "draining"]
  /\ UNCHANGED <<now, database, good, signalled, readiness, probe, request>>

Busy == {"flags_read", "checking", "reading", "found_ready", "found_not_ready", "storing"}

InFlight == {r \in Request : request[r] = "open"}

\* The drain is complete: every request in flight has been answered.
DrainComplete ==
  /\ Running({"draining"})
  /\ InFlight = {} /\ \A p \in Probe : probe[p].at \notin Busy
  /\ Exit(0)
  /\ UNCHANGED <<now, database, good, signalled, readiness, probe, request>>

\* Mutant: the bound counts from the end of the pre-drain.
DeadlineAfterPreDrain == signalled + PreDrain + DrainBound

\* spawn_watchdog is armed when the signal arrives; the pre-drain counts against it.
Deadline == signalled + DrainBound

\* The watchdog exits the process; every open transaction is rolled back unanswered.
Watchdog ==
  /\ process.code = NoExit /\ signalled # Never /\ now = Deadline
  /\ Exit(1)
  /\ request' = [r \in Request |-> "none"]
  /\ UNCHANGED <<now, database, good, signalled, readiness, probe>>

-----------------------------------------------------------------------------
(* Around the process. *)

DatabaseFails ==
  /\ database.up /\ database.outages < MaxOutages
  /\ database' = [up |-> FALSE, outages |-> database.outages + 1]
  /\ UNCHANGED <<now, good, process, signalled, readiness, probe, request>>

DatabaseRecovers ==
  /\ ~database.up
  /\ database' = [database EXCEPT !.up = TRUE]
  /\ UNCHANGED <<now, good, process, signalled, readiness, probe, request>>

\* Half a second passes.  What has nothing to wait for, or whose timer has run out, goes
\* first.
Tick ==
  /\ now < MaxTime /\ process.code = NoExit
  /\ \A p \in Probe :
       /\ probe[p].at \in {"idle", "ready", "not_ready", "checking", "reading"}
       /\ probe[p].at \in {"checking", "reading"} => now < probe[p].since + CheckTimeout
  /\ Running({"pre_drain"}) => now < signalled + PreDrain
  /\ Running({"draining"}) => InFlight # {} \/ \E p \in Probe : probe[p].at \in Busy
  /\ signalled # Never => now < Deadline
  /\ now' = now + 1
  /\ UNCHANGED <<database, good, process, signalled, readiness, probe, request>>

Serve ==
  \/ Refuse \/ PassGate \/ Bind \/ BindFails
  \/ SignalEarly \/ Signal \/ CloseListener \/ DrainComplete \/ Watchdog
  \/ DatabaseFails \/ DatabaseRecovers \/ Tick
  \/ process.code = NoExit /\ \E p \in Probe :
       \/ BeginProbe(p) \/ LookInCache(p) \/ DbCheck(p) \/ ReadContract(p)
       \/ CheckFails(p) \/ ReadFlagAgain(p) \/ Store(p)
  \/ \E r \in Request : Begin(r) \/ Finish(r)

Next ==
  \/ Serve /\ UNCHANGED migrationVars
  \/ \E m \in Migrator : Migrate(m) /\ UNCHANGED processVars

Spec == Init /\ [][Next]_vars

\* Time passes, and what waits for nothing or has run out of time goes on.  Neither the
\* database nor a request in flight has to answer.
Elapses ==
  \/ Tick \/ CloseListener \/ DrainComplete \/ Watchdog
  \/ process.code = NoExit /\ \E p \in Probe :
       LookInCache(p) \/ CheckFails(p) \/ ReadFlagAgain(p) \/ Store(p)

Fairness == WF_vars(Elapses /\ UNCHANGED migrationVars)

FairSpec == Spec /\ Fairness

-----------------------------------------------------------------------------
(* Properties *)

\* "Ready" is never older than the cache allows: when a scrape answers it, the database
\* answered with a compatible contract less than CacheTtl ago, though it may have failed
\* since (probe_with: the cache, in-flight checks, failures not cached).
ReadyIsFresh ==
  [][\A p \in Probe : probe[p].at # "ready" /\ probe'[p].at = "ready" =>
       good # Never /\ now - good < CacheTtl]_vars

\* A process told to stop is gone within DrainBound of the signal, though a request in flight
\* or the database may never answer (shutdown.rs: "including PRE_DRAIN, not on top of it").
DrainEndsInTime ==
  signalled # Never ~> process.code # NoExit /\ now <= signalled + DrainBound

\* A check the database answers after the signal makes no scrape ready: "ready" comes before
\* the signal or in the same half second, from what waited for nothing (probe_with reads
\* shutting_down again after the check).
ReadyEndsWithTheSignal ==
  [][\A p \in Probe : probe[p].at # "ready" /\ probe'[p].at = "ready" =>
       signalled = Never \/ now = signalled]_vars

\* Once shutdown has begun no scrape answers "ready", one already in flight included
\* (probe_with: "so a probe already in flight when `begin_shutdown` is called cannot still
\* report `Ready`").
NoReadyInShutdown ==
  [][\A p \in Probe : readiness.shuttingDown /\ probe[p].at # "ready" => probe'[p].at # "ready"]_vars
=============================================================================
