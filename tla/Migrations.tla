----------------------------- MODULE Migrations -----------------------------
(***************************************************************************)
(* Processes running `fau migrate` against one database (persistence/       *)
(* migrate.rs).  Each holds one connection; the outer advisory lock is the   *)
(* session's, so it goes with the connection.  sqlx applies a migration file *)
(* and records it in one transaction, and file n writes contract version n,  *)
(* so `version` is both the number of rows of _sqlx_migrations and the       *)
(* schema contract.                                                         *)
(*                                                                         *)
(* How long the lock may be waited for is left open: a waiting process may   *)
(* give up at any time.                                                     *)
(***************************************************************************)
EXTENDS Integers

CONSTANTS
  Migrator,   \* processes
  NoMigrator,
  Latest      \* the number of migration files

ASSUME MigrationsAssumption == Latest \in Nat /\ NoMigrator \notin Migrator

VARIABLES
  version,    \* the migrations applied
  lock,       \* who holds MIGRATION_LOCK_ID
  migrator    \* per process: where it is, what it counted, what it did and says

migrationVars == <<version, lock, migrator>>

NewMigrator == [at |-> "new", before |-> 0, ran |-> 0, said |-> 0]
Goes(m, where) == [migrator EXCEPT ![m].at = where]

\* A failed run says nothing of what it ran.
Failed(m) == [migrator EXCEPT ![m] = [NewMigrator EXCEPT !.at = "failed"]]

MigrationsInit ==
  /\ version \in 0 .. Latest
  /\ lock = NoMigrator
  /\ migrator = [m \in Migrator |-> NewMigrator]

\* connect: the first of the bounded waits; a process that gives up here has done nothing.
Connect(m) ==
  /\ migrator[m].at = "new"
  /\ migrator' = Goes(m, "waiting")
  /\ UNCHANGED <<version, lock>>

\* Mutant: the run goes ahead while another process holds the lock.
LockFreeAnyway(m) == TRUE

\* pg_try_advisory_lock grants the session's lock to one process at a time.
LockFree(m) == lock = NoMigrator

\* acquire_outer_lock: the lock is tried until it is got ...
AcquireOuterLock(m) ==
  /\ migrator[m].at = "waiting"
  /\ LockFree(m)
  /\ lock' = m
  /\ migrator' = Goes(m, "locked")
  /\ UNCHANGED version

\* ... or the deadline passes (LockUnavailable).
LockUnavailable(m) ==
  /\ migrator[m].at = "waiting"
  /\ lock # NoMigrator
  /\ migrator' = Failed(m)
  /\ UNCHANGED <<version, lock>>

\* run_pending: the rows before.
CountBefore(m) ==
  /\ migrator[m].at = "locked"
  /\ migrator' = [Goes(m, "running") EXCEPT ![m].before = version]
  /\ UNCHANGED <<version, lock>>

\* sqlx's migrator: the next file, in a transaction of its own.
RunFile(m) ==
  /\ migrator[m].at = "running"
  /\ version < Latest
  /\ version' = version + 1
  /\ migrator' = [migrator EXCEPT ![m].ran = @ + 1]
  /\ UNCHANGED lock

\* The rows after: what the run says it applied.
CountAfter(m) ==
  /\ migrator[m].at = "running"
  /\ version = Latest
  /\ migrator' = [Goes(m, "counted") EXCEPT
       ![m].said = version - migrator[m].before, ![m].before = 0]
  /\ UNCHANGED <<version, lock>>

\* A statement fails, in its file (rolled back) or in a count: the files before it stay.
RunFails(m) ==
  /\ migrator[m].at \in {"locked", "running"}
  /\ migrator' = [Failed(m) EXCEPT ![m].at = "stopped"]
  /\ UNCHANGED <<version, lock>>

\* release_outer_lock, on every path.
ReleaseOuterLock(m) ==
  /\ migrator[m].at \in {"counted", "stopped"}
  /\ lock' = NoMigrator
  /\ migrator' = Goes(m, IF migrator[m].at = "counted" THEN "done" ELSE "failed")
  /\ UNCHANGED version

\* The process or its connection dies: PostgreSQL ends the session, and the lock with it.
Die(m) ==
  /\ migrator[m].at \notin {"new", "done", "failed"}
  /\ lock' = IF lock = m THEN NoMigrator ELSE lock
  /\ migrator' = Failed(m)
  /\ UNCHANGED version

Migrate(m) ==
  \/ Connect(m) \/ AcquireOuterLock(m) \/ LockUnavailable(m)
  \/ CountBefore(m) \/ RunFile(m) \/ CountAfter(m) \/ RunFails(m)
  \/ ReleaseOuterLock(m) \/ Die(m)

\* What a run says it applied is what it applied: no other run's files are among them
\* (Applied of run_migrations, counted around a run that others must wait for).
SaysWhatItRan == \A m \in Migrator : migrator[m].at = "done" => migrator[m].said = migrator[m].ran
=============================================================================
