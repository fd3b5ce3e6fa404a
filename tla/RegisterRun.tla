----------------------------- MODULE RegisterRun -----------------------------
(***************************************************************************)
(* Runs of `fau register sync` as processes (sync.rs, runs.rs, connect.rs):*)
(* the advisory lock that keeps a manual run and the CronJob apart, the    *)
(* run row that says how a run ended, the transaction that applies a plan, *)
(* and the second connection that records a failure.  What a plan contains *)
(* is the matter of RegisterSync.                                          *)
(*                                                                         *)
(* A connection has two ends.  The client may find it broken while the     *)
(* server still holds the session, its lock and its transaction, and a     *)
(* COMMIT that was sent may still take effect.                             *)
(***************************************************************************)
EXTENDS RegisterFetch

CONSTANTS
  Held   \* orgnrs of the open schools of a register with rows

VARIABLES
  pc, opts,        \* each run: its next step, and what the operator asked for
  client,          \* its connection as the client sees it
  session, lock,   \* the server's side: the session, the advisory lock
  txn,             \* the session's transaction
  row,             \* register_sync_runs
  mailed,          \* the outbox: which mail each run has sent
  applied,         \* runs whose changes are in the register, in order
  origin,          \* how the register came to its first rows
  snapshot,        \* what had been applied when the run's snapshot was read
  outcome          \* what the planner decided

runVars == <<pc, opts, client, session, lock, txn, row, mailed, applied, origin,
             snapshot, outcome>>
vars == <<runVars, fetchVars, trouble>>

None == "none"

ASSUME RunAssumption == Held \subseteq Units /\ None \notin Runs

NoTxn == [open |-> FALSE, result |-> None, mail |-> {}, sent |-> FALSE]

\* --accept-mass-change conflicts with --seed.
Options == {o \in [seed : BOOLEAN, dry : BOOLEAN, accept : BOOLEAN] : ~(o.seed /\ o.accept)}

NoOptions == [seed |-> FALSE, dry |-> FALSE, accept |-> FALSE]

Init ==
  /\ FetchInit
  /\ pc = [r \in Runs |-> "start"] /\ opts = [r \in Runs |-> NoOptions]
  /\ client = [r \in Runs |-> None] /\ session = [r \in Runs |-> FALSE]
  /\ lock = None /\ txn = [r \in Runs |-> NoTxn]
  /\ row = [r \in Runs |-> None] /\ mailed = [r \in Runs |-> {}] /\ applied = <<>>
  /\ origin \in {"empty", "seeded", "by_hand"}
  /\ snapshot = [r \in Runs |-> <<>>] /\ outcome = [r \in Runs |-> None]

RegisterIsEmpty == origin = "empty" /\ applied = <<>>

\* The earliest applied seed.
HasSeed == origin = "seeded" \/ \E r \in ToSet(applied) : opts[r].seed

-----------------------------------------------------------------------------
(* How a run leaves.  Returning closes the connection; the server ends the  *)
(* session, and frees the lock, when it notices.                            *)

Leave(r, how) ==
  /\ pc' = [pc EXCEPT ![r] = how]
  /\ client' = [client EXCEPT ![r] = IF @ = None THEN None ELSE "closed"]

Fails(r) == pc' = [pc EXCEPT ![r] = "fail"] /\ UNCHANGED client

Up(r) == client[r] = "up" /\ session[r]

Exits == {"done", "failed", "aborted", "locked", "refused", "killed"}

-----------------------------------------------------------------------------
(* sync and begin.                                                          *)

Connect(r) ==
  /\ pc[r] = "start"
  /\ \/ /\ pc' = [pc EXCEPT ![r] = "lock"] /\ client' = [client EXCEPT ![r] = "up"]
        /\ session' = [session EXCEPT ![r] = TRUE] /\ UNCHANGED trouble
     \/ /\ Trouble /\ Leave(r, "failed") /\ UNCHANGED session
  /\ UNCHANGED <<opts, lock, txn, row, mailed, applied, origin, snapshot, outcome, fetchVars>>

\* Mutant: the lock is taken whoever holds it.
TakeLock(r) ==
  /\ pc[r] = "lock" /\ Up(r) /\ lock' = r
  /\ \E o \in Options : opts' = [opts EXCEPT ![r] = o]
  /\ pc' = [pc EXCEPT ![r] = "check"]
  /\ UNCHANGED <<client, session, txn, row, mailed, applied, origin, snapshot, outcome, trouble,
                 fetchVars>>

\* The options are arguments of the command; they are first read under the
\* lock, so that is where the model chooses them.
TryLock(r) ==
  /\ pc[r] = "lock" /\ Up(r)
  /\ \/ /\ lock = None /\ lock' = r
        /\ \E o \in Options : opts' = [opts EXCEPT ![r] = o]
        /\ pc' = [pc EXCEPT ![r] = "check"] /\ UNCHANGED client
     \/ lock # None /\ Leave(r, "locked") /\ UNCHANGED <<opts, lock>>
  /\ UNCHANGED <<session, txn, row, mailed, applied, origin, snapshot, outcome, trouble,
                 fetchVars>>

\* --seed refuses a register with rows, a sync one without.
CheckRegister(r) ==
  /\ pc[r] = "check" /\ Up(r)
  /\ IF opts[r].seed = RegisterIsEmpty
     THEN pc' = [pc EXCEPT ![r] = "insert"] /\ UNCHANGED client
     ELSE Leave(r, "refused")
  /\ UNCHANGED <<opts, session, lock, txn, row, mailed, applied, origin, snapshot, outcome,
                 trouble, fetchVars>>

\* The row, unfinished.  If the answer is lost the run ends without knowing
\* that it has a row.
StartRun(r) ==
  /\ pc[r] = "insert" /\ Up(r)
  /\ row' = [row EXCEPT ![r] = "unfinished"]
  /\ \/ pc' = [pc EXCEPT ![r] = "seed_date"] /\ UNCHANGED <<client, trouble>>
     \/ Trouble /\ Leave(r, "failed")
  /\ UNCHANGED <<opts, session, lock, txn, mailed, applied, origin, snapshot, outcome, fetchVars>>

-----------------------------------------------------------------------------
(* execute.                                                                 *)

\* A sync needs an applied seed to start SSB's lookback from.
SeedDate(r) ==
  /\ pc[r] = "seed_date" /\ Up(r)
  /\ IF opts[r].seed \/ HasSeed
     THEN pc' = [pc EXCEPT ![r] = "fetch"] /\ UNCHANGED client /\ StartFetch(r)
     ELSE Fails(r) /\ UNCHANGED fetch
  /\ UNCHANGED <<opts, session, lock, txn, row, mailed, applied, origin, snapshot, outcome,
                 trouble, listing>>

Fetch(r) ==
  /\ pc[r] = "fetch"
  /\ FetchStep(r, opts[r].seed, IF RegisterIsEmpty THEN {} ELSE Held)
  /\ UNCHANGED runVars

FetchEnds(r) ==
  /\ pc[r] = "fetch"
  /\ \/ fetch[r].stage = "whole" /\ pc' = [pc EXCEPT ![r] = "plan"] /\ UNCHANGED client
     \/ fetch[r].stage \in {"source_error", "worker_panicked"} /\ Fails(r)
  /\ UNCHANGED <<opts, session, lock, txn, row, mailed, applied, origin, snapshot, outcome,
                 trouble, fetchVars>>

Aborts == {"empty_source", "mass_change"}

\* What plan() may return.  Any source may be empty, and no details mean an
\* empty NSR; a seed has no breaker and always something to create.
\* --accept-mass-change plans again without the breaker.
Outcomes(r) ==
  IF fetch[r].wanted = {} THEN {"empty_source"}
  ELSE {"apply", "empty_source"} \cup
       (IF opts[r].seed THEN {} ELSE {"no_change"}) \cup
       (IF opts[r].seed \/ opts[r].accept THEN {} ELSE {"mass_change"})

\* The REPEATABLE READ transaction: snapshot and plan.  A statement that times
\* out leaves the transaction open on a connection that is not used again.
PlanRun(r) ==
  /\ pc[r] = "plan" /\ Up(r)
  /\ txn' = [txn EXCEPT ![r].open = TRUE]
  /\ snapshot' = [snapshot EXCEPT ![r] = applied]
  /\ \/ /\ \E o \in Outcomes(r) : outcome' = [outcome EXCEPT ![r] = o]
        /\ pc' = [pc EXCEPT ![r] = "planned"] /\ UNCHANGED <<client, trouble>>
     \/ Trouble /\ Fails(r) /\ UNCHANGED outcome
  /\ fetch' = [fetch EXCEPT ![r] = NotStarted]
  /\ UNCHANGED <<opts, session, lock, row, mailed, applied, origin, listing>>

\* A dry run, no change, an abort, or a plan whose reviews are all open
\* already: the transaction is rolled back and the outcome recorded in one of
\* its own.
RollBack(r) ==
  /\ pc[r] = "planned" /\ Up(r)
  /\ outcome[r] = "apply" => \/ opts[r].dry
                             \/ ~opts[r].seed   \* wrote_nothing
  /\ txn' = [txn EXCEPT ![r] = NoTxn]
  /\ pc' = [pc EXCEPT ![r] = "record"]
  /\ UNCHANGED <<opts, client, session, lock, row, mailed, applied, origin, snapshot, outcome,
                 trouble, fetchVars>>

\* What a transaction writes of the run: its row, finished, and the mail in the outbox.
Finish(t, result) == [t EXCEPT !.open = TRUE, !.result = result]

Enqueue(t, template) == [t EXCEPT !.mail = t.mail \cup {template}]

\* A seed sends one summary, a sync one mail per review item it wrote.
RecordApplied(t, seed, reviews) ==
  LET finished == Finish(t, "applied")
  IN  IF seed THEN Enqueue(finished, "seed_summary")
      ELSE IF reviews THEN Enqueue(finished, "review_item") ELSE finished

RecordAborted(t) == Enqueue(Finish(t, "aborted"), "sync_aborted")

\* apply_and_stage: the changes, the payloads, the finished row, the audit
\* entry and the mail are written, uncommitted.  A statement that fails rolls
\* all of it back.
Apply(r) ==
  /\ pc[r] = "planned" /\ Up(r) /\ outcome[r] = "apply" /\ ~opts[r].dry
  /\ \/ /\ \E reviews \in BOOLEAN :
             txn' = [txn EXCEPT ![r] = RecordApplied(@, opts[r].seed, reviews)]
        /\ pc' = [pc EXCEPT ![r] = "commit"] /\ UNCHANGED <<client, trouble>>
     \/ Trouble /\ txn' = [txn EXCEPT ![r] = NoTxn] /\ Fails(r)
  /\ UNCHANGED <<opts, session, lock, row, mailed, applied, origin, snapshot, outcome, fetchVars>>

\* A dry run and a run that found nothing finish as no_change.
Record(r) ==
  /\ pc[r] = "record" /\ Up(r)
  /\ \/ /\ txn' = [txn EXCEPT ![r] = IF outcome[r] \in Aborts /\ ~opts[r].dry
                                       THEN RecordAborted(@) ELSE Finish(@, "no_change")]
        /\ pc' = [pc EXCEPT ![r] = "commit"] /\ UNCHANGED <<client, trouble>>
     \/ Trouble /\ Fails(r) /\ UNCHANGED txn
  /\ UNCHANGED <<opts, session, lock, row, mailed, applied, origin, snapshot, outcome, fetchVars>>

SendCommit(r) ==
  /\ pc[r] = "commit" /\ Up(r)
  /\ txn' = [txn EXCEPT ![r].sent = TRUE]
  /\ pc' = [pc EXCEPT ![r] = "await"]
  /\ UNCHANGED <<opts, client, session, lock, row, mailed, applied, origin, snapshot, outcome,
                 trouble, fetchVars>>

\* The server's answer to COMMIT.
Committed(r) ==
  /\ pc[r] = "await" /\ Up(r) /\ ~txn[r].open
  /\ Leave(r, IF outcome[r] \in Aborts THEN "aborted" ELSE "done")
  /\ UNCHANGED <<opts, session, lock, txn, row, mailed, applied, origin, snapshot, outcome,
                 trouble, fetchVars>>

-----------------------------------------------------------------------------
(* Failures.                                                                *)

Break(r) ==
  /\ client[r] = "up" /\ Trouble
  /\ client' = [client EXCEPT ![r] = "broken"]
  /\ UNCHANGED <<pc, opts, session, lock, txn, row, mailed, applied, origin, snapshot, outcome,
                 fetchVars>>

\* The next statement on a broken connection fails.  Before the row there is
\* nothing to record.
NoticeBroken(r) ==
  /\ client[r] = "broken"
  /\ \/ pc[r] \in {"lock", "check", "insert"} /\ Leave(r, "failed")
     \/ pc[r] \in {"seed_date", "plan", "planned", "record", "commit", "await"} /\ Fails(r)
  /\ UNCHANGED <<opts, session, lock, txn, row, mailed, applied, origin, snapshot, outcome,
                 trouble, fetchVars>>

RowLocked(r) == txn[r].open /\ txn[r].result # None

\* Mutant: finish does not ask for finished_at is null.
RecordFailureAnyway(r) ==
  /\ pc[r] = "fail" /\ ~RowLocked(r)
  /\ row' = [row EXCEPT ![r] = "failed"]
  /\ Leave(r, "failed")
  /\ UNCHANGED <<opts, session, lock, txn, mailed, applied, origin, snapshot, outcome, trouble,
                 fetchVars>>

\* finish on a fresh connection, only where finished_at is null.  It waits
\* while a transaction holds the row.
RecordFailure(r) ==
  /\ pc[r] = "fail" /\ ~RowLocked(r)
  /\ row' = [row EXCEPT ![r] = IF @ = "unfinished" THEN "failed" ELSE @]
  /\ Leave(r, "failed")
  /\ UNCHANGED <<opts, session, lock, txn, mailed, applied, origin, snapshot, outcome, trouble,
                 fetchVars>>

\* The fresh connection fails, or lock_timeout ends the wait for the row.
RecordingFails(r) ==
  /\ pc[r] = "fail"
  /\ \/ Trouble
     \/ RowLocked(r) /\ UNCHANGED trouble
  /\ Leave(r, "failed")
  /\ UNCHANGED <<opts, session, lock, txn, row, mailed, applied, origin, snapshot, outcome,
                 fetchVars>>

\* The process is killed.
Kill(r) ==
  /\ pc[r] \notin Exits \cup {"start"} /\ Trouble
  /\ Leave(r, "killed")
  /\ fetch' = [fetch EXCEPT ![r] = NotStarted]
  /\ UNCHANGED <<opts, session, lock, txn, row, mailed, applied, origin, snapshot, outcome,
                 listing>>

-----------------------------------------------------------------------------
(* The server.                                                              *)

ServerCommits(r) ==
  /\ session[r] /\ txn[r].open /\ txn[r].sent
  /\ row' = [row EXCEPT ![r] = txn[r].result]
  /\ applied' = IF txn[r].result = "applied" THEN Append(applied, r) ELSE applied
  /\ mailed' = [mailed EXCEPT ![r] = @ \cup txn[r].mail]
  /\ txn' = [txn EXCEPT ![r] = NoTxn]
  /\ UNCHANGED <<pc, opts, client, session, lock, origin, snapshot, outcome, trouble, fetchVars>>

\* Mutant: the connection is a pooled one, whose session outlives the run.
SessionPooled(r) ==
  /\ session[r] /\ client[r] \in {"broken", "closed"}
  /\ session' = [session EXCEPT ![r] = FALSE]
  /\ txn' = [txn EXCEPT ![r] = NoTxn]
  /\ UNCHANGED <<pc, opts, client, lock, row, mailed, applied, origin, snapshot, outcome,
                 trouble, fetchVars>>

\* Whatever was not committed is rolled back, and the lock is free.
SessionEnds(r) ==
  /\ session[r] /\ client[r] \in {"broken", "closed"}
  /\ session' = [session EXCEPT ![r] = FALSE]
  /\ txn' = [txn EXCEPT ![r] = NoTxn]
  /\ lock' = IF lock = r THEN None ELSE lock
  /\ UNCHANGED <<pc, opts, client, row, mailed, applied, origin, snapshot, outcome, trouble,
                 fetchVars>>

-----------------------------------------------------------------------------
Step(r) ==
  \/ Connect(r) \/ TryLock(r) \/ CheckRegister(r) \/ StartRun(r) \/ SeedDate(r)
  \/ Fetch(r) \/ FetchEnds(r) \/ PlanRun(r) \/ RollBack(r) \/ Apply(r) \/ Record(r)
  \/ SendCommit(r) \/ Committed(r) \/ NoticeBroken(r) \/ RecordFailure(r) \/ RecordingFails(r)

Server(r) == ServerCommits(r) \/ SessionEnds(r)

Next ==
  \/ \E r \in Runs : Step(r) \/ Server(r) \/ Break(r) \/ Kill(r)
  \/ ListChanges /\ UNCHANGED runVars

Spec == Init /\ [][Next]_vars

\* A process that can go on does, and so does the server.
FairSpec == Spec /\ \A r \in Runs : WF_vars(Step(r)) /\ WF_vars(Server(r))

-----------------------------------------------------------------------------
(* Properties.                                                              *)

Mails == {"seed_summary", "review_item", "sync_aborted"}

Results == {"applied", "no_change", "aborted"}

Transactions ==
  [open : BOOLEAN, result : Results \cup {None}, mail : SUBSET Mails, sent : BOOLEAN]

TypeOK ==
  /\ pc \in [Runs -> Exits \cup {"start", "lock", "check", "insert", "seed_date", "fetch",
                                 "plan", "planned", "record", "commit", "await", "fail"}]
  /\ opts \in [Runs -> Options]
  /\ client \in [Runs -> {None, "up", "broken", "closed"}] /\ session \in [Runs -> BOOLEAN]
  /\ lock \in Runs \cup {None} /\ txn \in [Runs -> Transactions]
  /\ row \in [Runs -> Results \cup {None, "unfinished", "failed"}]
  /\ mailed \in [Runs -> SUBSET Mails] /\ applied \in Seq(Runs)
  /\ snapshot \in [Runs -> Seq(Runs)]
  /\ outcome \in [Runs -> {None, "apply", "no_change"} \cup Aborts]
  /\ trouble \in 0 .. MaxTrouble

\* The register cannot change between planning and applying: while a run's
\* plan may still commit, nothing has been applied since its snapshot, even
\* when its client has given up and another run has started.
PlanIsCurrent ==
  \A r \in Runs : txn[r].result = "applied" => snapshot[r] = applied

\* The row tells what happened: applied if and only if the changes are in the
\* register, aborted if and only if the operator was mailed about it, and no
\* mail of a run that did not commit, whatever broke around the commit.  A run
\* that exits 0 or 3 has its row finished.
RowTellsTheTruth ==
  \A r \in Runs :
    /\ row[r] = "applied" <=> r \in ToSet(applied)
    /\ row[r] = "aborted" <=> "sync_aborted" \in mailed[r]
    /\ row[r] = "applied" /\ opts[r].seed <=> "seed_summary" \in mailed[r]
    /\ "review_item" \in mailed[r] => row[r] = "applied" /\ ~opts[r].seed
    /\ pc[r] = "done" => row[r] \in {"applied", "no_change"}
    /\ pc[r] = "aborted" => row[r] = IF opts[r].dry THEN "no_change" ELSE "aborted"

\* A run that has connected ends, whichever connection, source or worker
\* fails, and the lock it took is free again for the next.
RunsEnd ==
  \A r \in Runs : /\ pc[r] # "start" ~> pc[r] \in Exits
                  /\ lock = r ~> lock # r

=============================================================================
