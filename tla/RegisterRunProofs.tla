-------------------------- MODULE RegisterRunProofs --------------------------
(***************************************************************************)
(* For any number of runs, units, pages, workers and troubles: a plan is     *)
(* applied only to the register it was made from, the run row and the mails  *)
(* tell what happened, and what a run plans from is whole.                   *)
(***************************************************************************)
EXTENDS RegisterRun, FiniteSetTheorems, SequenceTheorems, TLAPS

-----------------------------------------------------------------------------
(* What a run holds on the server. *)

\* The steps before a run has a transaction, and those under the lock.
BeforeLock == {"start", "lock"}
BeforeTxn == BeforeLock \cup {"check", "insert", "seed_date", "fetch", "plan"}
UnderLock == {"check", "insert", "seed_date", "fetch", "plan", "planned", "record", "commit",
              "await", "fail"}

\* A transaction is open only in the session that holds the lock, and a run past TryLock
\* holds it as long as the server keeps its session.
LockInv(r) ==
  /\ txn[r].open => session[r] /\ lock = r
  /\ pc[r] \in UnderLock /\ session[r] => lock = r

\* What a transaction holds at each step of its run.
TxnInv(r) ==
  /\ txn[r].open \/ txn[r] = NoTxn
  /\ txn[r].result = None => txn[r].mail = {} /\ ~txn[r].sent
  /\ pc[r] \in BeforeTxn \cup {"record", "done", "aborted"} => txn[r] = NoTxn
  /\ pc[r] = "planned" => txn[r].result = None
  /\ pc[r] = "commit" => ~txn[r].sent
  /\ pc[r] = "commit" /\ session[r] => txn[r].open

\* While the run that planned still has its session, nothing has been applied since.
SnapshotInv(r) ==
  /\ pc[r] = "planned" /\ session[r] => snapshot[r] = applied
  /\ txn[r].result = "applied" => snapshot[r] = applied

\* The results that agree with what the planner decided.
Fits(r, result) ==
  IF outcome[r] \in Aborts THEN result = IF opts[r].dry THEN "no_change" ELSE "aborted"
  ELSE result \in {"applied", "no_change"}

\* The mail that goes with a result.
MailInv(r) ==
  /\ txn[r].result = "applied" =>
       IF opts[r].seed THEN txn[r].mail = {"seed_summary"} ELSE txn[r].mail \subseteq {"review_item"}
  /\ txn[r].result = "aborted" => txn[r].mail = {"sync_aborted"}
  /\ txn[r].result = "no_change" => txn[r].mail = {}

\* The row is written once: before the commit it is unfinished, and a result that may still
\* commit keeps it so.
RowInv(r) ==
  /\ pc[r] \in {"start", "lock", "check", "insert"} => row[r] = None
  /\ pc[r] \in {"seed_date", "fetch", "plan", "planned", "record", "commit"} => row[r] = "unfinished"
  /\ txn[r].result # None => row[r] = "unfinished"
  /\ pc[r] \in {"commit", "await"} /\ txn[r].open => Fits(r, txn[r].result)
  /\ pc[r] = "await" /\ session[r] /\ ~txn[r].open => Fits(r, row[r])

\* RowTellsTheTruth, of one run.
TruthInv(r) ==
  /\ row[r] = "applied" <=> r \in ToSet(applied)
  /\ row[r] = "aborted" <=> "sync_aborted" \in mailed[r]
  /\ row[r] = "applied" /\ opts[r].seed <=> "seed_summary" \in mailed[r]
  /\ "review_item" \in mailed[r] => row[r] = "applied" /\ ~opts[r].seed
  /\ pc[r] = "done" => row[r] \in {"applied", "no_change"}
  /\ pc[r] = "aborted" => row[r] = IF opts[r].dry THEN "no_change" ELSE "aborted"

RunOK(r) == LockInv(r) /\ TxnInv(r) /\ SnapshotInv(r) /\ MailInv(r) /\ RowInv(r) /\ TruthInv(r)

RunInv == TypeOK /\ \A r \in Runs : RunOK(r)

-----------------------------------------------------------------------------
(* What a run fetches. *)

Stages == {"none", "kartverket", "ssb", "list", "details", "whole", "source_error",
           "worker_panicked"}

FetchRow ==
  [stage : Stages, attempt : Nat, page : Nat \ {0}, count : Nat, total : Nat,
   seen : SUBSET Units, listed : SUBSET Units, arrived : BOOLEAN, wanted : SUBSET Units,
   queue : SUBSET Units, failed : BOOLEAN, worker : [Workers -> {"take", "get"} \cup Ended],
   asks : [Workers -> SUBSET Units], tried : [Workers -> Nat], got : SUBSET Units, done : Nat]

FetchTypeOK == listing \in Seq(Units) /\ fetch \in [Runs -> FetchRow]

InDetails(f) == f.stage \in {"details", "whole"}

\* Before the detail pass its part of the row is as NotStarted has it, and nothing has been
\* seen before the first page.
FreshInv(f) ==
  ~InDetails(f) =>
    /\ f.got = {} /\ f.done = 0 /\ ~f.failed /\ f.worker = NotStarted.worker
    /\ f.asks = NotStarted.asks
    /\ f.stage \in {"kartverket", "ssb"} => f.page = 1
    /\ f.page = 1 => f.seen = {}

\* While no unit has arrived, what has been seen and what is still listed was listed when the
\* first page was read, and the total it claimed is no less than that.
ListInv(f) ==
  ~f.arrived =>
    /\ f.stage = "list" /\ f.page # 1 =>
         /\ IsFiniteSet(f.listed) /\ Cardinality(f.listed) <= f.total
         /\ f.seen \cup ToSet(listing) \subseteq f.listed
    /\ InDetails(f) => f.listed = f.seen

\* Every wanted unit is fetched, queued or with exactly one worker; a worker goes home only
\* when the queue is empty or another has failed.
DetailInv(f) ==
  InDetails(f) =>
    /\ \A u \in Units : u \in f.wanted <=>
         u \in f.got \/ u \in f.queue \/ \E w \in Workers : u \in f.asks[w]
    /\ f.got \cap f.queue = {}
    /\ \A w \in Workers :
         /\ f.asks[w] \cap (f.got \cup f.queue) = {}
         /\ \A v \in Workers \ {w} : f.asks[w] \cap f.asks[v] = {}
         /\ f.worker[w] \in {"take", "returned"} => f.asks[w] = {}
         /\ f.worker[w] = "get" => \E u \in Units : f.asks[w] = {u}
         /\ f.worker[w] = "returned" => f.queue = {} \/ f.failed
    /\ f.failed => \E w \in Workers : f.worker[w] = "errored"
    /\ IsFiniteSet(f.got) /\ f.done = Cardinality(f.got)
    /\ f.stage = "whole" => f.got = f.wanted

FetchOK(f) == FreshInv(f) /\ ListInv(f) /\ DetailInv(f)

FetchInv == FetchTypeOK /\ \A r \in Runs : FetchOK(fetch[r])

IndInv == RunInv /\ FetchInv

-----------------------------------------------------------------------------
(* The steps of a run. *)

\* What a step may write: the sets of TypeOK.
Steps == Exits \cup {"start", "lock", "check", "insert", "seed_date", "fetch", "plan", "planned",
                     "record", "commit", "await", "fail"}
Ends == {None, "up", "broken", "closed"}
Rows == Results \cup {None, "unfinished", "failed"}
Verdicts == {None, "apply", "no_change"} \cup Aborts
Logs == Seq(Runs)

\* Each of them is a member of its set.
LEMMA Members ==
  /\ \A s \in Exits \cup {"start", "lock", "check", "insert", "seed_date", "fetch", "plan",
        "planned", "record", "commit", "await", "fail"} : s \in Steps
  /\ \A s \in {"done", "failed", "aborted", "locked", "refused", "killed"} : s \in Steps
  /\ \A s \in {None, "up", "broken", "closed"} : s \in Ends
  /\ \A s \in {None, "unfinished", "failed", "applied", "no_change", "aborted"} : s \in Rows
  /\ \A s \in Results : s \in Rows
BY DEF Steps, Ends, Rows, Results, Exits

\* The type invariant with its sets named, so that the provers need not look into them.
LEMMA Types ==
  TypeOK <=>
    /\ pc \in [Runs -> Steps] /\ opts \in [Runs -> Options] /\ client \in [Runs -> Ends]
    /\ session \in [Runs -> BOOLEAN] /\ lock \in Runs \cup {None}
    /\ txn \in [Runs -> Transactions] /\ row \in [Runs -> Rows]
    /\ mailed \in [Runs -> SUBSET Mails] /\ applied \in Logs /\ snapshot \in [Runs -> Logs]
    /\ outcome \in [Runs -> Verdicts] /\ trouble \in 0 .. MaxTrouble
BY DEF TypeOK, Steps, Ends, Rows, Verdicts, Logs

\* The same in the next state.
LEMMA TypesNext ==
  TypeOK' <=>
    /\ pc' \in [Runs -> Steps] /\ opts' \in [Runs -> Options] /\ client' \in [Runs -> Ends]
    /\ session' \in [Runs -> BOOLEAN] /\ lock' \in Runs \cup {None}
    /\ txn' \in [Runs -> Transactions] /\ row' \in [Runs -> Rows]
    /\ mailed' \in [Runs -> SUBSET Mails] /\ applied' \in Logs /\ snapshot' \in [Runs -> Logs]
    /\ outcome' \in [Runs -> Verdicts] /\ trouble' \in 0 .. MaxTrouble
BY DEF TypeOK, Steps, Ends, Rows, Verdicts, Logs

\* An empty transaction is one, and so is what a finished run writes.
LEMMA NoTxnType == NoTxn \in Transactions
BY DEF NoTxn, Transactions

\* A transaction that is opened, or whose COMMIT is sent.
LEMMA TxnTypes ==
  ASSUME NEW t \in Transactions
  PROVE  [t EXCEPT !.open = TRUE] \in Transactions /\ [t EXCEPT !.sent = TRUE] \in Transactions
BY DEF Transactions

\* apply_and_stage of a seed and of a sync.
LEMMA AppliedType ==
  ASSUME NEW t \in Transactions, t.mail = {}, NEW seed, NEW reviews
  PROVE  LET new == RecordApplied(t, seed, reviews)
         IN  /\ new \in Transactions /\ new.open /\ new.result = "applied" /\ new.sent = t.sent
             /\ IF seed THEN new.mail = {"seed_summary"} ELSE new.mail \subseteq {"review_item"}
BY DEF RecordApplied, Finish, Enqueue, Transactions, Mails, Results

\* The two ways to record a run that applied nothing.
LEMMA RecordTypes ==
  /\ RecordAborted(NoTxn) \in Transactions /\ Finish(NoTxn, "no_change") \in Transactions
  /\ LET new == RecordAborted(NoTxn)
     IN  new.open /\ new.result = "aborted" /\ new.mail = {"sync_aborted"} /\ ~new.sent
  /\ LET new == Finish(NoTxn, "no_change")
     IN  new.open /\ new.result = "no_change" /\ new.mail = {} /\ ~new.sent
BY DEF RecordAborted, Finish, Enqueue, NoTxn, Transactions, Mails, Results

\* What plan() may return.
LEMMA OutcomeTypes == ASSUME NEW r \in Runs PROVE Outcomes(r) \subseteq Verdicts
BY DEF Outcomes, Verdicts, Aborts

\* A trouble counted stays within its bound.
LEMMA TroubleType == ASSUME trouble \in 0 .. MaxTrouble, Trouble PROVE trouble' \in 0 .. MaxTrouble
BY SourcesAssumption DEF Trouble

\* A step of r leaves the other runs alone.
OthersStay(r) ==
  \A q \in Runs \ {r} :
    /\ pc'[q] = pc[q] /\ opts'[q] = opts[q] /\ session'[q] = session[q] /\ txn'[q] = txn[q]
    /\ row'[q] = row[q] /\ mailed'[q] = mailed[q] /\ snapshot'[q] = snapshot[q]
    /\ outcome'[q] = outcome[q]
    /\ lock = q => lock' = q

\* A step that commits nothing keeps the invariant of every run if it keeps that of its own.
LEMMA OwnStep ==
  ASSUME RunInv, NEW r \in Runs, TypeOK', RunOK(r)', OthersStay(r), applied' = applied
  PROVE  RunInv'
<1> SUFFICES ASSUME NEW q \in Runs, q # r PROVE RunOK(q)'
  BY DEF RunInv
<1> USE DEF OthersStay, RunInv, RunOK
<1>1. LockInv(q)' /\ TxnInv(q)' /\ SnapshotInv(q)'
  BY DEF LockInv, TxnInv, SnapshotInv
<1>2. MailInv(q)' /\ RowInv(q)' /\ TruthInv(q)'
  BY DEF MailInv, RowInv, TruthInv, Fits
<1> QED BY <1>1, <1>2

\* The connection: there is no transaction yet.
LEMMA ConnectKeepsInv == ASSUME RunInv, NEW r \in Runs, Connect(r) PROVE RunInv'
<1>1. TypeOK'
  BY ZenonT(30), Types, TypesNext, TroubleType, Members DEF RunInv, Connect, Leave
<1>2. OthersStay(r) /\ applied' = applied
  BY Types DEF RunInv, Connect, Leave, OthersStay
<1>3. /\ pc'[r] \in {"lock", "failed"} /\ pc[r] = "start" /\ session'[r] \in BOOLEAN
      /\ UNCHANGED <<opts, lock, txn, row, mailed, applied, snapshot, outcome>>
  BY Types DEF RunInv, Connect, Leave
<1> USE <1>3 DEF RunInv, RunOK
<1>4. LockInv(r)' /\ TxnInv(r)' /\ SnapshotInv(r)'
  BY Types DEF LockInv, TxnInv, SnapshotInv, UnderLock, BeforeTxn, BeforeLock, NoTxn
<1>5. MailInv(r)' /\ RowInv(r)'
  BY DEF TxnInv, MailInv, RowInv, Fits, BeforeTxn, BeforeLock, NoTxn, None
<1>6. TruthInv(r)'
  BY DEF TxnInv, RowInv, TruthInv, None
<1> QED BY <1>1, <1>2, <1>4, <1>5, <1>6, OwnStep

\* pg_try_advisory_lock: the run that gets the lock has no row and no transaction.
LEMMA TryLockKeepsInv == ASSUME RunInv, NEW r \in Runs, TryLock(r) PROVE RunInv'
<1>1. TypeOK'
  BY Types, TypesNext, TroubleType, Members, RunAssumption DEF RunInv, TryLock, Leave, Up
<1>2. OthersStay(r) /\ applied' = applied
  BY Types, RunAssumption DEF RunInv, TryLock, Leave, Up, OthersStay
<1>3. /\ pc[r] = "lock" /\ session[r]
      /\ \/ pc'[r] = "check" /\ lock' = r
         \/ pc'[r] = "locked" /\ lock' = lock
      /\ UNCHANGED <<session, txn, row, mailed, applied, snapshot, outcome>>
  BY Types, RunAssumption DEF RunInv, TryLock, Leave, Up
<1> USE <1>3 DEF RunInv, RunOK
<1>4. LockInv(r)' /\ TxnInv(r)' /\ SnapshotInv(r)'
  BY Types DEF LockInv, TxnInv, SnapshotInv, UnderLock, BeforeTxn, BeforeLock, NoTxn
<1>5. MailInv(r)' /\ RowInv(r)'
  BY DEF TxnInv, MailInv, RowInv, Fits, BeforeTxn, BeforeLock, NoTxn, None
<1>6. TruthInv(r)'
  BY DEF TxnInv, RowInv, TruthInv, None
<1> QED BY <1>1, <1>2, <1>4, <1>5, <1>6, OwnStep

\* The check of the register, with the lock held.
LEMMA CheckRegisterKeepsInv == ASSUME RunInv, NEW r \in Runs, CheckRegister(r) PROVE RunInv'
<1>1. TypeOK'
  BY Types, TypesNext, TroubleType, Members DEF RunInv, CheckRegister, Leave, Up
<1>2. OthersStay(r) /\ applied' = applied
  BY Types DEF RunInv, CheckRegister, Leave, Up, OthersStay
<1>3. /\ pc[r] = "check" /\ pc'[r] \in {"insert", "refused"}
      /\ UNCHANGED <<opts, session, lock, txn, row, mailed, applied, snapshot, outcome>>
  BY Types DEF RunInv, CheckRegister, Leave, Up
<1> USE <1>3 DEF RunInv, RunOK
<1>4. LockInv(r)' /\ TxnInv(r)' /\ SnapshotInv(r)'
  BY Types DEF LockInv, TxnInv, SnapshotInv, UnderLock, BeforeTxn, BeforeLock, NoTxn
<1>5. MailInv(r)' /\ RowInv(r)'
  BY DEF TxnInv, MailInv, RowInv, Fits, BeforeTxn, BeforeLock, NoTxn, None
<1>6. TruthInv(r)'
  BY DEF TxnInv, RowInv, TruthInv, None
<1> QED BY <1>1, <1>2, <1>4, <1>5, <1>6, OwnStep

\* The run row is inserted, whether or not the run learns of it.
LEMMA StartRunKeepsInv == ASSUME RunInv, NEW r \in Runs, StartRun(r) PROVE RunInv'
<1>1. TypeOK'
  BY Types, TypesNext, TroubleType, Members DEF RunInv, StartRun, Leave, Up
<1>2. OthersStay(r) /\ applied' = applied
  BY Types DEF RunInv, StartRun, Leave, Up, OthersStay
<1>3. /\ pc[r] = "insert" /\ pc'[r] \in {"seed_date", "failed"} /\ row'[r] = "unfinished"
      /\ UNCHANGED <<opts, session, lock, txn, mailed, applied, snapshot, outcome>>
  BY Types DEF RunInv, StartRun, Leave, Up
<1> USE <1>3 DEF RunInv, RunOK
<1>4. LockInv(r)' /\ TxnInv(r)' /\ SnapshotInv(r)'
  BY Types DEF LockInv, TxnInv, SnapshotInv, UnderLock, BeforeTxn, BeforeLock, NoTxn
<1>5. MailInv(r)' /\ RowInv(r)'
  BY DEF TxnInv, MailInv, RowInv, Fits, BeforeTxn, BeforeLock, NoTxn, None
<1>6. TruthInv(r)'
  BY DEF TxnInv, RowInv, TruthInv, None
<1> QED BY <1>1, <1>2, <1>4, <1>5, <1>6, OwnStep

\* The date of the seed, before anything is fetched.
LEMMA SeedDateKeepsInv == ASSUME RunInv, NEW r \in Runs, SeedDate(r) PROVE RunInv'
<1>1. TypeOK'
  BY Types, TypesNext, TroubleType, Members DEF RunInv, SeedDate, Fails, Up
<1>2. OthersStay(r) /\ applied' = applied
  BY Types DEF RunInv, SeedDate, Fails, Up, OthersStay
<1>3. /\ pc[r] = "seed_date" /\ pc'[r] \in {"fetch", "fail"} /\ session[r]
      /\ UNCHANGED <<opts, session, lock, txn, row, mailed, applied, snapshot, outcome>>
  BY Types DEF RunInv, SeedDate, Fails, Up
<1> USE <1>3 DEF RunInv, RunOK
<1>4. LockInv(r)' /\ TxnInv(r)' /\ SnapshotInv(r)'
  BY Types DEF LockInv, TxnInv, SnapshotInv, UnderLock, BeforeTxn, BeforeLock, NoTxn
<1>5. MailInv(r)' /\ RowInv(r)'
  BY DEF TxnInv, MailInv, RowInv, Fits, BeforeTxn, BeforeLock, NoTxn, None
<1>6. TruthInv(r)'
  BY DEF TxnInv, RowInv, TruthInv, None
<1> QED BY <1>1, <1>2, <1>4, <1>5, <1>6, OwnStep

\* The end of the fetching.
LEMMA FetchEndsKeepsInv == ASSUME RunInv, NEW r \in Runs, FetchEnds(r) PROVE RunInv'
<1>1. TypeOK'
  BY Types, TypesNext, TroubleType, Members DEF RunInv, FetchEnds, Fails
<1>2. OthersStay(r) /\ applied' = applied
  BY Types DEF RunInv, FetchEnds, Fails, OthersStay
<1>3. /\ pc[r] = "fetch" /\ pc'[r] \in {"plan", "fail"}
      /\ UNCHANGED <<opts, session, lock, txn, row, mailed, applied, snapshot, outcome>>
  BY Types DEF RunInv, FetchEnds, Fails
<1> USE <1>3 DEF RunInv, RunOK
<1>4. LockInv(r)' /\ TxnInv(r)' /\ SnapshotInv(r)'
  BY Types DEF LockInv, TxnInv, SnapshotInv, UnderLock, BeforeTxn, BeforeLock, NoTxn
<1>5. MailInv(r)' /\ RowInv(r)'
  BY DEF TxnInv, MailInv, RowInv, Fits, BeforeTxn, BeforeLock, NoTxn, None
<1>6. TruthInv(r)'
  BY DEF TxnInv, RowInv, TruthInv, None
<1> QED BY <1>1, <1>2, <1>4, <1>5, <1>6, OwnStep

\* The REPEATABLE READ transaction: nothing was open before, and the snapshot is what has been applied.
LEMMA PlanRunKeepsInv == ASSUME RunInv, NEW r \in Runs, PlanRun(r) PROVE RunInv'
<1>0. pc[r] = "plan" /\ txn[r] = NoTxn
  BY Types DEF RunInv, RunOK, TxnInv, PlanRun, Fails, Up, BeforeTxn, NoTxn
<1>1. TypeOK'
  BY Types, TypesNext, TroubleType, Members, OutcomeTypes, TxnTypes, <1>0 DEF RunInv, PlanRun, Fails, Up
<1>2. OthersStay(r) /\ applied' = applied
  BY Types DEF RunInv, PlanRun, Fails, Up, OthersStay
<1>3. /\ pc[r] = "plan" /\ session[r] /\ pc'[r] \in {"planned", "fail"}
      /\ txn'[r] = [NoTxn EXCEPT !.open = TRUE] /\ snapshot'[r] = applied
      /\ UNCHANGED <<opts, session, lock, row, mailed, applied>>
  BY Types, <1>0 DEF RunInv, PlanRun, Fails, Up
<1> USE <1>3 DEF RunInv, RunOK
<1>4. LockInv(r)' /\ TxnInv(r)' /\ SnapshotInv(r)'
  BY Types DEF LockInv, TxnInv, SnapshotInv, UnderLock, BeforeTxn, BeforeLock, NoTxn, None
<1>5. MailInv(r)' /\ RowInv(r)'
  BY DEF TxnInv, MailInv, RowInv, Fits, BeforeTxn, BeforeLock, NoTxn, None
<1>6. TruthInv(r)'
  BY DEF TxnInv, RowInv, TruthInv, None
<1> QED BY <1>1, <1>2, <1>4, <1>5, <1>6, OwnStep

\* A run that applies nothing goes on without its transaction.
LEMMA RollBackKeepsInv == ASSUME RunInv, NEW r \in Runs, RollBack(r) PROVE RunInv'
<1>1. TypeOK'
  BY Types, TypesNext, TroubleType, Members, NoTxnType DEF RunInv, RollBack, Up
<1>2. OthersStay(r) /\ applied' = applied
  BY Types DEF RunInv, RollBack, Up, OthersStay
<1>3. /\ pc[r] = "planned" /\ pc'[r] = "record" /\ txn'[r] = NoTxn /\ session[r]
      /\ UNCHANGED <<opts, session, lock, row, mailed, applied, snapshot, outcome>>
  BY Types DEF RunInv, RollBack, Up
<1> USE <1>3 DEF RunInv, RunOK
<1>4. LockInv(r)' /\ TxnInv(r)' /\ SnapshotInv(r)'
  BY Types DEF LockInv, TxnInv, SnapshotInv, UnderLock, BeforeTxn, BeforeLock, NoTxn, None
<1>5. MailInv(r)' /\ RowInv(r)'
  BY DEF TxnInv, MailInv, RowInv, Fits, BeforeTxn, BeforeLock, NoTxn, None
<1>6. TruthInv(r)'
  BY DEF TxnInv, RowInv, TruthInv, None
<1> QED BY <1>1, <1>2, <1>4, <1>5, <1>6, OwnStep

\* apply_and_stage: the plan is still that of its snapshot, and the mail is that of an applied run.
LEMMA ApplyKeepsInv == ASSUME RunInv, NEW r \in Runs, Apply(r) PROVE RunInv'
<1>0. txn[r] \in Transactions /\ txn[r].mail = {} /\ ~txn[r].sent
  BY Types DEF RunInv, RunOK, TxnInv, Apply, Fails, Up, BeforeTxn, NoTxn
<1>1. TypeOK'
  BY Types, TypesNext, TroubleType, Members, NoTxnType, AppliedType, <1>0 DEF RunInv, Apply, Fails, Up
<1>2. OthersStay(r) /\ applied' = applied
  BY Types DEF RunInv, Apply, Fails, Up, OthersStay
<1>3. /\ pc[r] = "planned" /\ session[r] /\ outcome[r] \notin Aborts
      /\ \/ pc'[r] = "fail" /\ txn'[r] = NoTxn
         \/ /\ pc'[r] = "commit" /\ txn'[r].open /\ txn'[r].result = "applied" /\ ~txn'[r].sent
            /\ IF opts[r].seed THEN txn'[r].mail = {"seed_summary"}
                              ELSE txn'[r].mail \subseteq {"review_item"}
      /\ UNCHANGED <<opts, session, lock, row, mailed, applied, snapshot, outcome>>
  BY Types, AppliedType, <1>0 DEF RunInv, Apply, Fails, Up, Aborts
<1> USE <1>3 DEF RunInv, RunOK
<1>4. LockInv(r)' /\ TxnInv(r)' /\ SnapshotInv(r)'
  BY Types DEF LockInv, TxnInv, SnapshotInv, UnderLock, BeforeTxn, BeforeLock, NoTxn, None
<1>5. MailInv(r)' /\ RowInv(r)'
  BY DEF TxnInv, MailInv, RowInv, Fits, BeforeTxn, BeforeLock, NoTxn, None
<1>6. TruthInv(r)'
  BY DEF TxnInv, RowInv, TruthInv, None
<1> QED BY <1>1, <1>2, <1>4, <1>5, <1>6, OwnStep

\* The outcome of a run that applied nothing, in a transaction of its own.
LEMMA RecordKeepsInv == ASSUME RunInv, NEW r \in Runs, Record(r) PROVE RunInv'
<1>0. pc[r] = "record" /\ txn[r] = NoTxn
  BY Types DEF RunInv, RunOK, TxnInv, Record, Fails, Up, BeforeTxn, NoTxn
<1>1. TypeOK'
  BY Types, TypesNext, TroubleType, Members, RecordTypes, <1>0 DEF RunInv, Record, Fails, Up
<1>2. OthersStay(r) /\ applied' = applied
  BY Types DEF RunInv, Record, Fails, Up, OthersStay
<1>3. /\ pc[r] = "record" /\ session[r]
      /\ \/ pc'[r] = "fail" /\ txn'[r] = txn[r]
         \/ /\ pc'[r] = "commit" /\ txn'[r].open /\ ~txn'[r].sent
            /\ IF outcome[r] \in Aborts /\ ~opts[r].dry
               THEN txn'[r].result = "aborted" /\ txn'[r].mail = {"sync_aborted"}
               ELSE txn'[r].result = "no_change" /\ txn'[r].mail = {}
      /\ UNCHANGED <<opts, session, lock, row, mailed, applied, snapshot, outcome>>
  BY Types, RecordTypes, <1>0 DEF RunInv, Record, Fails, Up
<1> USE <1>3 DEF RunInv, RunOK
<1>4. LockInv(r)' /\ TxnInv(r)' /\ SnapshotInv(r)'
  BY Types DEF LockInv, TxnInv, SnapshotInv, UnderLock, BeforeTxn, BeforeLock, NoTxn, None
<1>5. MailInv(r)' /\ RowInv(r)'
  BY DEF TxnInv, MailInv, RowInv, Fits, BeforeTxn, BeforeLock, NoTxn, None
<1>6. TruthInv(r)'
  BY DEF TxnInv, RowInv, TruthInv, None
<1> QED BY <1>1, <1>2, <1>4, <1>5, <1>6, OwnStep

\* COMMIT is sent: from here the transaction may take effect whatever becomes of the run.
LEMMA SendCommitKeepsInv == ASSUME RunInv, NEW r \in Runs, SendCommit(r) PROVE RunInv'
<1>1. TypeOK'
  BY Types, TypesNext, TroubleType, Members, TxnTypes DEF RunInv, SendCommit, Up
<1>2. OthersStay(r) /\ applied' = applied
  BY Types DEF RunInv, SendCommit, Up, OthersStay
<1>3. /\ pc[r] = "commit" /\ pc'[r] = "await" /\ session[r]
      /\ txn'[r].sent /\ txn'[r].open /\ txn[r].open
      /\ txn'[r].result = txn[r].result /\ txn'[r].mail = txn[r].mail
      /\ UNCHANGED <<opts, session, lock, row, mailed, applied, snapshot, outcome>>
  BY Types DEF RunInv, SendCommit, Up, RunOK, TxnInv, Transactions
<1> USE <1>3 DEF RunInv, RunOK
<1>4. LockInv(r)' /\ TxnInv(r)' /\ SnapshotInv(r)'
  BY Types DEF LockInv, TxnInv, SnapshotInv, UnderLock, BeforeTxn, BeforeLock, NoTxn, None, RowInv, Fits
<1>5. MailInv(r)' /\ RowInv(r)'
  BY DEF TxnInv, MailInv, RowInv, Fits, BeforeTxn, BeforeLock, NoTxn, None
<1>6. TruthInv(r)'
  BY DEF TxnInv, RowInv, TruthInv, None
<1> QED BY <1>1, <1>2, <1>4, <1>5, <1>6, OwnStep

\* The server's answer: the transaction is over, and the row says so.
LEMMA CommittedKeepsInv == ASSUME RunInv, NEW r \in Runs, Committed(r) PROVE RunInv'
<1>1. TypeOK'
  BY Types, TypesNext, TroubleType, Members DEF RunInv, Committed, Leave, Up
<1>2. OthersStay(r) /\ applied' = applied
  BY Types DEF RunInv, Committed, Leave, Up, OthersStay
<1>3. /\ pc[r] = "await" /\ session[r] /\ ~txn[r].open
      /\ pc'[r] = IF outcome[r] \in Aborts THEN "aborted" ELSE "done"
      /\ UNCHANGED <<opts, session, lock, txn, row, mailed, applied, snapshot, outcome>>
  BY Types DEF RunInv, Committed, Leave, Up
<1> USE <1>3 DEF RunInv, RunOK
<1>4. LockInv(r)' /\ TxnInv(r)' /\ SnapshotInv(r)'
  BY Types DEF LockInv, TxnInv, SnapshotInv, UnderLock, BeforeTxn, BeforeLock, NoTxn, None
<1>5. MailInv(r)' /\ RowInv(r)'
  BY DEF TxnInv, MailInv, RowInv, Fits, BeforeTxn, BeforeLock, NoTxn, None
<1>6. TruthInv(r)'
  BY DEF TxnInv, RowInv, TruthInv, None, Fits
<1> QED BY <1>1, <1>2, <1>4, <1>5, <1>6, OwnStep

\* A connection that breaks changes nothing on the server.
LEMMA BreakKeepsInv == ASSUME RunInv, NEW r \in Runs, Break(r) PROVE RunInv'
<1>1. TypeOK'
  BY Types, TypesNext, TroubleType, Members DEF RunInv, Break
<1>2. OthersStay(r) /\ applied' = applied
  BY Types DEF RunInv, Break, OthersStay
<1>3. UNCHANGED <<pc, opts, session, lock, txn, row, mailed, applied, snapshot, outcome>>
  BY Types DEF RunInv, Break
<1> USE <1>3 DEF RunInv, RunOK
<1>4. LockInv(r)' /\ TxnInv(r)' /\ SnapshotInv(r)'
  BY Types DEF LockInv, TxnInv, SnapshotInv, UnderLock, BeforeTxn, BeforeLock, NoTxn, None
<1>5. MailInv(r)' /\ RowInv(r)'
  BY DEF TxnInv, MailInv, RowInv, Fits, BeforeTxn, BeforeLock, NoTxn, None
<1>6. TruthInv(r)'
  BY DEF TxnInv, RowInv, TruthInv, None
<1> QED BY <1>1, <1>2, <1>4, <1>5, <1>6, OwnStep

\* A run that finds its connection broken leaves its transaction to the server.
LEMMA NoticeBrokenKeepsInv == ASSUME RunInv, NEW r \in Runs, NoticeBroken(r) PROVE RunInv'
<1>1. TypeOK'
  BY Types, TypesNext, TroubleType, Members DEF RunInv, NoticeBroken, Leave, Fails
<1>2. OthersStay(r) /\ applied' = applied
  BY Types DEF RunInv, NoticeBroken, Leave, Fails, OthersStay
<1>3. /\ \/ pc[r] \in {"lock", "check", "insert"} /\ pc'[r] = "failed"
         \/ pc[r] \in UnderLock /\ pc'[r] = "fail"
      /\ UNCHANGED <<opts, session, lock, txn, row, mailed, applied, snapshot, outcome>>
  BY Types DEF RunInv, NoticeBroken, Leave, Fails, UnderLock
<1> USE <1>3 DEF RunInv, RunOK
<1>4. LockInv(r)' /\ TxnInv(r)' /\ SnapshotInv(r)'
  BY Types DEF LockInv, TxnInv, SnapshotInv, UnderLock, BeforeTxn, BeforeLock, NoTxn, None
<1>5. MailInv(r)' /\ RowInv(r)'
  BY DEF TxnInv, MailInv, RowInv, Fits, BeforeTxn, BeforeLock, NoTxn, None
<1>6. TruthInv(r)'
  BY DEF TxnInv, RowInv, TruthInv, None
<1> QED BY <1>1, <1>2, <1>4, <1>5, <1>6, OwnStep

\* finish on a fresh connection: only an unfinished row that no transaction holds.
LEMMA RecordFailureKeepsInv == ASSUME RunInv, NEW r \in Runs, RecordFailure(r) PROVE RunInv'
<1>1. TypeOK'
  BY Types, TypesNext, TroubleType, Members DEF RunInv, RecordFailure, Leave, RowLocked
<1>2. OthersStay(r) /\ applied' = applied
  BY Types DEF RunInv, RecordFailure, Leave, RowLocked, OthersStay
<1>3. /\ pc[r] = "fail" /\ pc'[r] = "failed"
      /\ row'[r] = IF row[r] = "unfinished" THEN "failed" ELSE row[r]
      /\ txn[r].open => txn[r].result = None
      /\ UNCHANGED <<opts, session, lock, txn, mailed, applied, snapshot, outcome>>
  BY Types DEF RunInv, RecordFailure, Leave, RowLocked
<1> USE <1>3 DEF RunInv, RunOK
<1>4. LockInv(r)' /\ TxnInv(r)' /\ SnapshotInv(r)'
  BY Types DEF LockInv, TxnInv, SnapshotInv, UnderLock, BeforeTxn, BeforeLock, NoTxn, None
<1>5. MailInv(r)' /\ RowInv(r)'
  BY DEF TxnInv, MailInv, RowInv, Fits, BeforeTxn, BeforeLock, NoTxn, None
<1>6. TruthInv(r)'
  BY DEF TxnInv, RowInv, TruthInv, None
<1> QED BY <1>1, <1>2, <1>4, <1>5, <1>6, OwnStep

\* The failure itself goes unrecorded.
LEMMA RecordingFailsKeepsInv == ASSUME RunInv, NEW r \in Runs, RecordingFails(r) PROVE RunInv'
<1>1. TypeOK'
  BY Types, TypesNext, TroubleType, Members DEF RunInv, RecordingFails, Leave
<1>2. OthersStay(r) /\ applied' = applied
  BY Types DEF RunInv, RecordingFails, Leave, OthersStay
<1>3. /\ pc[r] = "fail" /\ pc'[r] = "failed"
      /\ UNCHANGED <<opts, session, lock, txn, row, mailed, applied, snapshot, outcome>>
  BY Types DEF RunInv, RecordingFails, Leave
<1> USE <1>3 DEF RunInv, RunOK
<1>4. LockInv(r)' /\ TxnInv(r)' /\ SnapshotInv(r)'
  BY Types DEF LockInv, TxnInv, SnapshotInv, UnderLock, BeforeTxn, BeforeLock, NoTxn, None
<1>5. MailInv(r)' /\ RowInv(r)'
  BY DEF TxnInv, MailInv, RowInv, Fits, BeforeTxn, BeforeLock, NoTxn, None
<1>6. TruthInv(r)'
  BY DEF TxnInv, RowInv, TruthInv, None
<1> QED BY <1>1, <1>2, <1>4, <1>5, <1>6, OwnStep

\* A killed process leaves everything as the server has it.
LEMMA KillKeepsInv == ASSUME RunInv, NEW r \in Runs, Kill(r) PROVE RunInv'
<1>1. TypeOK'
  BY Types, TypesNext, TroubleType, Members DEF RunInv, Kill, Leave
<1>2. OthersStay(r) /\ applied' = applied
  BY Types DEF RunInv, Kill, Leave, OthersStay
<1>3. /\ pc'[r] = "killed"
      /\ UNCHANGED <<opts, session, lock, txn, row, mailed, applied, snapshot, outcome>>
  BY Types DEF RunInv, Kill, Leave
<1> USE <1>3 DEF RunInv, RunOK
<1>4. LockInv(r)' /\ TxnInv(r)' /\ SnapshotInv(r)'
  BY Types DEF LockInv, TxnInv, SnapshotInv, UnderLock, BeforeTxn, BeforeLock, NoTxn, None
<1>5. MailInv(r)' /\ RowInv(r)'
  BY DEF TxnInv, MailInv, RowInv, Fits, BeforeTxn, BeforeLock, NoTxn, None
<1>6. TruthInv(r)'
  BY DEF TxnInv, RowInv, TruthInv, None
<1> QED BY <1>1, <1>2, <1>4, <1>5, <1>6, OwnStep

\* A session's end frees its lock and rolls its transaction back together.
LEMMA SessionEndsKeepsInv == ASSUME RunInv, NEW r \in Runs, SessionEnds(r) PROVE RunInv'
<1>1. TypeOK'
  BY Types, TypesNext, TroubleType, Members, NoTxnType, RunAssumption DEF RunInv, SessionEnds
<1>2. OthersStay(r) /\ applied' = applied
  BY Types DEF RunInv, SessionEnds, OthersStay
<1>3. /\ ~session'[r] /\ txn'[r] = NoTxn
      /\ UNCHANGED <<pc, opts, row, mailed, applied, snapshot, outcome>>
  BY Types DEF RunInv, SessionEnds
<1> USE <1>3 DEF RunInv, RunOK
<1>4. LockInv(r)' /\ TxnInv(r)' /\ SnapshotInv(r)'
  BY Types DEF LockInv, TxnInv, SnapshotInv, UnderLock, BeforeTxn, BeforeLock, NoTxn, None
<1>5. MailInv(r)' /\ RowInv(r)'
  BY DEF TxnInv, MailInv, RowInv, Fits, BeforeTxn, BeforeLock, NoTxn, None
<1>6. TruthInv(r)'
  BY DEF TxnInv, RowInv, TruthInv, None
<1> QED BY <1>1, <1>2, <1>4, <1>5, <1>6, OwnStep

\* What an appended run adds to those in the register.
LEMMA AppendedSet ==
  ASSUME NEW s \in Seq(Runs), NEW r \in Runs
  PROVE  ToSet(Append(s, r)) = ToSet(s) \cup {r}
<1>1. /\ DOMAIN s = 1 .. Len(s) /\ Len(s) \in Nat
      /\ DOMAIN Append(s, r) = 1 .. Len(s) + 1
      /\ \A i \in 1 .. Len(s) : Append(s, r)[i] = s[i]
      /\ Append(s, r)[Len(s) + 1] = r
  BY AppendProperties, LenProperties
<1>2. 1 .. Len(s) + 1 = (1 .. Len(s)) \cup {Len(s) + 1}
  BY <1>1
<1> QED BY <1>1, <1>2 DEF ToSet

\* The server commits: the row, the register and the mail change together, and no other run
\* has a plan that could still commit, since the session that commits holds the lock.
LEMMA ServerCommitsKeepsInv == ASSUME RunInv, NEW r \in Runs, ServerCommits(r) PROVE RunInv'
<1> USE DEF RunInv
<1>0. /\ session[r] /\ txn[r].open /\ txn[r].sent /\ txn[r] \in Transactions
      /\ txn[r].result \in Results /\ lock = r /\ row[r] = "unfinished"
  <2>1. /\ session[r] /\ txn[r].open /\ txn[r].sent /\ txn[r] \in Transactions
        /\ RunOK(r)
    BY Types DEF ServerCommits
  <2>2. txn[r].result \in Results \cup {None}
    BY <2>1 DEF Transactions
  <2> QED BY <2>1, <2>2 DEF RunOK, LockInv, TxnInv, RowInv
<1>1. /\ txn'[r] = NoTxn /\ row'[r] = txn[r].result
      /\ mailed'[r] = mailed[r] \cup txn[r].mail
      /\ applied' = IF txn[r].result = "applied" THEN Append(applied, r) ELSE applied
      /\ \A q \in Runs \ {r} : txn'[q] = txn[q] /\ row'[q] = row[q] /\ mailed'[q] = mailed[q]
      /\ UNCHANGED <<pc, opts, session, lock, snapshot, outcome>>
  BY Types DEF ServerCommits
<1>2. TypeOK'
  <2>1. applied' \in Logs
    BY <1>1, Types, AppendProperties DEF Logs
  <2>2. txn[r].mail \subseteq Mails
    BY <1>0 DEF Transactions
  <2>3. txn' \in [Runs -> Transactions] /\ row' \in [Runs -> Rows]
    BY <1>0, Types, NoTxnType, Members DEF ServerCommits
  <2>4. mailed' \in [Runs -> SUBSET Mails]
    BY <2>2, Types DEF ServerCommits
  <2> QED BY <1>1, <2>1, <2>3, <2>4, Types, TypesNext DEF ServerCommits
<1>3. ToSet(applied') = IF txn[r].result = "applied" THEN ToSet(applied) \cup {r} ELSE ToSet(applied)
  BY <1>1, Types, AppendedSet DEF Logs
<1>4. RunOK(r)'
  <2> USE <1>0, <1>1 DEF RunOK
  <2>1. pc[r] \notin BeforeTxn \cup {"record", "done", "aborted", "planned", "commit"}
    BY DEF TxnInv, NoTxn, None, Results
  <2>2. LockInv(r)' /\ TxnInv(r)' /\ SnapshotInv(r)'
    BY <2>1 DEF LockInv, TxnInv, SnapshotInv, UnderLock, NoTxn, None
  <2>3. MailInv(r)' /\ RowInv(r)'
    BY <2>1 DEF MailInv, RowInv, Fits, BeforeTxn, BeforeLock, NoTxn, None
  <2>4. TruthInv(r)'
    BY <2>1, <1>3 DEF TruthInv, MailInv, None, Results
  <2> QED BY <2>2, <2>3, <2>4
<1>5. ASSUME NEW q \in Runs, q # r PROVE RunOK(q)'
  <2> USE <1>0, <1>1, <1>5 DEF RunOK
  <2>1. txn[q] = NoTxn /\ ~(pc[q] \in UnderLock /\ session[q])
    BY DEF LockInv, TxnInv
  <2>2. LockInv(q)' /\ TxnInv(q)' /\ SnapshotInv(q)'
    BY <2>1 DEF LockInv, TxnInv, SnapshotInv, UnderLock, NoTxn, None
  <2>3. MailInv(q)' /\ RowInv(q)'
    BY DEF MailInv, RowInv, Fits
  <2>4. TruthInv(q)'
    BY <1>3 DEF TruthInv
  <2> QED BY <2>2, <2>3, <2>4
<1> QED BY <1>2, <1>4, <1>5

\* Whatever else happens leaves a run's own state alone.
LEMMA RunStays ==
  ASSUME RunInv, UNCHANGED runVars, trouble' \in 0 .. MaxTrouble
  PROVE  RunInv'
<1>1. TypeOK'
  BY Types, TypesNext DEF RunInv, runVars
<1> SUFFICES ASSUME NEW q \in Runs PROVE RunOK(q)'
  BY <1>1 DEF RunInv
<1>2. LockInv(q)' /\ TxnInv(q)' /\ SnapshotInv(q)'
  BY DEF RunInv, RunOK, runVars, LockInv, TxnInv, SnapshotInv
<1>3. MailInv(q)' /\ RowInv(q)' /\ TruthInv(q)'
  BY DEF RunInv, RunOK, runVars, MailInv, RowInv, TruthInv, Fits
<1> QED BY <1>2, <1>3 DEF RunOK

\* The steps of the fetching count their troubles.
LEMMA FetchTrouble ==
  ASSUME trouble \in 0 .. MaxTrouble, NEW r, NEW seed, NEW held, FetchStep(r, seed, held)
  PROVE  trouble' \in 0 .. MaxTrouble
BY TroubleType
DEF FetchStep, Answered, Retried, GivenUp, PageRead, PageEmpty, WorkerTakes, WorkerGets,
    WorkerRetries, WorkerFails, WorkerPanics, JoinPanicked, JoinAll

\* No run has begun.
LEMMA InitRunInv == Init => RunInv
<1> SUFFICES ASSUME Init PROVE RunInv
  OBVIOUS
<1>1. TypeOK
  <2>1. NoOptions \in Options /\ <<>> \in Logs /\ None \in Verdicts /\ "start" \in Steps
    BY EmptySeq, Members DEF NoOptions, Options, Logs, Verdicts
  <2> QED BY <2>1, NoTxnType, Members, SourcesAssumption, Types DEF Init, FetchInit
<1>2. ToSet(applied) = {}
  BY DEF Init, ToSet
<1> SUFFICES ASSUME NEW r \in Runs PROVE RunOK(r)
  BY <1>1 DEF RunInv
<1>3. LockInv(r) /\ TxnInv(r) /\ SnapshotInv(r)
  BY DEF Init, LockInv, TxnInv, SnapshotInv, NoTxn, UnderLock, None
<1>4. MailInv(r) /\ RowInv(r) /\ TruthInv(r)
  BY <1>2 DEF Init, MailInv, RowInv, TruthInv, NoTxn, None
<1> QED BY <1>3, <1>4 DEF RunOK

\* Every step keeps what is said of the runs.
LEMMA NextRunInv == RunInv /\ [Next]_vars => RunInv'
<1> SUFFICES ASSUME RunInv, [Next]_vars PROVE RunInv'
  OBVIOUS
<1>0. trouble \in 0 .. MaxTrouble
  BY Types DEF RunInv
<1>1. ASSUME NEW r \in Runs, Step(r) PROVE RunInv'
  <2>1. CASE Connect(r) \/ TryLock(r) \/ CheckRegister(r) \/ StartRun(r) \/ SeedDate(r)
    BY <2>1, ConnectKeepsInv, TryLockKeepsInv, CheckRegisterKeepsInv, StartRunKeepsInv,
       SeedDateKeepsInv
  <2>2. CASE Fetch(r)
    BY <1>0, <2>2, FetchTrouble, RunStays DEF Fetch
  <2>3. CASE FetchEnds(r) \/ PlanRun(r) \/ RollBack(r) \/ Apply(r) \/ Record(r) \/ SendCommit(r)
    BY <2>3, FetchEndsKeepsInv, PlanRunKeepsInv, RollBackKeepsInv, ApplyKeepsInv, RecordKeepsInv,
       SendCommitKeepsInv
  <2>4. CASE Committed(r) \/ NoticeBroken(r) \/ RecordFailure(r) \/ RecordingFails(r)
    BY <2>4, CommittedKeepsInv, NoticeBrokenKeepsInv, RecordFailureKeepsInv, RecordingFailsKeepsInv
  <2> QED BY <1>1, <2>1, <2>2, <2>3, <2>4 DEF Step
<1>2. ASSUME NEW r \in Runs, Server(r) \/ Break(r) \/ Kill(r) PROVE RunInv'
  BY <1>2, ServerCommitsKeepsInv, SessionEndsKeepsInv, BreakKeepsInv, KillKeepsInv DEF Server
<1>3. CASE ListChanges /\ UNCHANGED runVars
  BY <1>0, <1>3, TroubleType, RunStays DEF ListChanges
<1>4. CASE UNCHANGED vars
  BY <1>0, <1>4, RunStays DEF vars
<1> QED BY <1>1, <1>2, <1>3, <1>4 DEF Next

-----------------------------------------------------------------------------
(* The steps of the fetching. *)

\* A step of r's fetching, while the list stays as it is.
LEMMA OwnFetch ==
  ASSUME FetchInv, NEW r \in Runs, listing' = listing, DOMAIN fetch' = Runs,
         \A q \in Runs \ {r} : fetch'[q] = fetch[q],
         fetch' = [q \in Runs |-> fetch'[q]], fetch'[r] \in FetchRow, FetchOK(fetch[r])'
  PROVE  FetchInv'
<1>1. FetchTypeOK'
  BY DEF FetchInv, FetchTypeOK
<1>2. ASSUME NEW q \in Runs \ {r} PROVE FetchOK(fetch[q])'
  BY <1>2 DEF FetchInv, FetchOK, FreshInv, ListInv, DetailInv, InDetails
<1> QED BY <1>1, <1>2 DEF FetchInv

\* A row that has not begun, or has failed, is a well-formed one.
LEMMA EmptyRow ==
  ASSUME NEW stage \in {"none", "kartverket", "source_error", "worker_panicked"}
  PROVE  [NotStarted EXCEPT !.stage = stage] \in FetchRow
<1>1. NotStarted \in FetchRow
  BY DEF NotStarted, FetchRow, Stages
<1> HIDE DEF NotStarted
<1> QED BY <1>1 DEF FetchRow, Stages

\* The same as a step: a run starts, fails or is killed.
LEMMA Emptied ==
  ASSUME FetchInv, NEW r \in Runs, listing' = listing,
         NEW stage \in {"none", "kartverket", "source_error", "worker_panicked"},
         fetch' = [fetch EXCEPT ![r] = [NotStarted EXCEPT !.stage = stage]]
  PROVE  FetchInv'
<1>1. /\ fetch'[r] = [NotStarted EXCEPT !.stage = stage]
      /\ \A q \in Runs \ {r} : fetch'[q] = fetch[q]
      /\ DOMAIN fetch' = Runs /\ fetch' = [q \in Runs |-> fetch'[q]]
  BY DEF FetchInv, FetchTypeOK
<1>2. fetch'[r] \in FetchRow
  BY <1>1, EmptyRow
<1>3. FetchOK(fetch[r])'
  <2>1. fetch'[r].stage = stage
    BY <1>1 DEF NotStarted
  <2>2. /\ fetch'[r].got = {} /\ fetch'[r].done = 0 /\ ~fetch'[r].failed
        /\ fetch'[r].worker = NotStarted.worker /\ fetch'[r].asks = NotStarted.asks
        /\ fetch'[r].page = 1 /\ fetch'[r].seen = {}
    BY <1>1 DEF NotStarted
  <2> QED BY <2>1, <2>2 DEF FetchOK, FreshInv, ListInv, DetailInv, InDetails
<1> QED BY <1>1, <1>2, <1>3, OwnFetch

\* The sources before the list, and every request tried again.
LEMMA RequestsKeepInv ==
  ASSUME FetchInv, NEW r \in Runs, NEW seed, Answered(r, seed) \/ Retried(r)
  PROVE  FetchInv'
<1> DEFINE f == fetch[r]
<1>0. f \in FetchRow /\ FetchOK(f)
  BY DEF FetchInv, FetchTypeOK
<1>1. /\ listing' = listing /\ ~InDetails(f)
      /\ \E stage \in {"kartverket", "ssb", "list"}, n \in Nat :
           /\ fetch' = [fetch EXCEPT ![r] = [f EXCEPT !.stage = stage, !.attempt = n]]
           /\ f.stage = "list" => stage = "list"
           /\ f.stage # "list" => f.page = 1
  <2>1. CASE Answered(r, seed)
    BY <1>0, <2>1 DEF Answered, InDetails, FetchOK, FreshInv
  <2>2. CASE Retried(r)
    <3>1. fetch' = [fetch EXCEPT ![r] = [f EXCEPT !.stage = f.stage, !.attempt = f.attempt + 1]]
      BY <1>0, <2>2 DEF Retried, FetchRow
    <3>2. f.attempt + 1 \in Nat
      BY <1>0 DEF FetchRow
    <3> QED BY <1>0, <2>2, <3>1, <3>2 DEF Retried, Requesting, InDetails, FetchOK, FreshInv
  <2> QED BY <2>1, <2>2
<1>2. PICK stage \in {"kartverket", "ssb", "list"}, n \in Nat :
        /\ fetch' = [fetch EXCEPT ![r] = [f EXCEPT !.stage = stage, !.attempt = n]]
        /\ f.stage = "list" => stage = "list"
        /\ f.stage # "list" => f.page = 1
  BY <1>1
<1>3. /\ fetch'[r] = [f EXCEPT !.stage = stage, !.attempt = n]
      /\ \A q \in Runs \ {r} : fetch'[q] = fetch[q]
      /\ DOMAIN fetch' = Runs /\ fetch' = [q \in Runs |-> fetch'[q]]
  BY <1>2 DEF FetchInv, FetchTypeOK
<1>4. fetch'[r] \in FetchRow
  BY ZenonT(30), <1>0, <1>3 DEF FetchRow, Stages
<1>5. FetchOK(fetch[r])'
  BY <1>0, <1>1, <1>2, <1>3 DEF FetchRow, FetchOK, FreshInv, ListInv, DetailInv, InDetails
<1> QED BY <1>1, <1>3, <1>4, <1>5, OwnFetch

\* A sequence has no more members than places.
LEMMA MembersOfSeq ==
  ASSUME NEW S, NEW s \in Seq(S)
  PROVE  IsFiniteSet(ToSet(s)) /\ Cardinality(ToSet(s)) <= Len(s) /\ ToSet(s) \subseteq S
<1>1. Len(s) \in Nat /\ DOMAIN s = 1 .. Len(s) /\ s \in [1 .. Len(s) -> S]
  BY LenProperties
<1>2. s \in Surjection(1 .. Len(s), ToSet(s))
  BY <1>1 DEF Surjection, ToSet
<1>3. ExistsSurjection(1 .. Len(s), ToSet(s))
  BY <1>2 DEF ExistsSurjection
<1> QED BY <1>1, <1>3, FS_SurjCardinalityBound, FS_NatSurjection DEF ToSet

\* A page holds units of the list.
LEMMA PageOfList ==
  ASSUME listing \in Seq(Units), NEW n \in Nat \ {0}
  PROVE  PageOf(n) \in Seq(Units) /\ ToSet(PageOf(n)) \subseteq ToSet(listing)
<1> DEFINE m == (n - 1) * PageSize + 1
           last == Min({n * PageSize, Len(listing)})
<1>1. Len(listing) \in Nat /\ DOMAIN listing = 1 .. Len(listing)
  BY LenProperties
<1>2. PageSize \in Nat \ {0}
  BY SourcesAssumption
<1>3. n - 1 \in Nat /\ n * PageSize \in Nat /\ m \in Nat \ {0}
  <2>1. \A i, j \in Nat : i * j \in Nat
    OBVIOUS
  <2> QED BY <1>2, <2>1
<1>4. last \in Int /\ last <= Len(listing)
  <2>1. \E x \in {n * PageSize, Len(listing)} : \A y \in {n * PageSize, Len(listing)} : x =< y
    BY <1>1, <1>3
  <2>2. last \in {n * PageSize, Len(listing)} /\ \A y \in {n * PageSize, Len(listing)} : last =< y
    BY <2>1 DEF Min
  <2> QED BY <1>1, <1>3, <2>2
<1> HIDE DEF m, last
<1>5. \A i \in m .. last : i \in DOMAIN listing /\ listing[i] \in ToSet(listing) /\ listing[i] \in Units
  BY <1>1, <1>3, <1>4, ElementOfSeq DEF ToSet
<1>6. SubSeq(listing, m, last) \in Seq(ToSet(listing)) /\ SubSeq(listing, m, last) \in Seq(Units)
  BY <1>3, <1>4, <1>5, SubSeqProperties
<1>7. ToSet(SubSeq(listing, m, last)) \subseteq ToSet(listing)
  BY <1>6, MembersOfSeq
<1> QED BY <1>6, <1>7 DEF PageOf, m, last

\* What a page changes of the row, and what it leaves.
SamePages(f, g) ==
  /\ g.seen = f.seen /\ g.listed = f.listed /\ g.arrived = f.arrived /\ g.got = f.got
  /\ g.done = f.done /\ g.failed = f.failed /\ g.worker = f.worker /\ g.asks = f.asks

\* The row with one more page behind it.
LEMMA OnwardRow ==
  ASSUME NEW f \in FetchRow, NEW n \in Nat \ {0, 1}
  PROVE  LET onward == [f EXCEPT !.page = n]
         IN  /\ onward \in FetchRow /\ onward.page # 1 /\ onward.total = f.total
             /\ onward.stage = f.stage /\ SamePages(f, onward)
BY DEF FetchRow, SamePages

\* The row whose details are queued.
LEMMA EndedRow ==
  ASSUME NEW f \in FetchRow, NEW wanted \in SUBSET Units
  PROVE  LET ended == [f EXCEPT !.stage = "details", !.wanted = wanted, !.queue = wanted,
                                !.page = 1, !.count = 0]
         IN  /\ ended \in FetchRow /\ ended.stage = "details" /\ ended.wanted = wanted
             /\ ended.queue = wanted /\ SamePages(f, ended)
<1> DEFINE ended == [f EXCEPT !.stage = "details", !.wanted = wanted, !.queue = wanted,
                              !.page = 1, !.count = 0]
<1>1. ended \in FetchRow
  <2> DEFINE half == [f EXCEPT !.stage = "details", !.wanted = wanted]
  <2>1. half \in FetchRow
    BY DEF FetchRow, Stages
  <2> DEFINE queued == [half EXCEPT !.queue = wanted]
  <2> HIDE DEF half
  <2>2. queued \in FetchRow
    BY <2>1 DEF FetchRow
  <2> HIDE DEF queued
  <2>3. [queued EXCEPT !.page = 1, !.count = 0] \in FetchRow
    <3> DEFINE back == [queued EXCEPT !.page = 1]
    <3>1. back \in FetchRow
      BY <2>2 DEF FetchRow
    <3> HIDE DEF back
    <3>2. [back EXCEPT !.count = 0] \in FetchRow
      BY <3>1 DEF FetchRow
    <3> QED BY <3>2 DEF back
  <2>4. ended = [queued EXCEPT !.page = 1, !.count = 0]
    BY DEF queued, half
  <2> QED BY <2>3, <2>4
<1>2. ended.stage = "details" /\ ended.wanted = wanted /\ ended.queue = wanted
  BY DEF FetchRow
<1>3. SamePages(f, ended)
  BY DEF FetchRow, SamePages
<1> QED BY <1>1, <1>2, <1>3

\* One page of the list, whole or empty.  When the pages end and nothing has arrived, what has
\* been seen is a part of what the first page listed with as many members.
LEMMA ReadPageKeepsInv ==
  ASSUME FetchInv, NEW r \in Runs, NEW held \in SUBSET Units, NEW rows,
         rows \in Seq(Units), ToSet(rows) \subseteq ToSet(listing), ReadPage(r, held, rows)
  PROVE  FetchInv'
<1> DEFINE f == fetch[r]
           first == f.page = 1
           count == IF first THEN PageCount ELSE f.count
           total == IF first THEN Len(listing) ELSE f.total
           listed == IF first THEN ToSet(listing) ELSE f.listed
           seen == f.seen \cup ToSet(rows)
           wanted == (seen \cap Primary) \cup (seen \cap held)
           read == [f EXCEPT !.count = count, !.total = total, !.seen = seen, !.attempt = 1,
                             !.listed = listed]
           ended == [read EXCEPT !.stage = "details", !.wanted = wanted,
                                 !.queue = wanted, !.page = 1, !.count = 0]
           onward == [read EXCEPT !.page = f.page + 1]
<1>0. f \in FetchRow /\ FetchOK(f) /\ f.stage = "list" /\ listing' = listing
  BY DEF FetchInv, FetchTypeOK, ReadPage
<1>1. \/ fetch' = [fetch EXCEPT ![r] = Fail("source_error")]
      \/ fetch' = [fetch EXCEPT ![r] = ended] /\ Cardinality(seen) = total
      \/ fetch' = [fetch EXCEPT ![r] = onward]
  BY DEF ReadPage, FinishedPaging
<1>2. CASE fetch' = [fetch EXCEPT ![r] = Fail("source_error")]
  BY <1>0, <1>2, Emptied DEF Fail
<1>3. Len(listing) \in Nat /\ IsFiniteSet(ToSet(listing)) /\ ToSet(listing) \subseteq Units
      /\ Cardinality(ToSet(listing)) <= Len(listing)
  BY MembersOfSeq, LenProperties DEF FetchInv, FetchTypeOK
<1>4. count \in Nat /\ total \in Nat /\ seen \subseteq Units /\ listed \subseteq Units
      /\ wanted \subseteq Units
  <2>1. PageCount \in Nat
    <3>1. \A i \in Nat, j \in Nat \ {0} : i \div j \in Nat
      OBVIOUS
    <3>2. Len(listing) + PageSize - 1 \in Nat /\ PageSize \in Nat \ {0}
      BY <1>3, SourcesAssumption
    <3> QED BY <3>1, <3>2 DEF PageCount
  <2> QED BY <1>0, <1>3, <2>1 DEF FetchRow
<1>5. ~f.arrived => IsFiniteSet(listed) /\ Cardinality(listed) <= total
                    /\ seen \cup ToSet(listing) \subseteq listed
  BY <1>0, <1>3 DEF FetchOK, FreshInv, ListInv, InDetails
<1>6. read \in FetchRow /\ read.seen = seen /\ read.listed = listed /\ read.total = total
      /\ read.arrived = f.arrived /\ read.got = f.got /\ read.done = f.done
      /\ read.failed = f.failed /\ read.worker = f.worker /\ read.asks = f.asks
      /\ read.page = f.page /\ read.stage = "list"
  BY <1>0, <1>4 DEF FetchRow
<1>7. CASE fetch' = [fetch EXCEPT ![r] = onward]
  <2> HIDE DEF read, wanted
  <2>1. /\ onward \in FetchRow /\ onward.page # 1
        /\ onward.seen = seen /\ onward.listed = listed /\ onward.total = total
        /\ onward.arrived = f.arrived /\ onward.got = f.got /\ onward.done = f.done
        /\ onward.failed = f.failed /\ onward.worker = f.worker /\ onward.asks = f.asks
        /\ onward.stage = "list"
    <3>1. f.page + 1 \in Nat \ {0, 1}
      BY <1>0 DEF FetchRow
    <3> QED BY <1>6, <3>1, OnwardRow DEF SamePages
  <2> HIDE DEF onward
  <2>2. /\ fetch'[r] = onward /\ \A q \in Runs \ {r} : fetch'[q] = fetch[q]
        /\ DOMAIN fetch' = Runs /\ fetch' = [q \in Runs |-> fetch'[q]]
    BY <1>7 DEF FetchInv, FetchTypeOK
  <2>3. FetchOK(fetch[r])'
    BY <1>0, <1>5, <2>1, <2>2 DEF FetchOK, FreshInv, ListInv, DetailInv, InDetails
  <2> QED BY <1>0, <2>1, <2>2, <2>3, OwnFetch
<1>8. CASE fetch' = [fetch EXCEPT ![r] = ended] /\ Cardinality(seen) = total
  <2> HIDE DEF read, wanted
  <2>1. /\ ended \in FetchRow
        /\ ended.seen = seen /\ ended.listed = listed
        /\ ended.arrived = f.arrived /\ ended.got = f.got /\ ended.done = f.done
        /\ ended.failed = f.failed /\ ended.worker = f.worker /\ ended.asks = f.asks
        /\ ended.stage = "details" /\ ended.wanted = wanted /\ ended.queue = wanted
    <3>1. wanted \in SUBSET Units /\ read \in FetchRow
      BY <1>4, <1>6
    <3>2. /\ ended \in FetchRow /\ ended.stage = "details" /\ ended.wanted = wanted
          /\ ended.queue = wanted /\ SamePages(read, ended)
      BY ONLY <3>1, EndedRow
    <3> HIDE DEF ended
    <3> QED BY <1>6, <3>2 DEF SamePages
  <2> HIDE DEF ended
  <2>2. /\ fetch'[r] = ended /\ \A q \in Runs \ {r} : fetch'[q] = fetch[q]
        /\ DOMAIN fetch' = Runs /\ fetch' = [q \in Runs |-> fetch'[q]]
    BY <1>8 DEF FetchInv, FetchTypeOK
  <2>3. ~f.arrived => listed = seen
    <3>1. SUFFICES ASSUME ~f.arrived PROVE listed = seen
      OBVIOUS
    <3>2. IsFiniteSet(listed) /\ seen \in SUBSET listed /\ Cardinality(listed) <= Cardinality(seen)
      BY <1>5, <1>8, <3>1
    <3> HIDE DEF listed, seen
    <3>3. Cardinality(seen) <= Cardinality(listed) /\ Cardinality(listed) \in Nat
          /\ Cardinality(seen) \in Nat
      BY <3>2, FS_Subset, FS_CardinalityType
    <3>4. Cardinality(listed) = Cardinality(seen)
      BY <3>2, <3>3
    <3> QED BY <3>2, <3>4, FS_Subset
  <2>4. /\ f.got = {} /\ f.done = 0 /\ ~f.failed /\ f.worker = [w \in Workers |-> "take"]
        /\ f.asks = [w \in Workers |-> {}]
    BY <1>0 DEF FetchOK, FreshInv, InDetails, NotStarted
  <2>5. FetchOK(fetch[r])'
    <3>1. FreshInv(fetch[r])' /\ ListInv(fetch[r])'
      BY <2>1, <2>2, <2>3 DEF FreshInv, ListInv, InDetails
    <3>2. DetailInv(fetch[r])'
      BY <2>1, <2>2, <2>4, FS_EmptySet DEF DetailInv, InDetails
    <3> QED BY <3>1, <3>2 DEF FetchOK
  <2> QED BY <1>0, <2>1, <2>2, <2>5, OwnFetch
<1> QED BY <1>1, <1>2, <1>7, <1>8

\* What a worker's step changes of the row.
SameButWork(f, g) ==
  /\ g.stage = f.stage /\ g.seen = f.seen /\ g.listed = f.listed /\ g.arrived = f.arrived
  /\ g.total = f.total /\ g.page = f.page /\ g.wanted = f.wanted

\* One field at a time, a worker's step keeps the row well-formed.
LEMMA WorkRows ==
  ASSUME NEW f \in FetchRow, NEW w \in Workers
  PROVE  /\ \A step \in {"take", "get"} \cup Ended : [f EXCEPT !.worker[w] = step] \in FetchRow
         /\ \A units \in SUBSET Units : /\ [f EXCEPT !.asks[w] = units] \in FetchRow
                                       /\ [f EXCEPT !.queue = units] \in FetchRow
                                       /\ [f EXCEPT !.got = units] \in FetchRow
         /\ \A n \in Nat : /\ [f EXCEPT !.tried[w] = n] \in FetchRow
                           /\ [f EXCEPT !.done = n] \in FetchRow
         /\ [f EXCEPT !.failed = TRUE] \in FetchRow
<1>1. \A step \in {"take", "get"} \cup Ended : [f EXCEPT !.worker[w] = step] \in FetchRow
  BY DEF FetchRow
<1>2. \A units \in SUBSET Units : [f EXCEPT !.asks[w] = units] \in FetchRow
  BY DEF FetchRow
<1>3. \A units \in SUBSET Units : /\ [f EXCEPT !.queue = units] \in FetchRow
                               /\ [f EXCEPT !.got = units] \in FetchRow
  BY DEF FetchRow
<1>4. \A n \in Nat : [f EXCEPT !.tried[w] = n] \in FetchRow
  BY DEF FetchRow
<1>5. \A n \in Nat : [f EXCEPT !.done = n] \in FetchRow
  BY DEF FetchRow
<1>6. [f EXCEPT !.failed = TRUE] \in FetchRow
  BY DEF FetchRow
<1> QED BY <1>1, <1>2, <1>3, <1>4, <1>5, <1>6

\* A step of the detail pass leaves what was read of the list alone.
LEMMA WorkStep ==
  ASSUME FetchInv, NEW r \in Runs, listing' = listing, InDetails(fetch[r]),
         fetch' = [fetch EXCEPT ![r] = fetch'[r]], fetch'[r] \in FetchRow,
         SameButWork(fetch[r], fetch'[r]), DetailInv(fetch[r])'
  PROVE  FetchInv'
<1>1. /\ \A q \in Runs \ {r} : fetch'[q] = fetch[q]
      /\ DOMAIN fetch' = Runs /\ fetch' = [q \in Runs |-> fetch'[q]]
  BY DEF FetchInv, FetchTypeOK
<1>2. FetchOK(fetch[r])'
  BY DEF FetchInv, FetchOK, FreshInv, ListInv, SameButWork, InDetails
<1> QED BY <1>1, <1>2, OwnFetch

\* A worker goes home, or takes the next orgnr: one that nobody else has.
LEMMA WorkerTakesKeepsInv ==
  ASSUME FetchInv, NEW r \in Runs, NEW w \in Workers, WorkerTakes(r, w)
  PROVE  FetchInv'
<1> DEFINE f == fetch[r]
           next == CHOOSE u \in f.queue : TRUE
<1>0. /\ f \in FetchRow /\ DetailInv(f) /\ f.stage = "details" /\ f.worker[w] = "take"
      /\ listing' = listing /\ f.queue \subseteq Units
      /\ f.worker \in [Workers -> {"take", "get"} \cup Ended] /\ f.asks \in [Workers -> SUBSET Units]
  BY DEF FetchInv, FetchTypeOK, FetchOK, WorkerTakes, At, FetchRow
<1>1. CASE f.queue = {} \/ f.failed
  <2>1. fetch' = [fetch EXCEPT ![r] = [f EXCEPT !.worker[w] = "returned"]]
    BY <1>1 DEF WorkerTakes
  <2>2. fetch'[r] = [f EXCEPT !.worker[w] = "returned"]
    BY <2>1 DEF FetchInv, FetchTypeOK
  <2>3. fetch'[r] \in FetchRow
    <3>1. "returned" \in {"take", "get"} \cup Ended
      BY DEF Ended
    <3>2. [f EXCEPT !.worker[w] = "returned"] \in FetchRow
      BY <1>0, <3>1, WorkRows
    <3> QED BY <2>2, <3>2
  <2>4. /\ fetch'[r].worker = [f.worker EXCEPT ![w] = "returned"] /\ SameButWork(f, fetch'[r])
        /\ fetch'[r].asks = f.asks /\ fetch'[r].queue = f.queue /\ fetch'[r].got = f.got
        /\ fetch'[r].failed = f.failed /\ fetch'[r].done = f.done
    BY <1>0, <2>2 DEF FetchRow, SameButWork
  <2>5. DetailInv(fetch[r])'
    BY <1>0, <1>1, <2>4 DEF DetailInv, InDetails, SameButWork
  <2> QED BY <1>0, <2>1, <2>2, <2>3, <2>4, <2>5, WorkStep DEF InDetails
<1>2. CASE ~(f.queue = {} \/ f.failed)
  <2>0. next \in f.queue
    BY <1>2
  <2>1. fetch' = [fetch EXCEPT ![r] =
          [f EXCEPT !.worker[w] = "get", !.asks[w] = {next}, !.queue = f.queue \ {next}]]
    BY <1>2 DEF WorkerTakes
  <2> HIDE DEF next
  <2>2. fetch'[r] = [f EXCEPT !.worker[w] = "get", !.asks[w] = {next}, !.queue = f.queue \ {next}]
    BY <2>1 DEF FetchInv, FetchTypeOK
  <2>3. fetch'[r] \in FetchRow
    <3> DEFINE a == [f EXCEPT !.worker[w] = "get"]
               b == [a EXCEPT !.asks[w] = {next}]
               c == [b EXCEPT !.queue = f.queue \ {next}]
    <3>1. a \in FetchRow
      BY <1>0, WorkRows
    <3>2. fetch'[r] = c
      BY <1>0, <2>2 DEF FetchRow
    <3> HIDE DEF a
    <3>3. {next} \in SUBSET Units /\ f.queue \ {next} \in SUBSET Units
      BY <1>0, <2>0
    <3>4. b \in FetchRow
      BY <3>1, <3>3, WorkRows
    <3> HIDE DEF b
    <3>5. c \in FetchRow
      BY <3>3, <3>4, WorkRows
    <3> QED BY <3>2, <3>5
  <2>4. /\ fetch'[r].worker = [f.worker EXCEPT ![w] = "get"] /\ SameButWork(f, fetch'[r])
        /\ fetch'[r].asks = [f.asks EXCEPT ![w] = {next}]
        /\ fetch'[r].queue = f.queue \ {next} /\ fetch'[r].got = f.got
        /\ fetch'[r].failed = f.failed /\ fetch'[r].done = f.done
    BY <1>0, <2>2 DEF FetchRow, SameButWork
  <2>5. DetailInv(fetch[r])'
    BY <1>0, <1>2, <2>0, <2>4 DEF DetailInv, InDetails, SameButWork
  <2> QED BY <1>0, <2>1, <2>2, <2>3, <2>4, <2>5, WorkStep DEF InDetails
<1> QED BY <1>1, <1>2

\* An answer: the unit is fetched, and nobody else has it.
LEMMA WorkerGetsKeepsInv ==
  ASSUME FetchInv, NEW r \in Runs, NEW w \in Workers, WorkerGets(r, w)
  PROVE  FetchInv'
<1> DEFINE f == fetch[r]
<1>0. /\ f \in FetchRow /\ DetailInv(f) /\ f.stage = "details" /\ f.worker[w] = "get"
      /\ listing' = listing /\ f.got \subseteq Units /\ f.done \in Nat
      /\ f.worker \in [Workers -> {"take", "get"} \cup Ended] /\ f.asks \in [Workers -> SUBSET Units]
      /\ f.tried \in [Workers -> Nat]
  BY DEF FetchInv, FetchTypeOK, FetchOK, WorkerGets, At, FetchRow
<1>1. fetch' = [fetch EXCEPT ![r] = [f EXCEPT
      !.got = f.got \cup f.asks[w], !.done = f.done + 1, !.worker[w] = "take",
      !.asks[w] = {}, !.tried[w] = 1]]
  BY DEF WorkerGets
<1>2. fetch'[r] = [f EXCEPT
      !.got = f.got \cup f.asks[w], !.done = f.done + 1, !.worker[w] = "take",
      !.asks[w] = {}, !.tried[w] = 1]
  BY <1>1 DEF FetchInv, FetchTypeOK
<1>3. fetch'[r] \in FetchRow
  <2> DEFINE a == [f EXCEPT !.got = f.got \cup f.asks[w]]
             b == [a EXCEPT !.done = f.done + 1]
             c == [b EXCEPT !.worker[w] = "take"]
             d == [c EXCEPT !.asks[w] = {}]
             e == [d EXCEPT !.tried[w] = 1]
  <2>0. fetch'[r] = e
    BY <1>0, <1>2 DEF FetchRow
  <2>1. f.got \cup f.asks[w] \in SUBSET Units
    BY <1>0 DEF Ended
  <2>2. a \in FetchRow
    BY <1>0, <2>1, WorkRows
  <2> HIDE DEF a
  <2>3. f.done + 1 \in Nat
    BY <1>0 DEF Ended
  <2>4. b \in FetchRow
    BY <2>2, <2>3, WorkRows
  <2> HIDE DEF b
  <2>5. c \in FetchRow
    BY <2>4, WorkRows
  <2> HIDE DEF c
  <2>6. {} \in SUBSET Units
    BY <1>0 DEF Ended
  <2>7. d \in FetchRow
    BY <2>5, <2>6, WorkRows
  <2> HIDE DEF d
  <2>8. e \in FetchRow
    BY <2>7, WorkRows
  <2> HIDE DEF e
  <2> QED BY <2>0, <2>8
<1>4. /\ fetch'[r].worker = [f.worker EXCEPT ![w] = "take"] /\ fetch'[r].asks = [f.asks EXCEPT ![w] = {}]
      /\ fetch'[r].got = f.got \cup f.asks[w] /\ fetch'[r].done = f.done + 1
      /\ fetch'[r].failed = f.failed
      /\ fetch'[r].queue = f.queue /\ SameButWork(f, fetch'[r])
  BY <1>0, <1>2 DEF FetchRow, SameButWork
<1>5. DetailInv(fetch[r])'
  <2>1. PICK u \in Units : f.asks[w] = {u}
    BY <1>0 DEF DetailInv, InDetails
  <2>2. IsFiniteSet(f.got) /\ f.done = Cardinality(f.got) /\ u \notin f.got
    BY <1>0, <2>1 DEF DetailInv, InDetails
  <2>3. IsFiniteSet(fetch'[r].got) /\ fetch'[r].done = Cardinality(fetch'[r].got)
    <3>1. /\ IsFiniteSet(f.got \cup {u})
          /\ Cardinality(f.got \cup {u}) = Cardinality(f.got) + 1
      BY <2>2, FS_AddElement
    <3>2. fetch'[r].got = f.got \cup {u} /\ fetch'[r].done = f.done + 1
      BY <1>4, <2>1
    <3> HIDE DEF f
    <3> QED BY <2>2, <3>1, <3>2
  <2>4. \A v \in Units : v \in f.wanted <=>
          v \in fetch'[r].got \/ v \in f.queue \/ \E x \in Workers : v \in fetch'[r].asks[x]
    <3>1. \A v \in Units : (\E x \in Workers : v \in f.asks[x]) <=>
            v = u \/ \E x \in Workers : v \in fetch'[r].asks[x]
      BY <1>0, <1>4, <2>1 DEF DetailInv, InDetails
    <3> QED BY <1>0, <1>4, <2>1, <3>1 DEF DetailInv, InDetails
  <2>5. /\ fetch'[r].got \cap f.queue = {}
        /\ \A x \in Workers :
             /\ fetch'[r].asks[x] \cap (fetch'[r].got \cup f.queue) = {}
             /\ \A v \in Workers \ {x} : fetch'[r].asks[x] \cap fetch'[r].asks[v] = {}
    BY <1>0, <1>4, <2>1 DEF DetailInv, InDetails
  <2>6. \A x \in Workers :
          /\ fetch'[r].worker[x] \in {"take", "returned"} => fetch'[r].asks[x] = {}
          /\ fetch'[r].worker[x] = "get" => \E v \in Units : fetch'[r].asks[x] = {v}
          /\ fetch'[r].worker[x] = "returned" => f.queue = {} \/ f.failed
    BY <1>0, <1>4 DEF DetailInv, InDetails
  <2>7. f.failed => \E x \in Workers : fetch'[r].worker[x] = "errored"
    BY <1>0, <1>4 DEF DetailInv, InDetails
  <2>8. /\ fetch'[r].stage # "whole" /\ fetch'[r].wanted = f.wanted
        /\ fetch'[r].queue = f.queue /\ fetch'[r].failed = f.failed
    BY <1>0, <1>4 DEF SameButWork
  <2> HIDE DEF f
  <2> QED BY <2>3, <2>4, <2>5, <2>6, <2>7, <2>8 DEF DetailInv
<1> QED BY <1>0, <1>1, <1>2, <1>3, <1>4, <1>5, WorkStep DEF InDetails

\* A failed request is tried again.
LEMMA WorkerRetriesKeepsInv ==
  ASSUME FetchInv, NEW r \in Runs, NEW w \in Workers, WorkerRetries(r, w)
  PROVE  FetchInv'
<1> DEFINE f == fetch[r]
<1>0. /\ f \in FetchRow /\ DetailInv(f) /\ f.stage = "details" /\ f.worker[w] = "get"
      /\ listing' = listing /\ f.got \subseteq Units /\ f.done \in Nat
      /\ f.worker \in [Workers -> {"take", "get"} \cup Ended] /\ f.asks \in [Workers -> SUBSET Units]
      /\ f.tried \in [Workers -> Nat]
  BY DEF FetchInv, FetchTypeOK, FetchOK, WorkerRetries, At, FetchRow
<1>1. fetch' = [fetch EXCEPT ![r] = [f EXCEPT !.tried[w] = f.tried[w] + 1]]
  BY DEF WorkerRetries
<1>2. fetch'[r] = [f EXCEPT !.tried[w] = f.tried[w] + 1]
  BY <1>1 DEF FetchInv, FetchTypeOK
<1>3. fetch'[r] \in FetchRow
  <2> DEFINE a == [f EXCEPT !.tried[w] = f.tried[w] + 1]
  <2>0. fetch'[r] = a
    BY <1>0, <1>2 DEF FetchRow
  <2>1. f.tried[w] + 1 \in Nat
    BY <1>0 DEF Ended
  <2>2. a \in FetchRow
    BY <1>0, <2>1, WorkRows
  <2> HIDE DEF a
  <2> QED BY <2>0, <2>2
<1>4. /\ fetch'[r].worker = f.worker /\ fetch'[r].asks = f.asks /\ fetch'[r].got = f.got
      /\ fetch'[r].done = f.done /\ fetch'[r].failed = f.failed
      /\ fetch'[r].queue = f.queue /\ SameButWork(f, fetch'[r])
  BY <1>0, <1>2 DEF FetchRow, SameButWork
<1>5. DetailInv(fetch[r])'
  BY <1>0, <1>4 DEF DetailInv, InDetails, SameButWork
<1> QED BY <1>0, <1>1, <1>2, <1>3, <1>4, <1>5, WorkStep DEF InDetails

\* A worker that fails keeps what it asked for; its mark outlives it.
LEMMA WorkerFailsKeepsInv ==
  ASSUME FetchInv, NEW r \in Runs, NEW w \in Workers, WorkerFails(r, w)
  PROVE  FetchInv'
<1> DEFINE f == fetch[r]
<1>0. /\ f \in FetchRow /\ DetailInv(f) /\ f.stage = "details" /\ f.worker[w] = "get"
      /\ listing' = listing /\ f.got \subseteq Units /\ f.done \in Nat
      /\ f.worker \in [Workers -> {"take", "get"} \cup Ended] /\ f.asks \in [Workers -> SUBSET Units]
      /\ f.tried \in [Workers -> Nat]
  BY DEF FetchInv, FetchTypeOK, FetchOK, WorkerFails, At, FetchRow
<1>1. fetch' = [fetch EXCEPT ![r] = [f EXCEPT !.failed = TRUE, !.worker[w] = "errored"]]
  BY DEF WorkerFails
<1>2. fetch'[r] = [f EXCEPT !.failed = TRUE, !.worker[w] = "errored"]
  BY <1>1 DEF FetchInv, FetchTypeOK
<1>3. fetch'[r] \in FetchRow
  <2> DEFINE a == [f EXCEPT !.failed = TRUE]
             b == [a EXCEPT !.worker[w] = "errored"]
  <2>0. fetch'[r] = b
    BY <1>0, <1>2 DEF FetchRow
  <2>1. a \in FetchRow
    BY <1>0, WorkRows
  <2> HIDE DEF a
  <2>2. "errored" \in {"take", "get"} \cup Ended
    BY <1>0 DEF Ended
  <2>3. b \in FetchRow
    BY <2>1, <2>2, WorkRows
  <2> HIDE DEF b
  <2> QED BY <2>0, <2>3
<1>4. /\ fetch'[r].worker = [f.worker EXCEPT ![w] = "errored"] /\ fetch'[r].asks = f.asks
      /\ fetch'[r].got = f.got /\ fetch'[r].done = f.done /\ fetch'[r].failed
      /\ fetch'[r].queue = f.queue /\ SameButWork(f, fetch'[r])
  BY <1>0, <1>2 DEF FetchRow, SameButWork
<1>5. DetailInv(fetch[r])'
  BY <1>0, <1>4 DEF DetailInv, InDetails, SameButWork
<1> QED BY <1>0, <1>1, <1>2, <1>3, <1>4, <1>5, WorkStep DEF InDetails

\* So does one that panics.
LEMMA WorkerPanicsKeepsInv ==
  ASSUME FetchInv, NEW r \in Runs, NEW w \in Workers, WorkerPanics(r, w)
  PROVE  FetchInv'
<1> DEFINE f == fetch[r]
<1>0. /\ f \in FetchRow /\ DetailInv(f) /\ f.stage = "details" /\ f.worker[w] = "get"
      /\ listing' = listing /\ f.got \subseteq Units /\ f.done \in Nat
      /\ f.worker \in [Workers -> {"take", "get"} \cup Ended] /\ f.asks \in [Workers -> SUBSET Units]
      /\ f.tried \in [Workers -> Nat]
  BY DEF FetchInv, FetchTypeOK, FetchOK, WorkerPanics, At, FetchRow
<1>1. fetch' = [fetch EXCEPT ![r] = [f EXCEPT !.worker[w] = "panicked"]]
  BY DEF WorkerPanics
<1>2. fetch'[r] = [f EXCEPT !.worker[w] = "panicked"]
  BY <1>1 DEF FetchInv, FetchTypeOK
<1>3. fetch'[r] \in FetchRow
  <2> DEFINE a == [f EXCEPT !.worker[w] = "panicked"]
  <2>0. fetch'[r] = a
    BY <1>0, <1>2 DEF FetchRow
  <2>1. "panicked" \in {"take", "get"} \cup Ended
    BY <1>0 DEF Ended
  <2>2. a \in FetchRow
    BY <1>0, <2>1, WorkRows
  <2> HIDE DEF a
  <2> QED BY <2>0, <2>2
<1>4. /\ fetch'[r].worker = [f.worker EXCEPT ![w] = "panicked"] /\ fetch'[r].asks = f.asks
      /\ fetch'[r].got = f.got /\ fetch'[r].done = f.done /\ fetch'[r].failed = f.failed
      /\ fetch'[r].queue = f.queue /\ SameButWork(f, fetch'[r])
  BY <1>0, <1>2 DEF FetchRow, SameButWork
<1>5. DetailInv(fetch[r])'
  BY <1>0, <1>4 DEF DetailInv, InDetails, SameButWork
<1> QED BY <1>0, <1>1, <1>2, <1>3, <1>4, <1>5, WorkStep DEF InDetails

\* The workers have ended: with none that failed, each saw the queue empty, and nobody holds
\* a unit that is not fetched.
LEMMA JoinsKeepInv ==
  ASSUME FetchInv, NEW r \in Runs, JoinPanicked(r) \/ JoinAll(r)
  PROVE  FetchInv'
<1> DEFINE f == fetch[r]
           whole == [f EXCEPT !.stage = "whole"]
<1>0. f \in FetchRow /\ FetchOK(f)
  BY DEF FetchInv, FetchTypeOK
<1>1. CASE JoinPanicked(r)
  BY <1>1, Emptied DEF JoinPanicked, Fail
<1>2. CASE JoinAll(r) /\ \E w \in Workers : f.worker[w] = "errored"
  <2>1. fetch' = [fetch EXCEPT ![r] = Fail("source_error")] /\ listing' = listing
    BY <1>2 DEF JoinAll
  <2> QED BY <2>1, Emptied DEF Fail
<1>3. CASE JoinAll(r) /\ ~\E w \in Workers : f.worker[w] = "errored"
  <2>1. /\ fetch' = [fetch EXCEPT ![r] = whole] /\ listing' = listing /\ f.stage = "details"
        /\ \A w \in Workers : f.worker[w] = "returned"
    BY <1>3 DEF JoinAll, Ended
  <2>2. /\ fetch'[r] = whole /\ \A q \in Runs \ {r} : fetch'[q] = fetch[q]
        /\ DOMAIN fetch' = Runs /\ fetch' = [q \in Runs |-> fetch'[q]]
    BY <2>1 DEF FetchInv, FetchTypeOK
  <2>3. /\ whole \in FetchRow /\ whole.stage = "whole" /\ SamePages(f, whole)
        /\ whole.wanted = f.wanted /\ whole.queue = f.queue
    BY <1>0 DEF FetchRow, Stages, SamePages
  <2>4. f.got = f.wanted
    <3>1. f.queue = {} /\ \A w \in Workers : f.asks[w] = {}
      BY <1>0, <1>3, <2>1, SourcesAssumption DEF FetchOK, DetailInv, InDetails
    <3>2. f.got \subseteq Units /\ f.wanted \subseteq Units
      BY <1>0 DEF FetchRow
    <3> QED BY <1>0, <2>1, <3>1, <3>2 DEF FetchOK, DetailInv, InDetails
  <2> HIDE DEF whole
  <2>5. FreshInv(fetch[r])' /\ ListInv(fetch[r])'
    BY <1>0, <2>1, <2>2, <2>3 DEF FetchOK, FreshInv, ListInv, InDetails, SamePages
  <2>6. DetailInv(fetch[r])'
    BY <1>0, <2>1, <2>2, <2>3, <2>4 DEF FetchOK, DetailInv, InDetails, SamePages
  <2> QED BY <2>1, <2>2, <2>3, <2>5, <2>6, OwnFetch DEF FetchOK
<1> QED BY <1>1, <1>2, <1>3

\* NSR's list changes: a unit that arrives marks the runs that read the list, and one that goes
\* leaves nothing new.
LEMMA ListChangesKeepsInv == FetchInv /\ ListChanges => FetchInv'
<1> SUFFICES ASSUME FetchInv, ListChanges PROVE FetchInv'
  OBVIOUS
<1>0. Len(listing) \in Nat /\ \A i \in 1 .. Len(listing) : listing[i] \in ToSet(listing)
      /\ listing[i] \in Units
  BY LenProperties, ElementOfSeq DEF FetchInv, FetchTypeOK, ToSet
<1>1. ASSUME NEW u \in Units, NEW i \in 1 .. Len(listing) + 1, listing' = InsertAt(listing, i, u),
             fetch' = [r \in Runs |-> [fetch[r] EXCEPT !.arrived = @ \/ fetch[r].stage = "list"]]
      PROVE  FetchInv'
  <2>1. listing' \in Seq(Units)
    <3>1. SubSeq(listing, 1, i - 1) \in Seq(Units) /\ SubSeq(listing, i, Len(listing)) \in Seq(Units)
      BY <1>0, SubSeqProperties
    <3>2. <<u>> \in Seq(Units)
      OBVIOUS
    <3>3. SubSeq(listing, 1, i - 1) \o <<u>> \in Seq(Units)
      BY <3>1, <3>2, ConcatProperties
    <3> QED BY <1>1, <3>1, <3>3, ConcatProperties DEF InsertAt
  <2>2. ASSUME NEW r \in Runs PROVE fetch'[r] \in FetchRow /\ FetchOK(fetch[r])'
    <3> DEFINE f == fetch[r]
               g == [f EXCEPT !.arrived = f.arrived \/ f.stage = "list"]
    <3>1. f \in FetchRow /\ FetchOK(f)
      BY DEF FetchInv, FetchTypeOK
    <3>2. /\ g \in FetchRow /\ g.stage = f.stage /\ g.arrived = (f.arrived \/ f.stage = "list")
          /\ g.page = f.page /\ g.total = f.total /\ g.wanted = f.wanted /\ g.queue = f.queue
          /\ g.seen = f.seen /\ g.listed = f.listed /\ g.got = f.got /\ g.done = f.done
          /\ g.failed = f.failed /\ g.worker = f.worker /\ g.asks = f.asks
      BY <3>1 DEF FetchRow
    <3>3. fetch'[r] = g
      BY <1>1
    <3> HIDE DEF g
    <3>4. FreshInv(g)
      BY <3>1, <3>2 DEF FetchOK, FreshInv, InDetails
    <3>5. ListInv(fetch[r])'
      <4>1. g.stage = "list" => g.arrived
        BY <3>2
      <4>2. InDetails(g) /\ ~g.arrived => f.arrived = FALSE
        BY <3>1, <3>2 DEF FetchRow
      <4> QED BY <3>1, <3>2, <3>3, <4>1, <4>2 DEF FetchOK, ListInv, InDetails
    <3>6. DetailInv(g)
      BY <3>1, <3>2 DEF FetchOK, DetailInv, InDetails
    <3> QED BY <3>2, <3>3, <3>4, <3>5, <3>6 DEF FetchOK, FreshInv, DetailInv, InDetails
  <2> QED BY <1>1, <2>1, <2>2 DEF FetchInv, FetchTypeOK
<1>2. ASSUME NEW i \in 1 .. Len(listing), listing' = RemoveAt(listing, i), fetch' = fetch
      PROVE  FetchInv'
  <2>1. /\ SubSeq(listing, 1, i - 1) \in Seq(Units) /\ SubSeq(listing, i + 1, Len(listing)) \in Seq(Units)
        /\ SubSeq(listing, 1, i - 1) \in Seq(ToSet(listing))
        /\ SubSeq(listing, i + 1, Len(listing)) \in Seq(ToSet(listing))
    BY <1>0, SubSeqProperties
  <2>2. listing' \in Seq(Units) /\ listing' \in Seq(ToSet(listing))
    BY <1>2, <2>1, ConcatProperties DEF RemoveAt
  <2>3. ToSet(listing') \subseteq ToSet(listing)
    BY <2>2, MembersOfSeq
  <2>4. ASSUME NEW r \in Runs PROVE FetchOK(fetch[r])'
    BY <1>2, <2>3 DEF FetchInv, FetchOK, FreshInv, ListInv, DetailInv, InDetails
  <2> QED BY <1>2, <2>2, <2>4 DEF FetchInv, FetchTypeOK
<1> QED BY <1>1, <1>2 DEF ListChanges

\* A run that is not fetching.
LEMMA NotStartedRow == NotStarted \in FetchRow /\ NotStarted = [NotStarted EXCEPT !.stage = "none"]
<1>1. NotStarted \in FetchRow
  BY DEF NotStarted, FetchRow, Stages
<1>2. NotStarted.stage = "none"
  BY DEF NotStarted
<1> HIDE DEF NotStarted
<1> QED BY <1>1, <1>2 DEF FetchRow

\* A run fetches: every step of it, with whatever the register holds.
LEMMA FetchStepKeepsInv ==
  ASSUME FetchInv, NEW r \in Runs, NEW seed, NEW held \in SUBSET Units, FetchStep(r, seed, held)
  PROVE  FetchInv'
<1>1. CASE Answered(r, seed) \/ Retried(r)
  BY <1>1, RequestsKeepInv
<1>2. CASE GivenUp(r)
  BY <1>2, Emptied DEF GivenUp, Fail
<1>3. CASE PageRead(r, held)
  <2>1. listing \in Seq(Units) /\ fetch[r].page \in Nat \ {0}
    BY DEF FetchInv, FetchTypeOK, FetchRow
  <2>2. PageOf(fetch[r].page) \in Seq(Units) /\ ToSet(PageOf(fetch[r].page)) \subseteq ToSet(listing)
    BY <2>1, PageOfList
  <2> QED BY <1>3, <2>2, ReadPageKeepsInv DEF PageRead
<1>4. CASE PageEmpty(r, held)
  <2>1. <<>> \in Seq(Units) /\ ToSet(<<>>) \subseteq ToSet(listing)
    BY EmptySeq DEF ToSet
  <2> QED BY <1>4, <2>1, ReadPageKeepsInv DEF PageEmpty
<1>5. ASSUME NEW w \in Workers,
             \/ WorkerTakes(r, w) \/ WorkerGets(r, w) \/ WorkerRetries(r, w)
             \/ WorkerFails(r, w) \/ WorkerPanics(r, w)
      PROVE  FetchInv'
  BY <1>5, WorkerTakesKeepsInv, WorkerGetsKeepsInv, WorkerRetriesKeepsInv, WorkerFailsKeepsInv,
     WorkerPanicsKeepsInv
<1>6. CASE JoinPanicked(r) \/ JoinAll(r)
  BY <1>6, JoinsKeepInv
<1> QED BY <1>1, <1>2, <1>3, <1>4, <1>5, <1>6 DEF FetchStep

\* Nothing is fetched at first.
LEMMA InitFetchInv == Init => FetchInv
<1> SUFFICES ASSUME Init PROVE FetchInv
  OBVIOUS
<1>1. listing \in Seq(Units)
  BY SourcesAssumption DEF Init, FetchInit
<1>2. NotStarted \in FetchRow
  BY NotStartedRow
<1>3. FetchOK(NotStarted)
  BY DEF NotStarted, FetchOK, FreshInv, ListInv, DetailInv, InDetails
<1>4. fetch = [r \in Runs |-> NotStarted]
  BY DEF Init, FetchInit
<1> HIDE DEF NotStarted
<1> QED BY <1>1, <1>2, <1>3, <1>4 DEF FetchInv, FetchTypeOK

\* Nothing of it changes.
LEMMA FetchStays == FetchInv /\ UNCHANGED fetchVars => FetchInv'
BY DEF FetchInv, fetchVars, FetchTypeOK, FetchOK, FreshInv, ListInv, DetailInv, InDetails

\* Every step keeps what is said of the fetching.
LEMMA NextFetchInv == FetchInv /\ [Next]_vars => FetchInv'
<1> SUFFICES ASSUME FetchInv, [Next]_vars PROVE FetchInv'
  OBVIOUS
<1>1. ASSUME NEW r \in Runs, Fetch(r) PROVE FetchInv'
  <2>1. (IF RegisterIsEmpty THEN {} ELSE Held) \in SUBSET Units
    BY RunAssumption
  <2> QED BY <1>1, <2>1, FetchStepKeepsInv DEF Fetch
<1>2. ASSUME NEW r \in Runs, SeedDate(r) PROVE FetchInv'
  <2>1. CASE StartFetch(r) /\ listing' = listing
    BY <2>1, Emptied DEF StartFetch
  <2>2. CASE UNCHANGED <<listing, fetch>>
    BY <2>2, FetchStays DEF fetchVars
  <2> QED BY <1>2, <2>1, <2>2 DEF SeedDate
<1>3. ASSUME NEW r \in Runs, PlanRun(r) \/ Kill(r) PROVE FetchInv'
  <2>1. fetch' = [fetch EXCEPT ![r] = NotStarted] /\ listing' = listing
    BY <1>3 DEF PlanRun, Kill
  <2> HIDE DEF NotStarted
  <2> QED BY <2>1, NotStartedRow, Emptied
<1>4. ASSUME NEW r \in Runs, Step(r), ~Fetch(r), ~SeedDate(r), ~PlanRun(r) PROVE FetchInv'
  <2>1. UNCHANGED fetchVars
    BY <1>4 DEF Step, Connect, TryLock, CheckRegister, StartRun, FetchEnds, RollBack, Apply,
       Record, SendCommit, Committed, NoticeBroken, RecordFailure, RecordingFails
  <2> QED BY <2>1, FetchStays
<1>5. ASSUME NEW r \in Runs, Server(r) \/ Break(r) PROVE FetchInv'
  <2>1. UNCHANGED fetchVars
    BY <1>5 DEF Server, ServerCommits, SessionEnds, Break
  <2> QED BY <2>1, FetchStays
<1>6. CASE ListChanges /\ UNCHANGED runVars
  BY <1>6, ListChangesKeepsInv
<1>7. CASE UNCHANGED vars
  BY <1>7, FetchStays DEF vars
<1> QED BY <1>1, <1>2, <1>3, <1>4, <1>5, <1>6, <1>7 DEF Next

-----------------------------------------------------------------------------
(* The theorems. *)

\* The invariant is inductive, the runs on one side and what they fetch on the other.
LEMMA Inductive == Spec => []IndInv
<1>1. Init => IndInv
  BY InitRunInv, InitFetchInv DEF IndInv
<1>2. IndInv /\ [Next]_vars => IndInv'
  BY NextRunInv, NextFetchInv DEF IndInv
<1> QED BY <1>1, <1>2, PTL DEF Spec

\* Every state of the runs, their connections, transactions and rows is well-formed.
THEOREM TypeCorrect == Spec => []TypeOK
<1>1. IndInv => TypeOK
  BY DEF IndInv, RunInv
<1> QED BY <1>1, Inductive, PTL

\* No two runs plan from the same register and both apply: while the plan of a run may still
\* commit (apply_and_stage), nothing has been applied since its snapshot was read, even when
\* the process has given up and another holds a fresh connection.
THEOREM PlansAreCurrent == Spec => []PlanIsCurrent
<1>1. IndInv => PlanIsCurrent
  BY DEF IndInv, RunInv, RunOK, SnapshotInv, PlanIsCurrent
<1> QED BY <1>1, Inductive, PTL

\* The run row, the register and the outbox agree whatever broke around the commit (runs.rs):
\* a finished row says what the register shows, and a mail is that of a run that committed.
THEOREM RowsTellTheTruth == Spec => []RowTellsTheTruth
<1>1. IndInv => RowTellsTheTruth
  BY DEF IndInv, RunInv, RunOK, TruthInv, RowTellsTheTruth
<1> QED BY <1>1, Inductive, PTL

\* A run plans from the whole list it counted and the detail of every unit it wants, each
\* fetched once, for any number of workers, pages and failures (fetch.rs, nsr.rs).
THEOREM FetchedListsAreWhole == Spec => []FetchIsWhole
<1>1. IndInv => AcceptedListIsWhole
  BY DEF IndInv, FetchInv, FetchOK, ListInv, InDetails, AcceptedListIsWhole
<1>2. IndInv => DetailPassIsWhole
  BY DEF IndInv, FetchInv, FetchOK, DetailInv, InDetails, DetailPassIsWhole
<1> QED BY <1>1, <1>2, Inductive, PTL DEF FetchIsWhole

=============================================================================
