# FAU-portalen: TLA+ models, checks and proofs

FAU-portalen is a portal for Norwegian parents' committees (FAU). This directory models
its backend (`src/backend`, a Rust workspace over PostgreSQL) in TLA+, checks the models
with TLC on small instances and proves the most important properties with TLAPS for every
instance. `PROJECT.json` maps every definition to the lines it models and lists the runs,
mutants, findings, hazards and theorems.

## The system

| Component | State | Operations | Interacts with |
| --- | --- | --- | --- |
| Signup (`membership/signup.rs`) | pending and live tenants | create a pending FAU, expire, activate | the school register; everything below starts at activation |
| Roles and handover (`roles.rs`, `handover.rs`, `sql.rs`) | memberships, role assignments, handover grants | grant, revoke a role, revoke a membership, daily sweep, recovery | access rules, requests, groups, change stream |
| Invitations (`invitations.rs`) | invitations and their tokens | issue, re-send, withdraw, prepare, accept | roles, groups, handover grants, recovery seat |
| Requests (`requests.rs`) | access requests, replacement proposals | create, propose, approve, decline, lapse | invitations (approval issues one) |
| Access rules (`domain/membership`) | none | periods, validity, last-admin safeguard | read by all of the above |
| Groups and authorization (`groups.rs`, `authz.rs`, `domain/authz.rs`) | groups, hand-added members | create, rename, open/close, archive, add, remove | roles; announces on the change stream |
| Change stream (`events.rs`) | subscriptions, one LISTEN connection | subscribe, receive, dispatch, reconnect | NOTIFYs of every mutation, authorization |
| Retention and profiles (`retention.rs`, `profile.rs`) | names, retention dates | settle, reopen, sweep, change period, erase | roles, groups |
| Data keys (`keys`, `persistence/keys.rs`) | wrapped_keys, the session cache | get or make a unit's key, touch, release, sweep | OpenBao, the caller's transaction |
| Register planner (`domain/register/sync`) | none: a plan is a function of a snapshot and the sources | plan municipalities, schools, reviews; abort | the register's tables, the sources |
| Register tables (`persistence/register`) | municipalities, schools, their histories, review items | snapshot, apply op by op, write reviews | planner, signup (an FAU protects its school) |
| Register runs (`app/register`, `register/runs.rs`) | the advisory lock, the run row, the outbox | begin, fetch, plan, apply, record, record a failure | PostgreSQL sessions, the external registers |
| Directory, names, export (`directory.rs`, `names.rs`, `export.rs`) | none of their own | list people, list groups, export addresses | roles, groups, authorization, retention |
| Process (`app`) | readiness cache, shutdown flag, watchdog | start, probe, signal, drain, exit | migrations and the schema contract |
| Migrations (`persistence/migrate.rs`) | the applied migrations, the outer lock | lock, run, count, report | the process's contract gate |
| Crypto, HTTP shell, register export | none of their own | | |

What is hard here:

- **Concurrency.** Most membership mutations take one lock (`lock_tenant`) and are then
  atomic; the interesting steps are the ones outside it: the caller's clock, the token
  looked up before the lock, the sweep's scan, the lapse sweep, and the whole of signup,
  which relies on statement-level locks and one unique index.
- **Time.** Roles, windows, invitations and requests all run out, and every transaction
  carries a moment captured before it waited.
- **Reuse of rows.** A removed person comes back into the same membership row.
- **Lost messages.** NOTIFY is not durable, the LISTEN connection breaks, readers lag.
- **Partial failure.** A rollback after a cache was filled, a crash between statements, a
  COMMIT whose answer never came.
- **Sources that disagree.** Three registers publish one municipal reform at three times,
  and the planner must neither guess nor ask twice; a slug given up by one school and taken
  by another must not send an old link to the wrong one.
- **Several FAU-er at once.** Two operations span all of a person's FAU-er and read their
  list before they lock any of them.
- **Clocks against clocks.** A cached readiness, a pre-drain sleep, a watchdog and hanging
  requests decide together how a process ends.

What makes each component correct: a school has one live FAU and an expired signup does
not hold it; an FAU loses its last admin only by somebody's confirmed decision; nothing of
an earlier tenure revives; an invitation admits one person, once, while its issuer still
may; a request is decided once; a revoked viewer's stream ends and no change is missed
silently; a committed row can be decrypted; nobody is listed to, or exported by, somebody
who may not see them; a name is kept exactly its period and an erased one does not return; a
plan applies to the register it was made from and running again changes nothing; a school
that vanished is closed or asked about; a run's row tells what happened; a ready answer is
fresh and a process exits in time.

## Modules

| Module | Models | State and actions |
| --- | --- | --- |
| `AccessRules` | `domain/membership/{access,period}.rs` | operators only: half-open periods, who is an admin on a day, `RemovalLeavesNoAdmin`, and the day-by-day reference `LeavesGap` it is proved to equal |
| `Membership` (extends `AccessRules`) | `roles.rs`, `handover.rs`, `invitations.rs`, `requests.rs`, helpers of `sql.rs` | tables as functions from row ids to rows; one action per transaction; `accepting` holds acceptances between their unlocked lookup and the lock, `sweeping` the sweeps between scan and turn |
| `Signup` | `signup.rs` | one record per open transaction with a program counter; one action per statement, since no lock makes these atomic |
| `SchoolClaim` | what signup promises a school | the abstract specification: claim, release, activate, close |
| `Groups` | `groups.rs`, `authz.rs`, the parts of `roles.rs` and `retention.rs` that decide who reads what | one action per transaction; `wire` collects the notifications in commit order |
| `EventHub` (extends `Groups`) | `events.rs` | subscription slots, the listener task as a program counter, the connection; composes with `Groups` through `wire` |
| `KeyClient` | `keys/client.rs`, as the cluster configures it | the client's token, the queue of its lock, and where each request's call is: login, request, retry, timeout; OpenBao and tokio's lock are external |
| `DataKeys` (extends `KeyClient`) | `keys/{data_key,cache}.rs`, `persistence/keys.rs` | requests with a program counter, one step per await; cache, stored keys, committed rows |
| `Directory` (extends `Groups`) | the reads of `groups.rs`, `directory.rs`, `export.rs` | operators of `Groups`' state: each read runs in one snapshot, so an invariant speaks of a read at any moment |
| `Disclosure` (extends `EventHub`, `Directory`) | | the statement of what the directory and the export may disclose, over both |
| `Retention` | `retention.rs`, `profile.rs`, `names.rs`, what `roles.rs` and `sql.rs` write of a name | one row per FAU of one account; one action per transaction under a FAU's lock; `job` holds the two account-wide operations between their list and their commit |
| `RegisterPlan` | `domain/register/sync`, `scope.rs`, `slug.rs` | operators only: `Plan(snapshot, inputs, accept)`, built up as the code does, municipalities first |
| `RegisterSync` (extends `RegisterPlan`) | `apply.rs`, `school_ops.rs`, `reviews.rs`, `snapshot.rs` and the tables of migration 0004 | the tables as a record; `BeginRun` fetches, snapshots and plans, `CommitRun`, `FinishUnchanged` or `StopRun` ends the run; sources publish, people sign up and an operator answers in between |
| `RegisterReference` (extends `RegisterSync`) | `sync/testkit.rs` | the abstract specification of an applier, which the SQL applier has to match |
| `RegisterFetch` | `fetch.rs`, `register-sources/client.rs` | pages, retries, the detail queue and its workers, while the list moves |
| `RegisterRun` (extends `RegisterFetch`) | `sync.rs`, `runs.rs`, `connect.rs` | processes with a program counter; both ends of a connection, so that a client may give up on a session the server still holds |
| `Migrations` | `migrate.rs` | one record per `fau migrate` process: lock, count, files, count, report |
| `Lifecycle` (extends `Migrations`) | `main.rs`, `readiness.rs`, `shutdown.rs`, `contract.rs`, `health.rs` | one server process, its scrapes and requests, a clock of half seconds |
| `*Proofs` | | theorems: `MembershipProofs` (with `AccessRules`), `SignupProofs`, `DataKeysProofs`, `EventHubProofs` (with `Groups` and `Disclosure`), `RetentionProofs`, `RegisterSyncProofs` (with `RegisterPlan`), `RegisterRunProofs` (with `RegisterFetch`), `LifecycleProofs` (with `Migrations`) |
| `MC*` | | small instances |

Each module's header says what it abstracts. Common to all: ids are small numbers or model
values, days are numbers, names and messages are left out, a ciphertext is an opaque value,
the audit log is written and never read, the outbox only followed in `RegisterRun`. A name's
slug and trigrams are constants of `RegisterPlan`, so the text rules stay outside.

Constants called `Incident` choose
which outside interventions (an operator freezing or closing an FAU, a disabled account, a
crash) a run includes; no code in the repository performs those, only reads their effect.

The history fields `tenure`, `late`, `via` and `author` (Membership), `tenure` (Groups),
`owed` and `stale` (EventHub), `lost` (DataKeys), `promised`, `missed`, `served` and `bygone` (Retention),
`dirty` and `quiet` (RegisterSync), `snapshot` (RegisterRun) and `good` (Lifecycle) record
what happened for a property to refer to; no guard reads them.

Definitions marked `Mutant` are altered forms of the definition below them, used to show
that a property fails when the code has that fault.

## Runs

| Run | Instance | Shows |
| --- | --- | --- |
| `membership_admins` | two people, admin roles, activation and recovery invitations, days 0..3, clock lag 1, all incidents | a usable handover grant stands behind an unrevoked role; the recovery seat, which changes hands freely, seats its holder only if another representative invited them; admin cover is lost only by a confirmed revocation or a disabled account |
| `membership_invitations` | two admins, one invited back as a guest, token re-sent once, two acceptances in flight, a sweep | former tenures are inert; an invitation is used once, on its current token and under its issuer's authority |
| `membership_requests` | admin and member, one request, two invitations | a request is decided once, its approval issues one invitation, and a proposer is a member |
| `signup_claim` | one school, two addresses, three transactions, three signups, days 0..2 | expired signups do not hold a school; signup implements `SchoolClaim`, in which a school has one live FAU |
| `signup_waits` | two schools, two addresses, three transactions of any kind, limit 1, crashes, freezes, disabled accounts | the pending limit; of overlapping signups, sweeps and activations only sweeps wait in a circle |
| `keys` | two sessions, two requests, one unit, two keys; rollbacks, restarts, an OpenBao that may never answer | a committed row is readable unless its own session's rollback lost the key; every request ends |
| `events` | admin and member, one group (existing or not), one stream, channel of one, two commits of any kind, one outage, freeze and close | no revocation or change passes a stream silently; a revoked stream ends; a returner starts without groups; the directory and the export disclose to each caller what the rule allows, with any selection made earlier |
| `register` | nine histories of three to four source changes in any order, up to three runs, one sign-up, one answered review | plans apply; they converge; a vanished school is closed or asked about; an old address never leads elsewhere; a question is open once; a split municipality waits; the tables follow the reference applier |
| `register_run` | a manual run and the CronJob's, all options, two pages, two workers, one trouble of any kind | a plan is never applied to a register that has moved on; the run row and the mails tell what happened; the fetched list is whole; runs end and free the lock |
| `retention` | one account in two FAU-er, periods 0..2, one setting change and one erasure | a date follows the day of ending and the setting; an expired name never revives; an erased one stays gone; the checks of 0008 and 0009 hold; no circular wait for locks |
| `lifecycle` | two migrators, two scrapes, one request, one outage, three half seconds, drain bound two | a ready answer is within the cache's age and ends with the signal; a signalled process is gone, though its request and its database never answer; a migrator reports only its own work |

`SYMMETRY` is used in `signup_claim` and `signup_waits` (transactions, no liveness there), in
`lifecycle` (migrators) and in `keys` (sessions). The last two check liveness, but their
fairness and their properties name no migrator and no session, so that permuting these changes
neither. Deadlock is not checked: every bounded model stops when its bounds are reached; that
the code's waits end is what `RequestsEnd`, `RunsEnd` and `DrainEndsInTime` say, and
`OnlySweepsWaitInACircle` and `NoCircularWait` say who cannot wait for each other.

Why the bounds are enough to be interesting: the day bounds let a role, its handover
window, an invitation and a request all begin, run out and be swept; two people with two to
four assignments allow leaving, returning and handing over; two in-flight acceptances allow
one to overtake the other around a re-send; three signups of one school allow a collision,
an expiry and a successor, and two of two schools are what two sweeps need to take their rows in
opposite order; a channel of one with two commits makes a reader lag; one outage
has a before, a during and an after. A second stream was left out of `events`: streams meet
only in the shared decision of one dispatch, and two of them put the state space out of
reach. In `register` a history is chosen so that each rule of the planner has something to
decide on (a re-registration, two heirs of one name, a renumber on a renumber, a split, a
merger, an empty answer, a seed, submitted and curated schools, a vacated name), and every
order of its changes with runs between them is explored. Three runs allow one that acts and
two that must not, and `RunsConverge` plans the one after the last as well; several changes
may be published between two runs. `MaxSuffix` = 9 is the last number tried behind a taken slug,
where the code counts without end; no more than nine schools share a municipality in any of
the histories. In `register_run` one trouble suffices
for each property's hazard, since each is about what one fault leaves behind, and it may
strike at any step of either run. In `retention` the
second FAU is what the account-wide operations can miss or wait for; in `lifecycle` the
drain bound lies between the pre-drain sleep and the clock's end, and the cache outlives an
outage. In `keys` a request asks for one unit: nothing in the repository calls `data_key` yet,
and two transactions that stored the keys of two units in opposite order would wait for each
other until PostgreSQL failed one.

### Disagreements between code and documents

`register_first_slug` finds a fault of the register. A school created without a slug gets
one when its name changes, but its history row starts at its creation
(`school_ops.rs:198`). If another school created at the same moment, as every school of one
seed is, had that slug before and closed, the two history rows share the primary key, and
the run fails; so does every later one. The comment at `school_ops.rs:183` says the row
starts "from when it got a slug".

Further counterexamples are kept as configurations to run by hand:

| Configuration | What TLC finds |
| --- | --- |
| `MCMembershipLateHandover.cfg` (`HandoverOnlyAfterService`) | An admin role may be accepted after its period has ended: only the offer checks it (`invitations.rs:168`), and a re-send restarts the expiry. The daily sweep then gives a handover window for a term nobody served. |
| `MCMembershipSeat.cfg` (`SeatHolderNeverSeatsItself`) | One school representative invites another and hands the seat over; the second accepts, and holds both. `recovery_seat_matches` compares only the seat's kind, a limit its comment admits (`invitations.rs:483`), while `docs/fau-creation-and-membership-flow.md:290` says the recovery contact cannot give itself a role. Nothing in `src` moves the seat yet. `SelfSeatingNeedsAnotherRepresentative` is what the comparison does ensure. |
| `MCDataKeysRollback.cfg` (`RowsAreReadable`) | `data_key` caches a fresh key before the caller's transaction commits (`data_key.rs:31`). After a rollback, and once another session has stored the real key, the first session writes a row under the lost key. No production code calls `data_key` yet. `LossStaysInItsSession` bounds the damage: only rows of that session and unit, and nothing but such a rollback. |
| `MCDataKeysLogout.cfg` (`NoKeyAfterLogout`) | `KeyCache::get` fills the cache after an await without looking whether the session was released meanwhile (`cache.rs:71`), so the key is resident after logout until the idle sweep. |
| `MCEventHubLag.cfg` (`RevokedBufferIsDiscarded`) | A stream that the hub has already dropped (lag, a failed authorization, a reconnect) is out of reach of a later `AccessRevoked` (`events.rs:365`), so what it has buffered is still read after the revocation. |
| `MCRegisterFau.cfg` (`FauSchoolStaysOpen`) | A sign-up commits between a run's snapshot and its commit. REPEATABLE READ does not see it and no row is written by both, so the run closes a school that by then has an FAU (`sync/schools.rs:42`: "reviewed, never closed"). |
| `MCRetentionReturn.cfg` (`OldContributionsStayUnnamed`) | A returner whose new role began before they came back is named on contributions from the gap (`names.rs:36` says others never see that name). |
| `MCLifecycleLateReady.cfg` (`NoReadyInShutdown`) | A scrape that read the shutdown flag before the signal can answer ready after it, from the cache (`readiness.rs:139`, without a second look), and one past its second look can still cache its result (the comment at `readiness.rs:153` says neither can). |

Observations without a configuration:

- Two requests of a session that miss the key cache together both unwrap;
  `docs/key-service-design.md` speaks of one unwrap per session and unit.
- `dispatch` authorizes without a transaction, so the capability and the group's facts may
  come from different moments.
- After a renumber of a renumber is applied, a later run asks about an `unresolved_chain`
  that is already resolved; after a held re-registration of an FAU's school the second run
  still raises `closure_with_fau` (which is why `RunsConverge` asks for silence only of the
  third run).
- A school without a slug that is renamed to a sluggable name in the run that moves it gets
  none.
- A unit added to NSR's list while it is paged can stand in for one that is missed: the
  count agrees (`AcceptedListIsWhole` excludes it).
- One fault suffices to leave a run row unfinished, and a COMMIT whose answer is lost makes
  a run exit 1 although its changes are applied.
- `set_retention_months` and `erase_member_names` do not reach a FAU accepted into after
  their list was read; their comments say so, and `missed` and `promised` leave it out.
- The test kit's applier keeps a slug in history that nobody saw live; the SQL applier does
  not. `SqlFollowsTheReference` allows this and nothing else.

## Fairness

- `DataKeys!FairSpec`: weak fairness of the steps a request takes by itself: it joins the
  queue of the client's lock, its HTTP requests time out, it stores a key and commits. OpenBao's
  answers, refusals included, are not forced. An HTTP request without a timeout would break
  `RequestsEnd` (its mutant), and so would a read guard kept through a login.
- No fairness of `Signup`: circles of waits are possible there (two sweeps), and that they end
  is the promise of PostgreSQL's deadlock detector. The safety property
  `OnlySweepsWaitInACircle` says whom that may hit.
- `Lifecycle!FairSpec`: the clock goes on, timers fire and the process takes its own steps; the
  database need not answer and requests in flight need not finish.
- `EventHub!FairSpec`: weak fairness of the listener task and of each stream's reader. The
  runtime polls a ready task, `rebuild_listener` retries every second until the database
  takes a connection, and the server polls an SSE body while its client is connected.
- `RegisterRun!FairSpec`: weak fairness of each run's own steps and of the server's (it
  notices a closed connection and ends the session). Requests and statements carry timeouts,
  so a step that can be taken is; breaks, kills and changes of the list are not forced.

## Proofs

`tlapm` checks every proof to its leaves; nothing is assumed but the named `ASSUME`s on the
constants, which TLC evaluates in the runs.

- **`MembershipProofs!SafeguardIsExact`.** For any rows and any day, `RemovalLeavesNoAdmin`
  holds exactly when some day from today on loses its last admin. The argument is the one
  `access.rs` sketches: take the least uncovered day; if it is not the first remaining day
  of a removed row, the day before it was covered, so a remaining period ends on it, and
  that end is sampled.
- **`MembershipProofs`.** `Inductive` proves the conjunction of `TypeOK`,
  `LiveGrantHasLiveSource`, `FormerTenureIsInert`, `UsedInvitationIsAccepted` and
  `InvitationUsedOnce`, one lemma per transaction. None is inductive alone: a grant stays
  live because revocations reach the grant of every role they revoke and because the sweep
  re-reads its candidates under the lock; a former tenure stays inert because
  `revoke_membership` leaves only rows that have ended together with their window, and the
  calendar only moves forward; an invitation is used once because a used one is accepted.
  `TypeCorrect`, `LiveGrants`, `FormerTenures` and `InvitationsAreSpent` follow.
  `RequestsDoAgree` needs one more conjunct (`AgreeInv`): no invitation names a request that
  is not there, or a new request could find one already its own. `OutcomesAreFinal` follows
  from the guards every closing step shares, the unlocked lapse included.
  For the invitations' action properties one lemma does the work, `AcceptanceWasChecked`: of
  all steps only an acceptance makes an invitation accepted, and it has checked its token and
  its issuer under the lock. `OnlyTheTokenInForce` and `IssuersStillStand` follow;
  `NoSelfSeating` also needs `SeatInv`, that an invitation records the kind of its author and
  that no recovery invitation went to its author, whoever holds the seat by now.
  `CoverIsKept` is an action property: from the invariant, a step that takes the last admin
  from a day is a revocation that needed its confirmation or an outside disabling; it rests
  on `SafeguardIsExact`.
- **`SignupProofs`.** `Inductive` strengthens `OneLivePerSchool` with what open transactions
  hold: no two have deleted or inserted the same row, an uncommitted insert finds its school
  free of other live rows than those its own transaction has deleted, what a transaction has
  deleted is pending and due, and an activation's target stays pending under its lock.
  `SchoolsAreUnique` and `TypeCorrect` follow, and `ImplementsSchoolClaim` shows that every
  statement maps to a `SchoolClaim` step or a stutter under the mapping `ClaimMap`.
  A second invariant, `LimitInv`, says what a signup has read stays good until it commits: it
  has dealt with every expired FAU of its school, because one committed meanwhile ends after
  today (`LagInv`, from `MaxLag < PendingDays`); its count of the address's pending signups has
  not grown, because the address lock excludes the only other steps that could add one
  (`AddressInv`). `ExpiredSignupsYield` and `AddressesStayWithinTheLimit` follow.
  `SignupsNeverDeadlock` needs `EarlyInv`, that who waits for an address holds no rows yet: so
  nobody waits for it, everybody in a circle has deleted rows another waits for, and a signup
  that has deleted its school's expired FAU waits for nobody. Only sweeps are left.
- **`DataKeysProofs!RowsStayReadable`**, for any sessions, units and requests, and whatever
  OpenBao and the callers do. The invariant adds that at most one open transaction holds a
  unit's insert, that a cached key is the stored one, one whose transaction its session lost, or
  the one that an open transaction of this session is storing, and that a request about to use a
  key holds such a key. A commit makes the third kind the first, a rollback the second.
- **`EventHubProofs`**, for any members, groups, streams, buffer, outages and commits. The
  invariant is `GroupsInv` (shape, and `ReturnerStartsWithoutGroups` itself) with `HubInv`:
  what a registered stream is owed is either still on the wire, or covered by a break the
  listener has yet to see or a `close_all` it is about to do, or being dispatched to this very
  stream; and the revocation a stale stream has not heard of is on the wire or covered in the
  same way. When the listener has caught up only the empty case is left, which gives
  `RevocationsReachStreams` and `NoGapIsSilent`. `DisclosureIsRuled` needs no invariant: the
  lemmas `DirectoryHolds` and `ExportHolds` show it of the reads in every state.
- **`RetentionProofs`**, for any FAU-er, periods, roles offered and account-wide operations.
  The invariant relates a row to its roles: a revoked row has only roles that are over, a date
  stands only where the roles are over and equals the last of their ends plus the setting,
  and an erased row carries nothing. Two facts about roles carry the proofs: what is over
  stays over, and what `ended_on_for` computes from roles that are over does not depend on the
  day it is asked. `NeverACircularWait` follows from `JobOK`: an operation has locked exactly
  the first FAU-er of its list, in id order. `ExpiredStaysGone` is an action property.
- **`RegisterSyncProofs`**, for any register the tables' constraints allow, any answers and
  changes of Kartverket, SSB and NSR, any names, slugs and trigrams, and any number of runs,
  sign-ups and answered review items. Plans are built and applied by folds. The library's
  induction theorems cannot be used here (they take an operator), so `Climb` proves induction
  over a set of numbers from the least element, `FoldExists` and `FoldRuns` show with it that a
  fold is a sequence of states, one per operation, and one lemma per fold (`AfterGroupsSteps` to
  `PublishedSteps`) unfolds the planner's and the applier's; the effect of a whole plan is then
  an induction over such a run.

  The invariant `IInv` says three things. `RegisterIsSound`: the tables keep their shape and the
  constraints of migration 0004, a question is open once, and an address of the past misleads
  nobody. `OpenPlanSuits`: the plan of an open run fits the tables (`PlanFits`), and closes no
  school with an FAU and names nothing of a split municipality as long as nothing has changed
  since the snapshot. `TypeOK` bounds the rest. `OldAddressNeverMisleads` is not inductive without
  `PlanFits`: an operation may give an address away only if it is clear (`Clear`), that is, no
  school that stays open has it or has had it. On the planner's side, `KnowsAddresses` is what the
  slug book knows, `FreeIsClear` that what the book calls free is clear, and `HandOverKnows` that
  an heir's inherited slug is, its predecessor being closed in the same plan. On the applier's side
  `Traced` follows every row and address through the operations, given their order: no school is
  renamed after it has moved (`Ordered`), or the slug it left in the old municipality would be
  written to the history of the new one. `PlanOfTheRun` joins the two. `SplitIsLeftAlone` further
  needs that a blocked number stays where it is in the rest of step 1 (`LeftAlone`), and
  `FauSchoolsAreSpared` that only units whose fate is `closing` are closed.
  `LinksAreForEver` and `FauSchoolsAreSpared` state `NothingIsForgotten` and `FauSchoolIsNotClosed`,
  which no run lists; together with `MCRegisterFau.cfg` the latter says that the gap between
  snapshot and commit is the one way in which a school with an FAU closes.
- **`RegisterRunProofs`**, for any runs, units, pages, workers and troubles. The key of
  `RunInv` is that a transaction is open only in the session that holds the advisory lock, so
  nothing is applied between a plan and its commit even when its client has given up; the rest
  follows a run's row and mail from step to step. `FetchInv` says that every wanted unit is
  fetched, queued or with exactly one worker, and that a page's empty answer is believed only
  when the count agrees; it gives `FetchedListsAreWhole`.
- **`LifecycleProofs`**, for any migrators, scrapes, requests and time constants.
  `ReportsAreTrue` rests on the outer lock: while a process runs files, the version is what it
  counted plus its own. `SignalEndsReadiness`
  keeps that after the half second of the signal no scrape stands between its looks at the flag;
  `ReadyAnswersAreFresh` keeps that a cached moment is no later than the last good check.

The assumptions on the constants are the named `ASSUME`s: among them that the cache's age and
the buffer are at least one, that there is a worker, that `None` is no run, that a period
offered is not empty, and `MaxLag < PendingDays`: a request's transaction does not stay open
for the seven days a signup lives (`PENDING_SIGNUP_DAYS`). `ScenariosAssumption` says where a
behaviour of `RegisterSync` starts: tables that satisfy the schema, such as empty ones, and
well-formed sources.

Only model-checked: all liveness (`RequestsEnd`, `RevokedStreamEnds`, `RunsEnd`,
`DrainEndsInTime`), which the prover does not handle under fairness, and of the register

- `AppliesCleanly`, which is false of some registers (`register_first_slug` is one), so it holds
  of the histories of `register` and of no theorem;
- `RunsConverge` and `VanishedSchoolIsHandled`, which compare the plan of one run with the plan
  of the next, made from what the first one wrote: the whole planner twice;
- `SqlFollowsTheReference`, since `RegisterReference` writes its tables with `:>` and `@@`, which
  the prover does not know.

## Plan

Done: the models of all components above, and the proofs of every safety property that a run
checks but the four of the register listed above. Of those, `VanishedSchoolIsHandled` looks
provable: it needs that a number blocked in one run is blocked in the next.

## Not modelled

- Cryptography and encodings, HTTP routing, configuration, logging and the pool's options:
  no state that the properties tell apart.
- Text rules: normalisation, slugs, trigrams, collation, search text. Where a decision rests
  on them, their result is a constant or a parameter.
- The arrangement and wording of the directory, the address lists and the register export.
- The parsing of the four source registers and the enrichment from Brreg.
- The key-service client's message calls, its development token; the database's grants. Checks and indexes
  appear where a transaction relies on them.
- Infrastructure and operations scripts, and the development tools under `.agents`, which
  are not part of the portal.
