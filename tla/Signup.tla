------------------------------- MODULE Signup -------------------------------
(***************************************************************************)
(* Signup, expiry and activation of an FAU:                                 *)
(* crates/persistence/src/membership/signup.rs.                             *)
(*                                                                         *)
(* Unlike the membership transactions these take no tenant lock first, so   *)
(* each statement is a step of its own at READ COMMITTED: a read sees the   *)
(* committed tenants less the transaction's own deletions; a delete chooses *)
(* its rows when it starts, waits for each row's lock and then looks at the *)
(* row's status again; an insert waits for any open transaction that has    *)
(* inserted or deleted a live FAU of the school.  PostgreSQL's waiting and  *)
(* re-checking are external to the code.                                   *)
(*                                                                         *)
(* tenant_signups lives and dies with a pending tenant, so its columns are  *)
(* fields of the tenant's row.                                             *)
(***************************************************************************)
EXTENDS Naturals, FiniteSets

CONSTANTS
  School, Address, Transaction,
  AnySchool, NoAddress, NoTenant,
  PendingDays, AdminEndMin, AdminEndMax, MaxPending,
  Incident,                      \* the outside interventions a run includes
  LastDay, MaxLag, MaxSignups    \* bounds

ASSUME NameAssumption ==
  AnySchool \notin School /\ NoAddress \notin Address /\ NoTenant \notin Nat

ASSUME NumberAssumption ==
  /\ PendingDays \in Nat
  /\ MaxLag < PendingDays
  /\ AdminEndMin \in Nat
  /\ AdminEndMax \in Nat
  /\ MaxPending \in Nat
  /\ LastDay \in Nat
  /\ MaxLag \in Nat
  /\ MaxSignups \in Nat

VARIABLES
  today,
  tenant,    \* the committed tenants by id, pending ones with their signup
  made,      \* how many tenant ids signups have drawn; they are 1 .. made
  task       \* the open transactions

vars == <<today, tenant, made, task>>

NoTask ==
  [pc |-> "idle", at |-> 0, school |-> AnySchool, address |-> NoAddress, ends |-> 0,
   due |-> {}, deleted |-> {}, target |-> 0, attempt |-> 1,
   taken |-> [status |-> "none", expires |-> 0]]

Init ==
  /\ today = 0
  /\ tenant = [t \in {} |-> {}]
  /\ made = 0
  /\ task = [r \in Transaction |-> NoTask]

\* The clocks a request may carry: its transaction may have waited since.
AtDays == {d \in 0 .. today : today <= d + MaxLag}

IsLive(t) == tenant[t].status \in {"pending", "active"}

\* A transaction holds a row's lock by its uncommitted delete, or by the lock_tenant of an
\* activation.
Locks(q, t) ==
  \/ t \in task[q].deleted
  \/ task[q].pc = "activate" /\ task[q].target = t

RowFree(r, t) == \A q \in Transaction \ {r} : ~Locks(q, t)

\* live_tenant_for_school, for the transaction's school.
LiveTenantForSchool(r) ==
  {t \in DOMAIN tenant \ task[r].deleted : tenant[t].school = task[r].school /\ IsLive(t)}

WithoutDeleted(r) == [t \in DOMAIN tenant \ task[r].deleted |-> tenant[t]]

End(r) == task' = [task EXCEPT ![r] = NoTask]

-----------------------------------------------------------------------------
(* create_pending_tenant *)

\* validate_admin_end comes first, both bounds inclusive.  The id is drawn here; a second
\* attempt may keep it, since the first has stored nothing.
BeginSignup(r, at, s, p, ends) ==
  /\ task[r] = NoTask
  /\ at + AdminEndMin <= ends /\ ends <= at + AdminEndMax
  /\ made < MaxSignups
  /\ made' = made + 1
  /\ task' = [task EXCEPT ![r] = [NoTask EXCEPT !.pc = "lock", !.at = at, !.school = s,
                                     !.address = p, !.ends = ends, !.target = made + 1]]
  /\ UNCHANGED <<today, tenant>>

\* Mutant: two forms from one address run side by side.
NoAddressLock(r) == TRUE

\* The advisory lock on the registrant's address, held to the transaction's end.
HoldsAddress(q, p) == task[q].address = p /\ task[q].pc # "lock"

AddressFree(r) ==
  \A q \in Transaction \ {r} : ~HoldsAddress(q, task[r].address)

LockAddress(r) ==
  /\ task[r].pc = "lock"
  /\ AddressFree(r)
  /\ task' = [task EXCEPT ![r].pc = "scan"]
  /\ UNCHANGED <<today, tenant, made>>

\* Mutant: a signup leaves the expired FAU of its school to the sweep.
SweepFindsDue(r) ==
  {t \in DOMAIN tenant :
     /\ tenant[t].status = "pending"
     /\ tenant[t].expires <= task[r].at
     /\ task[r].school = AnySchool}

\* Mutant: a signup clears every school, not only its own.
AnySchoolsDue(r) ==
  {t \in DOMAIN tenant : tenant[t].status = "pending" /\ tenant[t].expires <= task[r].at}

\* The rows the delete of expire_due chooses when it starts.
DueTenants(r) ==
  {t \in DOMAIN tenant :
     /\ tenant[t].status = "pending"
     /\ tenant[t].expires <= task[r].at
     /\ task[r].school \in {AnySchool, tenant[t].school}}

ExpireScan(r) ==
  /\ task[r].pc = "scan"
  /\ task' = [task EXCEPT ![r].pc = "delete", ![r].due = DueTenants(r)]
  /\ UNCHANGED <<today, tenant, made>>

\* Mutant: the delete does not look at the row again after it has waited for it.
StillThere(t) == t \in DOMAIN tenant

\* The row as it is once its lock is free: gone, active, or still to be deleted.
StillPending(t) == t \in DOMAIN tenant /\ tenant[t].status = "pending"

ExpireDelete(r, t) ==
  /\ task[r].pc = "delete"
  /\ t \in task[r].due
  /\ RowFree(r, t)
  /\ task' = [task EXCEPT ![r].due = @ \ {t},
                          ![r].deleted = IF StillPending(t) THEN @ \cup {t} ELSE @]
  /\ UNCHANGED <<today, tenant, made>>

\* The school's live FAU, if it has one, is what a collision tells of.
Collide(r) ==
  \E t \in LiveTenantForSchool(r) :
    task' = [task EXCEPT ![r].pc = "collide",
               ![r].taken = [status |-> tenant[t].status, expires |-> tenant[t].expires]]

CheckSchool(r) ==
  /\ task[r].pc = "delete"
  /\ task[r].due = {}
  /\ task[r].school # AnySchool
  /\ \/ Collide(r)
     \/ /\ LiveTenantForSchool(r) = {}
        /\ task' = [task EXCEPT ![r].pc = "count"]
  /\ UNCHANGED <<today, tenant, made>>

\* The address's pending signups that have not run out.
PendingSignups(p, at, ids) ==
  {t \in ids : tenant[t].status = "pending" /\ tenant[t].registrant = p /\ at < tenant[t].expires}

CheckPendingLimit(r) ==
  /\ task[r].pc = "count"
  /\ LET pending == Cardinality(PendingSignups(task[r].address, task[r].at,
                                               DOMAIN tenant \ task[r].deleted))
     IN  \/ pending >= MaxPending /\ End(r)
         \/ pending < MaxPending /\ task' = [task EXCEPT ![r].pc = "insert"]
  /\ UNCHANGED <<today, tenant, made>>

\* The unique index makes an insert wait for whoever is inserting or deleting a live FAU
\* of the school.
HoldsSchool(q, s) ==
  \/ task[q].pc = "commit" /\ task[q].school = s
  \/ \E t \in task[q].deleted : tenant[t].school = s

IndexFree(r) == \A q \in Transaction \ {r} : ~HoldsSchool(q, task[r].school)

TryInsertTenant(r) ==
  /\ task[r].pc = "insert"
  /\ IndexFree(r)
  /\ \/ /\ LiveTenantForSchool(r) = {}
        /\ task' = [task EXCEPT ![r].pc = "commit"]
     \/ /\ LiveTenantForSchool(r) # {}
        /\ task' = [task EXCEPT ![r].pc = "reread"]
  /\ UNCHANGED <<today, tenant, made>>

\* A lost race: somebody holds the school now, or held it and is gone again.  The second
\* loss is SignupRaceUnresolved.
Reread(r) ==
  /\ task[r].pc = "reread"
  /\ \/ Collide(r)
     \/ /\ LiveTenantForSchool(r) = {}
        /\ task[r].attempt = 1
        /\ task' = [task EXCEPT ![r].pc = "insert", ![r].attempt = 2]
     \/ /\ LiveTenantForSchool(r) = {}
        /\ task[r].attempt = 2
        /\ End(r)
  /\ UNCHANGED <<today, tenant, made>>

\* The refusal still commits, its expired FAUs with it.
RecordCollision(r) ==
  /\ task[r].pc = "collide"
  /\ tenant' = WithoutDeleted(r)
  /\ End(r)
  /\ UNCHANGED <<today, made>>

CommitSignup(r) ==
  /\ task[r].pc = "commit"
  /\ tenant' = [t \in (DOMAIN tenant \ task[r].deleted) \cup {task[r].target} |->
       IF t = task[r].target
       THEN [school |-> task[r].school, status |-> "pending", registrant |-> task[r].address,
             ends |-> task[r].ends, expires |-> task[r].at + PendingDays, frozen |-> FALSE]
       ELSE tenant[t]]
  /\ End(r)
  /\ UNCHANGED <<today, made>>

-----------------------------------------------------------------------------
(* expire_pending_tenants: expire_due without a school. *)

BeginSweep(r, at) ==
  /\ task[r] = NoTask
  /\ task' = [task EXCEPT ![r] = [NoTask EXCEPT !.pc = "scan", !.at = at]]
  /\ UNCHANGED <<today, tenant, made>>

CommitSweep(r) ==
  /\ task[r].pc = "delete"
  /\ task[r].school = AnySchool
  /\ task[r].due = {}
  /\ tenant' = WithoutDeleted(r)
  /\ End(r)
  /\ UNCHANGED <<today, made>>

-----------------------------------------------------------------------------
(* activate_tenant *)

\* lock_tenant and the checks under it.  A refusal changes nothing.
LockForActivation(r, at, t, registrant) ==
  /\ task[r] = NoTask
  /\ t \in DOMAIN tenant
  /\ RowFree(r, t)
  /\ tenant[t].status = "pending"
  /\ ~tenant[t].frozen
  /\ at < tenant[t].expires
  /\ tenant[t].registrant = registrant
  /\ at < tenant[t].ends
  /\ task' = [task EXCEPT ![r] = [NoTask EXCEPT !.pc = "activate", !.at = at, !.target = t]]
  /\ UNCHANGED <<today, tenant, made>>

\* Everything else of the activation, up to its commit.
CommitActivation(r) ==
  /\ task[r].pc = "activate"
  /\ tenant' = [tenant EXCEPT ![task[r].target].status = "active"]
  /\ End(r)
  /\ UNCHANGED <<today, made>>

\* The registrant's account is disabled: the transaction rolls back.
RefuseDisabledAccount(r) ==
  /\ "disabled" \in Incident
  /\ task[r].pc = "activate"
  /\ End(r)
  /\ UNCHANGED <<today, tenant, made>>

-----------------------------------------------------------------------------
(* The outside world. *)

\* Whom a transaction may be waiting for; the order in which a delete takes its rows is the
\* database's choice.
WaitsFor(r) ==
  {q \in Transaction \ {r} :
     \/ task[r].pc = "lock" /\ HoldsAddress(q, task[r].address)
     \/ task[r].pc = "delete" /\ \E t \in task[r].due : Locks(q, t)
     \/ task[r].pc = "insert" /\ HoldsSchool(q, task[r].school)}

InCircle(r) ==
  \E circle \in SUBSET {q \in Transaction : WaitsFor(q) # {}} :
    /\ r \in circle
    /\ \E next \in [circle -> circle] :
         /\ \A q \in circle : next[q] \in WaitsFor(q)
         /\ \A q \in circle : \E p \in circle : next[p] = q

\* PostgreSQL finds a circle and fails one of its transactions (40P01).
DeadlockDetected(r) ==
  /\ InCircle(r)
  /\ End(r)
  /\ UNCHANGED <<today, tenant, made>>

\* A connection is lost or the backend restarts: the transaction leaves nothing behind.
Abandon(r) ==
  /\ "crash" \in Incident
  /\ task[r] # NoTask
  /\ End(r)
  /\ UNCHANGED <<today, tenant, made>>

FreezeTenant(t) ==
  /\ "freeze" \in Incident
  /\ t \in DOMAIN tenant
  /\ \A q \in Transaction : ~Locks(q, t)
  /\ IsLive(t) /\ ~tenant[t].frozen
  /\ tenant' = [tenant EXCEPT ![t].frozen = TRUE]
  /\ UNCHANGED <<today, made, task>>

CloseTenant(t) ==
  /\ "close" \in Incident
  /\ t \in DOMAIN tenant
  /\ tenant[t].status = "active"
  /\ tenant' = [tenant EXCEPT ![t].status = "closed"]
  /\ UNCHANGED <<today, made, task>>

\* No transaction stays open for longer than MaxLag days.
Tick ==
  /\ today < LastDay
  /\ \A r \in Transaction : task[r] # NoTask => today < task[r].at + MaxLag
  /\ today' = today + 1
  /\ UNCHANGED <<tenant, made, task>>

-----------------------------------------------------------------------------
Step(r) ==
  \/ LockAddress(r)
  \/ ExpireScan(r)
  \/ \E t \in task[r].due : ExpireDelete(r, t)
  \/ CheckSchool(r)
  \/ CheckPendingLimit(r)
  \/ TryInsertTenant(r)
  \/ Reread(r)
  \/ RecordCollision(r)
  \/ CommitSignup(r)
  \/ CommitSweep(r)
  \/ CommitActivation(r)
  \/ RefuseDisabledAccount(r)

Next ==
  \/ \E r \in Transaction : Step(r) \/ DeadlockDetected(r) \/ Abandon(r)
  \/ \E r \in Transaction, at \in AtDays, s \in School, p \in Address :
       \E ends \in at + AdminEndMin .. at + AdminEndMax : BeginSignup(r, at, s, p, ends)
  \/ \E r \in Transaction, at \in AtDays : BeginSweep(r, at)
  \/ \E r \in Transaction, at \in AtDays, p \in Address, t \in DOMAIN tenant :
       LockForActivation(r, at, t, p)
  \/ \E t \in DOMAIN tenant : FreezeTenant(t) \/ CloseTenant(t)
  \/ Tick

Spec == Init /\ [][Next]_vars

-----------------------------------------------------------------------------
(* Properties. *)

TenantRow ==
  [school : School, status : {"pending", "active", "closed"}, registrant : Address,
   ends : Nat, expires : Nat, frozen : BOOLEAN]

TaskRow ==
  [pc : {"idle", "lock", "scan", "delete", "count", "insert", "reread", "collide", "commit",
         "activate"},
   at : 0 .. today, school : School \cup {AnySchool}, address : Address \cup {NoAddress},
   ends : Nat, due : SUBSET (1 .. made), deleted : SUBSET (1 .. made), target : 0 .. made,
   attempt : {1, 2}, taken : [status : {"none", "pending", "active"}, expires : Nat]]

\* Rows and transactions are well formed, and a row that a transaction has deleted or locked
\* is still there when it commits: expire_due and lock_tenant take the same row lock.
TypeOK ==
  /\ today \in Nat
  /\ made \in Nat
  /\ DOMAIN tenant \subseteq 1 .. made
  /\ \A t \in DOMAIN tenant : tenant[t] \in TenantRow
  /\ task \in [Transaction -> TaskRow]
  /\ \A r \in Transaction :
       /\ task[r].deleted \subseteq DOMAIN tenant
       /\ task[r].pc = "activate" => task[r].target \in DOMAIN tenant

\* A school has at most one pending or active FAU, whichever signups, sweeps and
\* activations overlap (tenants_one_live_per_school, with expire_due clearing the way).
OneLivePerSchool ==
  \A t, u \in DOMAIN tenant :
    tenant[t].school = tenant[u].school /\ IsLive(t) /\ IsLive(u) => t = u

\* One address never has more than MaxPending signups that are pending and have not run
\* out, although two of its forms may be submitted at once (the advisory lock of
\* create_pending_tenant).
PendingLimitHolds ==
  \A p \in Address : Cardinality(PendingSignups(p, today, DOMAIN tenant)) <= MaxPending

\* Nobody is told that a school is being registered by somebody whose time had run out when
\* the form was sent: the sweep need not have been there (expire_due at the start of
\* create_pending_tenant).
ExpiredSignupHoldsNoSchool ==
  \A r \in Transaction :
    task[r].pc = "collide" /\ task[r].taken.status = "pending" => task[r].at < task[r].taken.expires

\* Only sweeps can come to wait for each other in a circle, which PostgreSQL then breaks: a
\* signup or an activation is never failed for it, whatever overlaps (create_pending_tenant
\* takes its address's lock, its school's row and its school's index entry in this order).
OnlySweepsWaitInACircle == \A r \in Transaction : InCircle(r) => task[r].school = AnySchool

-----------------------------------------------------------------------------
(* Signup implements SchoolClaim. *)

Holder(s) == {t \in DOMAIN tenant : tenant[t].school = s /\ IsLive(t)}

ClaimOf(s) ==
  IF Holder(s) = {}
  THEN [tenant |-> NoTenant, status |-> "free", expires |-> 0]
  ELSE LET t == CHOOSE t \in Holder(s) : TRUE
       IN  [tenant |-> t, status |-> tenant[t].status, expires |-> tenant[t].expires]

ClaimMap == [s \in School |-> ClaimOf(s)]

Claims ==
  INSTANCE SchoolClaim WITH
    Tenant <- 1 .. MaxSignups, Deadline <- 0 .. LastDay + PendingDays,
    claim <- ClaimMap

\* Seen from a school, the statements of overlapping signups, sweeps and activations come to
\* the atomic steps of SchoolClaim: no FAU that became active while a delete waited for its
\* row is deleted, no school passes from one FAU to another before its time.
ImplementsClaim == Claims!Spec
=============================================================================
