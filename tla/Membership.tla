----------------------------- MODULE Membership -----------------------------
(***************************************************************************)
(* One FAU's memberships, role assignments, handover grants, invitations    *)
(* and requests: the transactions of crates/persistence/src/membership      *)
(* (roles.rs, handover.rs, invitations.rs, requests.rs and the helpers of   *)
(* sql.rs).                                                                *)
(*                                                                         *)
(* Every transaction here takes lock_tenant before it reads anything it     *)
(* acts on, so it is one step.  What the code reads BEFORE the lock is kept *)
(* apart: the caller's clock (`at` may lag behind `today` by MaxLag days),  *)
(* an acceptance prepared for a token that may be re-sent meanwhile, and    *)
(* the sweep's unlocked scan.  lapse_requests takes no tenant lock; its one *)
(* UPDATE re-checks each row's status, which makes it one step too.         *)
(*                                                                         *)
(* A person stands for an email address, its account and its membership     *)
(* row, of which there is at most one each.  A role is its capability       *)
(* class, an invitation offers one role, and all guest roles belong to one  *)
(* group.                                                                  *)
(*                                                                         *)
(* The transactions also write profiles (retention.rs), memberships of      *)
(* groups, the audit log, the outbox and change notices, in tables that no  *)
(* guard here reads; those belong to other components.                     *)
(***************************************************************************)
EXTENDS AccessRules, FiniteSets

CONSTANTS
  Person, NoOne,                 \* email addresses; the absent one
  Assignment, Invitation, Request, \* row ids, handed out in increasing order
  Seed,                          \* the assignments of the FAU's first members
  Leaders,                       \* who may hold the activation invitation; NoOne for none
  OfferedPeriods,                \* the periods an invitation or a grant may name
  OfferedClasses,                \* the capability classes it may name
  HandoverDays, InvitationDays, LapseDays, DailyLimit, AdminEndMin, AdminEndMax,
  Incident,                      \* the outside interventions a run includes
  LastDay, MaxLag, MaxToken, MaxInFlight, MaxSweeps   \* bounds

ASSUME PersonAssumption == NoOne \notin Person /\ Leaders \subseteq Person \cup {NoOne}

ASSUME IdAssumption ==
  /\ Assignment \subseteq Nat \ {0}
  /\ Invitation \subseteq Nat \ {0}
  /\ Request \subseteq Nat \ {0}
  /\ Leaders # {NoOne} => 1 \in Invitation

ASSUME PeriodAssumption ==
  /\ OfferedPeriods \subseteq [from : Nat, to : Nat]
  /\ \A p \in OfferedPeriods : p.from < p.to
  /\ OfferedClasses \subseteq CapabilityClass

ASSUME SeedAssumption ==
  /\ DOMAIN Seed \subseteq Assignment
  /\ \A a \in DOMAIN Seed :
       /\ Seed[a] \in [holder : Person, capability : CapabilityClass, from : Nat, to : Nat]
       /\ Seed[a].from < Seed[a].to

ASSUME NumberAssumption ==
  /\ HandoverDays \in Nat \ {0}
  /\ InvitationDays \in Nat \ {0}
  /\ LapseDays \in Nat
  /\ DailyLimit \in Nat
  /\ AdminEndMin \in Nat \ {0}
  /\ AdminEndMax \in Nat
  /\ LastDay \in Nat
  /\ MaxLag \in Nat
  /\ MaxToken \in Nat
  /\ MaxInFlight \in Nat
  /\ MaxSweeps \in Nat

VARIABLES
  today,        \* the Europe/Oslo date
  tenant,       \* status and freeze of the FAU, and whether its guests' group is archived
  account,      \* per address: absent, usable (verified) or disabled
  membership,   \* per address: none, active or revoked
  tenure,       \* history: how many times the membership has been revoked
  assignment,   \* role_assignments by id
  grant,        \* handover_grants by source assignment, unique in the schema
  invitation,   \* invitations by id
  accepting,    \* acceptances prepared by a recipient and not yet given up
  request,      \* access_requests by id
  seat,         \* who holds the recovery seat: EWB or a school representative
  sweeping      \* clocks of handover sweeps between their scan and the tenant's turn

vars == <<today, tenant, account, membership, tenure, assignment, grant,
          invitation, accepting, request, seat, sweeping>>

Ewb == "ewb"
SeatKind(s) == IF s = Ewb THEN "ewb" ELSE "school_rep"

-----------------------------------------------------------------------------
(* Rows and reads shared by the transactions (sql.rs). *)

Insert(table, id, row) ==
  [x \in DOMAIN table \cup {id} |-> IF x = id THEN row ELSE table[x]]

\* The next id of a table, if the bound leaves one.
Fresh(table, Ids) ==
  {id \in Ids \ DOMAIN table : \A other \in Ids \ DOMAIN table : id <= other}

\* The clocks a request may carry: taken by the caller before it waited for the lock.
AtDays == {d \in 0 .. today : today <= d + MaxLag}

Open == tenant.status = "active" /\ ~tenant.frozen

Usable(p) == membership[p] = "active" /\ account[p] = "usable"

Held(p) == {a \in DOMAIN assignment : assignment[a].holder = p}

IsAdminToday(p, at) ==
  /\ Usable(p)
  /\ \E a \in Held(p) : assignment[a].capability = "admin" /\ ValidOn(assignment[a], at)

HandoverPeriod(to) == [from |-> to, to |-> to + HandoverDays]

HandoverGrantValid(g, p, at) ==
  /\ g \in DOMAIN grant
  /\ assignment[g].holder = p
  /\ ~assignment[g].revoked
  /\ ValidOn(grant[g], at)
  /\ Usable(p)

\* AdminState::load: the rows of people who can use them.
AdminRows ==
  {a \in DOMAIN assignment : assignment[a].capability = "admin" /\ Usable(assignment[a].holder)}
GrantRows ==
  {g \in DOMAIN grant : ~assignment[g].revoked /\ Usable(assignment[g].holder)}
AssignmentViews(ids) == {assignment[a] : a \in ids}
GrantViews(ids) == {grant[g] : g \in ids}

HasAdmin(day) == TenantHasAdmin(AssignmentViews(AdminRows), GrantViews(GrantRows), day)

\* Mutant: the safeguard looks at today alone.
CheckLastAdminToday(at, confirm, removed) ==
  \/ confirm
  \/ TenantHasAdmin(AssignmentViews(AdminRows \ removed), GrantViews(GrantRows \ removed), at)

\* Whether the removal may go ahead: it leaves every day covered, or the caller has
\* confirmed that it does not.
CheckLastAdmin(at, confirm, removed) ==
  \/ confirm
  \/ ~RemovalLeavesNoAdmin(
        AssignmentViews(AdminRows \ removed), GrantViews(GrantRows \ removed),
        AssignmentViews(AdminRows \cap removed), GrantViews(GrantRows \cap removed), at)

\* `tenure`, `late` (written when its period was already over) and `via` (the invitation it
\* came from) are history: the code keeps them in its audit log only.
NewAssignment(p, class, period, via) ==
  [holder |-> p, capability |-> class, from |-> period.from, to |-> period.to,
   revoked |-> FALSE, tenure |-> tenure[p], late |-> HasEndedBy(period, today), via |-> via]

RevokeAssignments(ids) ==
  [a \in DOMAIN assignment |->
     IF a \in ids THEN [assignment[a] EXCEPT !.revoked = TRUE] ELSE assignment[a]]

RevokeGrants(ids) ==
  [g \in DOMAIN grant |->
     IF g \in ids THEN [grant[g] EXCEPT !.revoked = TRUE] ELSE grant[g]]

\* The row stores the kind of the recovery seat; `author`, who sat in it, is history.
NewInvitation(at, mode, recipient, issuer, g, r, class, period) ==
  [mode |-> mode, recipient |-> recipient, issuer |-> issuer, grant |-> g, request |-> r,
   holder |-> SeatKind(seat), author |-> seat,
   capability |-> class, from |-> period.from, to |-> period.to,
   expires |-> at + InvitationDays, token |-> 1, status |-> "pending"]

\* A guest role belongs to a group, and an archived group takes nobody in.
GroupTakes(class) == class = "guest" => ~tenant.archived

\* resolve_roles: what may be offered or granted at all.
Offerable(at, class, period) == ~HasEndedBy(period, at) /\ GroupTakes(class)

-----------------------------------------------------------------------------
(* The FAU just after activation and its first acceptances. *)

Init ==
  /\ today = 0
  /\ tenant = [status |-> "active", frozen |-> FALSE, archived |-> FALSE]
  /\ membership = [p \in Person |->
       IF \E a \in DOMAIN Seed : Seed[a].holder = p THEN "active" ELSE "none"]
  /\ account = [p \in Person |-> IF membership[p] = "active" THEN "usable" ELSE "absent"]
  /\ tenure = [p \in Person |-> 0]
  /\ assignment = [a \in DOMAIN Seed |->
       [holder |-> Seed[a].holder, capability |-> Seed[a].capability, from |-> Seed[a].from,
        to |-> Seed[a].to, revoked |-> FALSE, tenure |-> 0, late |-> FALSE, via |-> 0]]
  /\ grant = [g \in {} |-> {}]
  /\ seat = Ewb
  /\ \E leader \in Leaders, period \in OfferedPeriods :
       invitation = [i \in IF leader = NoOne THEN {} ELSE {1} |->
         NewInvitation(0, "activation", leader, NoOne, 0, 0, "admin", period)]
  /\ accepting = {}
  /\ request = [r \in {} |-> {}]
  /\ sweeping = {}

-----------------------------------------------------------------------------
(* roles.rs *)

GrantRole(at, actor, p, class, period) ==
  /\ Open
  /\ IsAdminToday(actor, at)
  /\ Usable(p)
  /\ Offerable(at, class, period)
  /\ \E a \in Fresh(assignment, Assignment) :
       assignment' = Insert(assignment, a, NewAssignment(p, class, period, 0))
  /\ UNCHANGED <<today, tenant, account, membership, tenure, grant,
                 invitation, accepting, request, seat, sweeping>>

RevokeOneAssignment(a) ==
  assignment' = RevokeAssignments({a}) /\ grant' = RevokeGrants({a})

\* Allowed on a frozen FAU: it only takes rights away.
RevokeRoleAssignment(at, actor, a, confirm) ==
  /\ a \in DOMAIN assignment
  /\ IsAdminToday(actor, at) \/ assignment[a].holder = actor
  /\ ~assignment[a].revoked
  /\ CheckLastAdmin(at, confirm, {a})
  /\ RevokeOneAssignment(a)
  /\ UNCHANGED <<today, tenant, account, membership, tenure,
                 invitation, accepting, request, seat, sweeping>>

\* Mutant: ended admin roles are taken for history although their window is still open.
RunningRolesOnly(p, at) ==
  {a \in Held(p) : ~assignment[a].revoked /\ ~HasEndedBy(assignment[a], at)}

\* The assignments that could still confer something: running or future ones, and ended
\* admin roles whose handover window is not over.
StillConferring(p, at) ==
  {a \in Held(p) :
     /\ ~assignment[a].revoked
     /\ \/ ~HasEndedBy(assignment[a], at)
        \/ /\ assignment[a].capability = "admin"
           /\ ~HasEndedBy(HandoverPeriod(assignment[a].to), at)}

\* The member's own proposals, and a request sent from their address before they joined.
WithdrawPendingRequests(p) ==
  [r \in DOMAIN request |->
     IF request[r].requester = p /\ request[r].status = "pending"
     THEN [request[r] EXCEPT !.status = "withdrawn"] ELSE request[r]]

RevokeMembership(at, actor, p, confirm) ==
  /\ actor = p \/ IsAdminToday(actor, at)
  /\ membership[p] = "active"
  /\ CheckLastAdmin(at, confirm, Held(p))
  /\ assignment' = RevokeAssignments(StillConferring(p, at))
  /\ membership' = [membership EXCEPT ![p] = "revoked"]
  /\ tenure' = [tenure EXCEPT ![p] = @ + 1]
  /\ grant' = RevokeGrants(Held(p))
  /\ request' = WithdrawPendingRequests(p)
  /\ UNCHANGED <<today, tenant, account, invitation, accepting, seat, sweeping>>

-----------------------------------------------------------------------------
(* handover.rs *)

\* The unlocked scan decides only whether the tenant is worth locking.
SweepScan(at) ==
  /\ Cardinality(sweeping) < MaxSweeps
  /\ \E a \in DOMAIN assignment \ DOMAIN grant :
       /\ assignment[a].capability = "admin"
       /\ ~assignment[a].revoked
       /\ HasEndedBy(assignment[a], at)
  /\ sweeping' = sweeping \cup {at}
  /\ UNCHANGED <<today, tenant, account, membership, tenure, assignment, grant,
                 invitation, accepting, request, seat>>

\* Mutant: the candidates are not re-read under the lock for a usable holder.
ScannedCandidates(at) ==
  {a \in DOMAIN assignment \ DOMAIN grant :
     /\ assignment[a].capability = "admin"
     /\ ~assignment[a].revoked
     /\ HasEndedBy(assignment[a], at)
     /\ ~HasEndedBy(HandoverPeriod(assignment[a].to), at)}

HandoverCandidates(at) ==
  {a \in DOMAIN assignment \ DOMAIN grant :
     /\ assignment[a].capability = "admin"
     /\ ~assignment[a].revoked
     /\ Usable(assignment[a].holder)
     /\ HasEndedBy(assignment[a], at)
     /\ ~HasEndedBy(HandoverPeriod(assignment[a].to), at)}

HandoverGrant(a) ==
  [from |-> HandoverPeriod(assignment[a].to).from,
   to |-> HandoverPeriod(assignment[a].to).to, revoked |-> FALSE]

\* The tenant's turn, under its lock and still with the scan's clock.  A frozen FAU gets
\* its grants, one that is not active gets none.
SweepTenant(at) ==
  /\ at \in sweeping
  /\ sweeping' = sweeping \ {at}
  /\ LET new == IF tenant.status = "active" THEN HandoverCandidates(at) ELSE {}
     IN  grant' = [g \in DOMAIN grant \cup new |->
                     IF g \in new THEN HandoverGrant(g) ELSE grant[g]]
  /\ UNCHANGED <<today, tenant, account, membership, tenure, assignment,
                 invitation, accepting, request, seat>>

\* An error in an earlier tenant's turn, or a restart, ends the sweep before this tenant.
SweepStops(at) ==
  /\ at \in sweeping
  /\ sweeping' = sweeping \ {at}
  /\ UNCHANGED <<today, tenant, account, membership, tenure, assignment, grant,
                 invitation, accepting, request, seat>>

\* The seat holder invites an admin while the FAU has none.
RecoveryGrantAdmin(at, recipient, period) ==
  /\ Open
  /\ recipient # seat
  /\ ~HasAdmin(at)
  /\ Offerable(at, "admin", period)
  /\ \E i \in Fresh(invitation, Invitation) :
       invitation' = Insert(invitation, i,
         NewInvitation(at, "recovery", recipient, NoOne, 0, 0, "admin", period))
  /\ UNCHANGED <<today, tenant, account, membership, tenure, assignment, grant,
                 accepting, request, seat, sweeping>>

-----------------------------------------------------------------------------
(* invitations.rs *)

\* issue_invitation without a grant, mode normal.
IssueInvitation(at, actor, recipient, class, period) ==
  /\ Open
  /\ IsAdminToday(actor, at)
  /\ Offerable(at, class, period)
  /\ \E i \in Fresh(invitation, Invitation) :
       invitation' = Insert(invitation, i,
         NewInvitation(at, "normal", recipient, actor, 0, 0, class, period))
  /\ UNCHANGED <<today, tenant, account, membership, tenure, assignment, grant,
                 accepting, request, seat, sweeping>>

\* issue_invitation on a handover grant: no guest role, never to oneself.
IssueHandoverInvitation(at, actor, g, recipient, class, period) ==
  /\ Open
  /\ HandoverGrantValid(g, actor, at)
  /\ class # "guest"
  /\ recipient # actor
  /\ Offerable(at, class, period)
  /\ \E i \in Fresh(invitation, Invitation) :
       invitation' = Insert(invitation, i,
         NewInvitation(at, "handover", recipient, actor, g, 0, class, period))
  /\ UNCHANGED <<today, tenant, account, membership, tenure, assignment, grant,
                 accepting, request, seat, sweeping>>

\* authorize_change: any admin, or the issuer within what their mode still allows.
AuthorizeChange(at, actor, i, kind) ==
  \/ IsAdminToday(actor, at)
  \/ /\ invitation[i].issuer = actor
     /\ \/ /\ kind = "resend"
           /\ invitation[i].mode = "handover"
           /\ HandoverGrantValid(invitation[i].grant, actor, at)
        \/ /\ kind = "withdraw"
           /\ invitation[i].mode \in {"normal", "handover"}
           /\ Usable(actor)

ResendInvitation(at, actor, i) ==
  /\ i \in DOMAIN invitation
  /\ AuthorizeChange(at, actor, i, "resend")
  /\ Open
  /\ GroupTakes(invitation[i].capability)
  /\ invitation[i].status = "pending"
  /\ invitation[i].token < MaxToken
  /\ invitation' = [invitation EXCEPT ![i].token = @ + 1,
                                      ![i].expires = at + InvitationDays]
  /\ UNCHANGED <<today, tenant, account, membership, tenure, assignment, grant,
                 accepting, request, seat, sweeping>>

\* Allowed on a frozen FAU.
WithdrawInvitation(at, actor, i) ==
  /\ i \in DOMAIN invitation
  /\ AuthorizeChange(at, actor, i, "withdraw")
  /\ invitation[i].status = "pending"
  /\ invitation' = [invitation EXCEPT ![i].status = "revoked"]
  /\ UNCHANGED <<today, tenant, account, membership, tenure, assignment, grant,
                 accepting, request, seat, sweeping>>

\* prepare_acceptance: the recipient presents the current token and is told which
\* membership row to encrypt their profile for, their own or a fresh one.
PrepareAcceptance(i) ==
  /\ Cardinality(accepting) < MaxInFlight
  /\ i \in DOMAIN invitation
  /\ accepting' = accepting \cup
       {[inv |-> i, token |-> invitation[i].token,
         fresh |-> membership[invitation[i].recipient] = "none"]}
  /\ UNCHANGED <<today, tenant, account, membership, tenure, assignment, grant,
                 invitation, request, seat, sweeping>>

\* Mutant: who issued an invitation is not looked at again.
IssuerAuthorisedOnIssue(i, at) ==
  invitation[i].mode = "recovery" => ~HasAdmin(at) /\ invitation[i].holder = SeatKind(seat)

\* Mutant: a recovery invitation outlives the seat that wrote it.
IssuerAuthorisedAnySeat(i, at) ==
  LET inv == invitation[i]
  IN  \/ inv.mode = "normal" /\ IsAdminToday(inv.issuer, at)
      \/ inv.mode = "handover" /\ HandoverGrantValid(inv.grant, inv.issuer, at)
      \/ inv.mode = "recovery" /\ ~HasAdmin(at)
      \/ inv.mode = "activation"

\* Whether the issuer's authority still stands (check_acceptance's last rule).
IssuerAuthorised(i, at) ==
  LET inv == invitation[i]
  IN  \/ inv.mode = "normal" /\ IsAdminToday(inv.issuer, at)
      \/ inv.mode = "handover" /\ HandoverGrantValid(inv.grant, inv.issuer, at)
      \/ inv.mode = "recovery" /\ ~HasAdmin(at) /\ inv.holder = SeatKind(seat)
      \/ inv.mode = "activation"

\* validate_admin_end, both bounds inclusive.
ValidAdminEnd(at, end) == at + AdminEndMin <= end /\ end <= at + AdminEndMax

NoOverride == 0

\* The period an acceptance activates: only the activation invitation lets the recipient
\* choose the admin role's end.
AcceptedPeriod(i, end) ==
  [from |-> invitation[i].from,
   to |-> IF end # NoOverride /\ invitation[i].capability = "admin"
          THEN end ELSE invitation[i].to]

\* The offered guest role's group may have been archived since.
OfferedRoleStands(i) == GroupTakes(invitation[i].capability)

\* Period::new refuses an end that leaves the invited period empty.
PeriodStands(i, end) == AcceptedPeriod(i, end).from < AcceptedPeriod(i, end).to

\* Mutant: the invitation found before the lock is trusted under it.
InvitationFound(q) == invitation[q.inv].status = "pending"

\* Mutant: an accepted invitation is not refused a second time.
InvitationNotRevoked(q) ==
  invitation[q.inv].token = q.token /\ invitation[q.inv].status # "revoked"

\* lock_invitation under the tenant lock: the token found before it must still be the
\* invitation's, and the invitation neither accepted nor revoked.
InvitationStands(q) ==
  /\ invitation[q.inv].token = q.token
  /\ invitation[q.inv].status = "pending"

AcceptInvitation(at, q, end) ==
  LET p == invitation[q.inv].recipient
  IN  /\ q \in accepting
      /\ InvitationStands(q)
      /\ at < invitation[q.inv].expires
      /\ account[p] # "disabled"
      /\ Open
      /\ IssuerAuthorised(q.inv, at)
      /\ OfferedRoleStands(q.inv)
      /\ \/ end = NoOverride
         \/ invitation[q.inv].mode = "activation" /\ ValidAdminEnd(at, end)
      /\ PeriodStands(q.inv, end)
      /\ q.fresh <=> membership[p] = "none"
      /\ account' = [account EXCEPT ![p] = "usable"]
      /\ membership' = [membership EXCEPT ![p] = "active"]
      /\ \E a \in Fresh(assignment, Assignment) :
           assignment' = Insert(assignment, a,
             NewAssignment(p, invitation[q.inv].capability, AcceptedPeriod(q.inv, end), q.inv))
      /\ invitation' = [invitation EXCEPT ![q.inv].status = "accepted"]
      /\ UNCHANGED <<today, tenant, tenure, grant, accepting, request, seat, sweeping>>

\* The client gives up, refused or not; until then it may send the same acceptance again.
DropAcceptance(q) ==
  /\ q \in accepting
  /\ accepting' = accepting \ {q}
  /\ UNCHANGED <<today, tenant, account, membership, tenure, assignment, grant,
                 invitation, request, seat, sweeping>>

-----------------------------------------------------------------------------
(* requests.rs *)

CheckLimits(p, at) ==
  /\ ~\E r \in DOMAIN request : request[r].requester = p /\ request[r].status = "pending"
  /\ Cardinality({r \in DOMAIN request : request[r].created = at}) < DailyLimit

InsertRequest(at, kind, p, invitee) ==
  \E r \in Fresh(request, Request) :
    request' = Insert(request, r,
      [kind |-> kind, requester |-> p, invitee |-> invitee, created |-> at,
       status |-> "pending"])

CreateAccessRequest(at, p) ==
  /\ Open
  /\ CheckLimits(p, at)
  /\ InsertRequest(at, "access", p, p)
  /\ UNCHANGED <<today, tenant, account, membership, tenure, assignment, grant,
                 invitation, accepting, seat, sweeping>>

\* A member proposes a successor for a role they hold today.
CreateReplacementProposal(at, p, a, successor) ==
  /\ Open
  /\ Usable(p)
  /\ a \in Held(p)
  /\ ValidOn(assignment[a], at)
  /\ CheckLimits(p, at)
  /\ InsertRequest(at, "replacement", p, successor)
  /\ UNCHANGED <<today, tenant, account, membership, tenure, assignment, grant,
                 invitation, accepting, seat, sweeping>>

LockPendingRequest(r) == r \in DOMAIN request /\ request[r].status = "pending"

CloseRequest(r, status) == request' = [request EXCEPT ![r].status = status]

\* Mutant: the approval issues its invitation and leaves the request open.
ApproveRequestLeftOpen(at, actor, r, class, period) ==
  /\ Open
  /\ IsAdminToday(actor, at)
  /\ LockPendingRequest(r)
  /\ Offerable(at, class, period)
  /\ \E i \in Fresh(invitation, Invitation) :
       invitation' = Insert(invitation, i,
         NewInvitation(at, "normal", request[r].invitee, actor, 0, r, class, period))
  /\ UNCHANGED <<today, tenant, account, membership, tenure, assignment, grant,
                 accepting, request, seat, sweeping>>

ApproveRequest(at, actor, r, class, period) ==
  /\ Open
  /\ IsAdminToday(actor, at)
  /\ LockPendingRequest(r)
  /\ Offerable(at, class, period)
  /\ \E i \in Fresh(invitation, Invitation) :
       invitation' = Insert(invitation, i,
         NewInvitation(at, "normal", request[r].invitee, actor, 0, r, class, period))
  /\ CloseRequest(r, "approved")
  /\ UNCHANGED <<today, tenant, account, membership, tenure, assignment, grant,
                 accepting, seat, sweeping>>

\* Allowed on a frozen FAU.
DeclineRequest(at, actor, r) ==
  /\ IsAdminToday(actor, at)
  /\ LockPendingRequest(r)
  /\ CloseRequest(r, "declined")
  /\ UNCHANGED <<today, tenant, account, membership, tenure, assignment, grant,
                 invitation, accepting, seat, sweeping>>

\* Mutant: the sweep's UPDATE forgets that a request may be closed already.
DueByAge(at) == {r \in DOMAIN request : request[r].created + LapseDays <= at}

DueRequests(at) ==
  {r \in DOMAIN request :
     request[r].status = "pending" /\ request[r].created + LapseDays <= at}

LapseRequests(at) ==
  /\ DueRequests(at) # {}
  /\ request' = [r \in DOMAIN request |->
       IF r \in DueRequests(at) THEN [request[r] EXCEPT !.status = "lapsed"] ELSE request[r]]
  /\ UNCHANGED <<today, tenant, account, membership, tenure, assignment, grant,
                 invitation, accepting, seat, sweeping>>

-----------------------------------------------------------------------------
(* groups.rs, as far as roles depend on it. *)

\* One way, and allowed on a frozen FAU.  There is a group where there are guest roles.
ArchiveGroup(at, actor) ==
  /\ "guest" \in OfferedClasses
  /\ tenant.status = "active"
  /\ IsAdminToday(actor, at)
  /\ ~tenant.archived
  /\ tenant' = [tenant EXCEPT !.archived = TRUE]
  /\ UNCHANGED <<today, account, membership, tenure, assignment, grant,
                 invitation, accepting, request, seat, sweeping>>

-----------------------------------------------------------------------------
(* The outside world: the calendar, and what operators do to rows no code here writes. *)

Tick ==
  /\ today < LastDay
  /\ today' = today + 1
  /\ UNCHANGED <<tenant, account, membership, tenure, assignment, grant,
                 invitation, accepting, request, seat, sweeping>>

DisableAccount(p) ==
  /\ "disable" \in Incident
  /\ account[p] = "usable"
  /\ account' = [account EXCEPT ![p] = "disabled"]
  /\ UNCHANGED <<today, tenant, membership, tenure, assignment, grant,
                 invitation, accepting, request, seat, sweeping>>

SetFrozen(frozen) ==
  /\ "freeze" \in Incident
  /\ tenant.frozen # frozen
  /\ tenant' = [tenant EXCEPT !.frozen = frozen]
  /\ UNCHANGED <<today, account, membership, tenure, assignment, grant,
                 invitation, accepting, request, seat, sweeping>>

CloseTenant ==
  /\ "close" \in Incident
  /\ tenant.status = "active"
  /\ tenant' = [tenant EXCEPT !.status = "closed"]
  /\ UNCHANGED <<today, account, membership, tenure, assignment, grant,
                 invitation, accepting, request, seat, sweeping>>

\* The seat changes hands: EWB to a school representative and back, or one representative
\* to another.
SeatMoves(holder) ==
  /\ "seat" \in Incident
  /\ seat # holder
  /\ seat' = holder
  /\ UNCHANGED <<today, tenant, account, membership, tenure, assignment, grant,
                 invitation, accepting, request, sweeping>>

-----------------------------------------------------------------------------
RoleStep(at) ==
  \/ \E actor, p \in Person, class \in OfferedClasses, period \in OfferedPeriods :
       GrantRole(at, actor, p, class, period)
  \/ \E actor \in Person, a \in Assignment, confirm \in BOOLEAN :
       RevokeRoleAssignment(at, actor, a, confirm)
  \/ \E actor, p \in Person, confirm \in BOOLEAN : RevokeMembership(at, actor, p, confirm)

HandoverStep(at) ==
  \/ SweepScan(at)
  \/ \E recipient \in Person, period \in OfferedPeriods :
       RecoveryGrantAdmin(at, recipient, period)

InvitationStep(at) ==
  \/ \E actor, recipient \in Person, class \in OfferedClasses, period \in OfferedPeriods :
       IssueInvitation(at, actor, recipient, class, period)
  \/ \E actor, recipient \in Person, g \in Assignment,
        class \in OfferedClasses, period \in OfferedPeriods :
       IssueHandoverInvitation(at, actor, g, recipient, class, period)
  \/ \E actor \in Person, i \in Invitation : ResendInvitation(at, actor, i)
  \/ \E actor \in Person, i \in Invitation : WithdrawInvitation(at, actor, i)
  \/ \E q \in accepting, end \in {NoOverride} \cup (at + AdminEndMin .. at + AdminEndMax) :
       AcceptInvitation(at, q, end)

RequestStep(at) ==
  \/ \E p \in Person : CreateAccessRequest(at, p)
  \/ \E p, successor \in Person, a \in Assignment :
       CreateReplacementProposal(at, p, a, successor)
  \/ \E actor \in Person, r \in Request, class \in OfferedClasses, period \in OfferedPeriods :
       ApproveRequest(at, actor, r, class, period)
  \/ \E actor \in Person, r \in Request : DeclineRequest(at, actor, r)
  \/ LapseRequests(at)

OutsideStep ==
  \/ Tick
  \/ \E p \in Person : DisableAccount(p)
  \/ \E frozen \in BOOLEAN : SetFrozen(frozen)
  \/ CloseTenant
  \/ \E holder \in Person \cup {Ewb} : SeatMoves(holder)

Next ==
  \/ \E at \in AtDays : RoleStep(at) \/ HandoverStep(at) \/ InvitationStep(at) \/ RequestStep(at)
  \/ \E at \in sweeping : SweepTenant(at) \/ SweepStops(at)
  \/ \E at \in AtDays, actor \in Person : ArchiveGroup(at, actor)
  \/ \E i \in Invitation : PrepareAcceptance(i)
  \/ \E q \in accepting : DropAcceptance(q)
  \/ OutsideStep

Spec == Init /\ [][Next]_vars

-----------------------------------------------------------------------------
(* What a row may hold. *)

AssignmentRow ==
  [holder : Person, capability : CapabilityClass, from : Nat, to : Nat, revoked : BOOLEAN,
   tenure : Nat, late : BOOLEAN, via : Invitation \cup {0}]

GrantRow == [from : Nat, to : Nat, revoked : BOOLEAN]

InvitationRow ==
  [mode : {"normal", "handover", "recovery", "activation"}, recipient : Person,
   issuer : Person \cup {NoOne}, grant : Assignment \cup {0}, request : Request \cup {0},
   holder : {"ewb", "school_rep"}, author : Person \cup {Ewb}, capability : CapabilityClass, from : Nat, to : Nat,
   expires : Nat, token : Nat, status : {"pending", "accepted", "revoked"}]

RequestRow ==
  [kind : {"access", "replacement"}, requester : Person, invitee : Person, created : Nat,
   status : {"pending", "approved", "declined", "withdrawn", "lapsed"}]

FauType ==
  /\ today \in Nat
  /\ tenant \in [status : {"active", "closed"}, frozen : BOOLEAN, archived : BOOLEAN]
  /\ account \in [Person -> {"absent", "usable", "disabled"}]
  /\ membership \in [Person -> {"none", "active", "revoked"}]
  /\ tenure \in [Person -> Nat]
  /\ seat \in Person \cup {Ewb}
  /\ sweeping \subseteq 0 .. today

AssignmentType ==
  /\ DOMAIN assignment \subseteq Assignment
  /\ \A a \in DOMAIN assignment :
       assignment[a] \in AssignmentRow /\ assignment[a].from < assignment[a].to

GrantType ==
  /\ DOMAIN grant \subseteq DOMAIN assignment
  /\ \A g \in DOMAIN grant :
       grant[g] \in GrantRow /\ grant[g].from < grant[g].to

InvitationType ==
  /\ DOMAIN invitation \subseteq Invitation
  /\ \A i \in DOMAIN invitation :
       invitation[i] \in InvitationRow /\ invitation[i].from < invitation[i].to
  /\ accepting \subseteq [inv : DOMAIN invitation, token : Nat, fresh : BOOLEAN]

RequestType ==
  /\ DOMAIN request \subseteq Request
  /\ \A r \in DOMAIN request : request[r] \in RequestRow

\* Every table holds well-formed rows, every stored period is non-empty (the schema's
\* role_period_is_non_empty), a grant and an acceptance belong to existing rows, and no
\* sweep's clock runs ahead of the calendar.
TypeOK == FauType /\ AssignmentType /\ GrantType /\ InvitationType /\ RequestType

-----------------------------------------------------------------------------
(* Properties. *)

\* A handover grant that can be used stands behind an admin role nobody revoked, held by
\* somebody whose membership stands: the sweep of handover.rs racing the revocations of
\* roles.rs never leaves one behind.
LiveGrantHasLiveSource ==
  \A g \in DOMAIN grant :
    ~grant[g].revoked =>
      /\ assignment[g].capability = "admin"
      /\ ~assignment[g].revoked
      /\ membership[assignment[g].holder] = "active"

\* Nothing a removed member held before the removal ever confers anything again, neither
\* a role nor a handover window, even after they are invited back and the membership row
\* is reopened (revoke_ended_admin_roles_with_open_window in roles.rs).
FormerTenureIsInert ==
  \A a \in DOMAIN assignment :
    assignment[a].tenure < tenure[assignment[a].holder] /\ ~assignment[a].revoked =>
      /\ HasEndedBy(assignment[a], today)
      /\ assignment[a].capability = "admin" => HasEndedBy(HandoverPeriod(assignment[a].to), today)

Revocation(confirm) ==
  \E at \in AtDays, actor \in Person :
    \/ \E a \in Assignment : RevokeRoleAssignment(at, actor, a, confirm)
    \/ \E p \in Person : RevokeMembership(at, actor, p, confirm)

\* A day from today on that has an admin keeps one through every step, except an account
\* disabled from outside and a revocation that no caller gets through without confirming
\* it, whatever date their request carries (check_last_admin in sql.rs).
LosesCoverKnowingly ==
  \A day \in today .. LastDay + HandoverDays :
    HasAdmin(day) /\ ~HasAdmin(day)' =>
      \/ Revocation(TRUE) /\ ~Revocation(FALSE)
      \/ \E p \in Person : DisableAccount(p)

CoverLostOnlyKnowingly == [][LosesCoverKnowingly]_vars

\* An acceptance goes through only on the token in force at that moment: one prepared
\* before a re-send is refused although its first lookup found the invitation
\* (accept_invitation looks the token up before the lock and again under it).
ResentTokenAdmitsNobody ==
  [][\A i \in DOMAIN invitation :
       invitation[i].status = "pending" /\ invitation'[i].status = "accepted" =>
         \E q \in accepting : q.inv = i /\ q.token = invitation[i].token]_vars

\* A removed or disabled issuer's invitation admits nobody, also when the recipient had
\* the acceptance under way before the removal (check_acceptance reads the issuer's
\* authority under the lock).
InvitationDiesWithItsIssuer ==
  [][\A i \in DOMAIN invitation :
       /\ invitation[i].status = "pending" /\ invitation'[i].status = "accepted"
       /\ invitation[i].mode \in {"normal", "handover"}
       => Usable(invitation[i].issuer)]_vars

\* Whoever holds the recovery seat becomes an admin by a recovery invitation only if another
\* representative wrote it: never by its own, and never by one of EWB's from before it had
\* the seat (recovery_grant_admin, recovery_seat_matches).
SelfSeatingNeedsAnotherRepresentative ==
  [][\A i \in DOMAIN invitation :
       /\ invitation[i].status = "pending" /\ invitation'[i].status = "accepted"
       /\ invitation[i].mode = "recovery"
       /\ invitation[i].recipient = seat
       => invitation[i].author \in Person \ {seat}]_vars

\* The holder of the recovery seat never becomes an admin through the seat
\* (docs/fau-creation-and-membership-flow.md 6.5).  Between two representatives it can: only
\* the seat's kind is compared (the scope limit of recovery_seat_matches).
SeatHolderNeverSeatsItself ==
  [][\A i \in DOMAIN invitation :
       /\ invitation[i].status = "pending" /\ invitation'[i].status = "accepted"
       /\ invitation[i].mode = "recovery"
       => invitation[i].recipient # seat]_vars

\* However often an acceptance is sent, its invitation activates its role once.
InvitationUsedOnce ==
  \A a, b \in DOMAIN assignment :
    a # b /\ assignment[a].via = assignment[b].via => assignment[a].via = 0

\* An approved request has led to exactly one invitation and any other to none, whatever
\* approve, decline, lapse and the membership cascade do to it in whichever order.
ApprovalIssuesOneInvitation ==
  \A r \in DOMAIN request :
    Cardinality({i \in DOMAIN invitation : invitation[i].request = r})
      = IF request[r].status = "approved" THEN 1 ELSE 0

\* No proposal of a successor waits for an admin on behalf of somebody who is no longer a
\* member (withdraw_pending_requests in roles.rs).
ProposerIsMember ==
  \A r \in DOMAIN request :
    request[r].kind = "replacement" /\ request[r].status = "pending" =>
      membership[request[r].requester] = "active"

\* Requests agree with the invitations they led to and the memberships they rest on.
RequestsAgree == ApprovalIssuesOneInvitation /\ ProposerIsMember

\* A closed request keeps its outcome: the lapse sweep, which takes no tenant lock, never
\* overwrites a decision.
ClosedRequestStaysClosed ==
  [][\A r \in DOMAIN request :
       request[r].status # "pending" => request'[r].status = request[r].status]_vars

\* Only somebody who held the admin role for at least a day gets its handover window
\* (docs/fau-creation-and-membership-flow.md 6.3: "an outgoing admin").
HandoverOnlyAfterService ==
  \A g \in DOMAIN grant : ~assignment[g].late
=============================================================================
