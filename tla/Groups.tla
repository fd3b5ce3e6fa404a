------------------------------- MODULE Groups -------------------------------
(***************************************************************************)
(* The groups of one FAU, who may read them, and what each change          *)
(* announces (persistence/src/membership/{groups,authz,roles,retention}.rs *)
(* and domain/src/authz.rs).                                               *)
(*                                                                         *)
(* Every mutation holds the tenant row's lock from its first statement to  *)
(* its commit, so a mutation is one step.  Its NOTIFYs leave with the      *)
(* commit, in order, and are appended to wire, which EventHub's listener   *)
(* reads.                                                                  *)
(*                                                                         *)
(* A person's role assignments are abstracted to one per capability class, *)
(* booked, running or ended; dates, handover windows, invitations, account *)
(* state and the last-admin safeguard are Membership's.                    *)
(* Names, audit rows and the retention of profiles are left out: no        *)
(* decision here reads them.                                               *)
(***************************************************************************)
EXTENDS Naturals, Sequences, FiniteSets, SequencesExt

CONSTANTS
  Member,                 \* memberships of the FAU
  Group,                  \* group ids
  Follows,                \* <<class, group>>: a role of this class follows the group
  FirstRoles,             \* the classes each member holds at the start
  FirstGroups,            \* the visibilities the groups may start with, or "absent"
  Offered,                \* <<class, when>>: the roles granted or accepted
  Incident,               \* the outside interventions a run includes
  MaxCommits              \* bound: transactions in a behaviour

Class == {"guest", "member", "admin"}
Capability == Class \cup {"none"}

\* Resources: the FAU as a whole and a group.  Only changes to groups are announced; the
\* content of a group is read on the same terms as the group.
Fau == [kind |-> "fau"]
GroupItself(g) == [kind |-> "group", group |-> g]
Resource == {Fau} \cup {GroupItself(g) : g \in Group}

Changed(r) == [kind |-> "changed", resource |-> r]
AccessRevoked(m) == [kind |-> "access", member |-> m]

ASSUME GroupsAssumption ==
  /\ FirstRoles \in [Member -> SUBSET Class]
  /\ FirstGroups \subseteq [Group -> {"absent", "open", "closed"}]
  /\ Follows \subseteq Class \X Group
  /\ Offered \subseteq Class \X {"now", "later"}
  /\ Incident \subseteq {"freeze", "close"}
  /\ MaxCommits \in Nat

VARIABLES
  tenant,                 \* "open", "frozen" or "closed"
  standing,               \* membership row: "none", "active" or "revoked"
  role,                   \* per member and class: the assignment's state, or "none"
  group,                  \* groups row: visibility, archived
  added,                  \* group_members rows not removed: member, group, tenure
  tenure,                 \* history: how often the member has returned
  commits,                \* transactions so far
  wire                    \* notifications on their way to the LISTEN connection

groupVars == <<tenant, standing, role, group, added, tenure, commits, wire>>

GroupsInit ==
  /\ tenant = "open"
  /\ standing = [m \in Member |-> IF FirstRoles[m] = {} THEN "none" ELSE "active"]
  /\ role = [m \in Member |->
               [class \in Class |-> IF class \in FirstRoles[m] THEN "running" ELSE "none"]]
  /\ \E visibility \in FirstGroups :
       group = [g \in Group |-> [visibility |-> visibility[g], archived |-> FALSE]]
  /\ added = {}
  /\ tenure = [m \in Member |-> 0]
  /\ commits = 0
  /\ wire = <<>>

-----------------------------------------------------------------------------
(* Reading the database *)

Running(m) == {class \in Class : role[m][class] = "running"}

\* evaluate_access: for who stands, the highest class valid today.
EvaluateAccess(stands, classes) ==
  IF ~stands THEN "none"
  ELSE IF "admin" \in classes THEN "admin"
  ELSE IF "member" \in classes THEN "member"
  ELSE IF "guest" \in classes THEN "guest"
  ELSE "none"

\* membership_access: in an FAU that is not closed and an active membership.
MembershipAccess(m) == EvaluateAccess(tenant # "closed" /\ standing[m] = "active", Running(m))

\* in_group_sql: added by hand, or holding a role valid today that the group follows.
InGroup(m, g) ==
  \/ \E row \in added : row.member = m /\ row.group = g
  \/ \E class \in Running(m) : <<class, g>> \in Follows

\* decide, for reading: what a viewer of this capability may see of r, with the group's
\* facts as they are now.
CanRead(capability, m, r) ==
  IF r.kind = "fau" THEN capability \in {"member", "admin"}
  ELSE /\ group[r.group].visibility # "absent"
       /\ \/ capability = "admin"
          \/ capability = "member" /\ (group[r.group].visibility = "open" \/ InGroup(m, r.group))
          \/ capability = "guest" /\ InGroup(m, r.group)

\* authorize(.., Manage): admins only, and only a group that exists.
Manages(actor, g) ==
  MembershipAccess(actor) = "admin" /\ group[g].visibility # "absent"

\* is_admin_today: reads the membership and its roles, not the FAU's status.
IsAdminToday(m) == standing[m] = "active" /\ "admin" \in Running(m)

\* Assignments that end after today: running, or yet to start.
Unended(m) == {class \in Class : role[m][class] \in {"running", "booked"}}

\* membership_ended: revoked, or no role running or yet to start.
Ended(m) == standing[m] # "active" \/ Unended(m) = {}

-----------------------------------------------------------------------------
(* Announcing *)

\* notify inside the transaction, delivered in order when it commits.
Commit(changes) ==
  /\ commits < MaxCommits
  /\ commits' = commits + 1
  /\ wire' = wire \o changes

\* remove_from_all_groups: the rows that stay, and one announcement per group left.
RowsWithout(members) == {row \in added : row.member \notin members}
LeavingAnnounced(members) ==
  LET left == SetToSeq(added \ RowsWithout(members))
  IN  [i \in DOMAIN left |-> Changed(GroupItself(left[i].group))]

-----------------------------------------------------------------------------
(* groups.rs *)

CreateGroup(actor, g, visibility) ==
  /\ tenant = "open"
  /\ MembershipAccess(actor) = "admin"
  /\ group[g].visibility = "absent"
  /\ group' = [group EXCEPT ![g].visibility = visibility]
  /\ Commit(<<Changed(GroupItself(g))>>)
  /\ UNCHANGED <<tenant, standing, role, added, tenure>>

\* The name is ciphertext to this code: renaming changes nothing a decision reads.
RenameGroup(actor, g) ==
  /\ tenant = "open"
  /\ Manages(actor, g)
  /\ ~group[g].archived
  /\ Commit(<<Changed(GroupItself(g))>>)
  /\ UNCHANGED <<tenant, standing, role, group, added, tenure>>

\* Closing is allowed in a frozen FAU and on an archived group, opening in neither; the
\* present visibility again writes nothing.
SetGroupVisibility(actor, g, visibility) ==
  /\ visibility = "open" => tenant = "open" /\ ~group[g].archived
  /\ Manages(actor, g)
  /\ group[g].visibility # visibility
  /\ group' = [group EXCEPT ![g].visibility = visibility]
  /\ Commit(<<Changed(GroupItself(g))>>)
  /\ UNCHANGED <<tenant, standing, role, added, tenure>>

ArchiveGroup(actor, g) ==
  /\ Manages(actor, g)
  /\ ~group[g].archived
  /\ group' = [group EXCEPT ![g].archived = TRUE]
  /\ Commit(<<Changed(GroupItself(g))>>)
  /\ UNCHANGED <<tenant, standing, role, added, tenure>>

AddGroupMember(actor, g, m) ==
  /\ tenant = "open"
  /\ Manages(actor, g)
  /\ ~group[g].archived
  /\ standing[m] = "active"
  /\ ~Ended(m)
  /\ ~\E row \in added : row.member = m /\ row.group = g
  /\ added' = added \cup {[member |-> m, group |-> g, tenure |-> tenure[m]]}
  /\ Commit(<<Changed(GroupItself(g))>>)
  /\ UNCHANGED <<tenant, standing, role, group, tenure>>

RemoveGroupMember(actor, g, m) ==
  /\ Manages(actor, g)
  /\ \E row \in added :
       /\ row.member = m /\ row.group = g
       /\ added' = added \ {row}
  /\ Commit(<<AccessRevoked(m), Changed(GroupItself(g))>>)
  /\ UNCHANGED <<tenant, standing, role, group, tenure>>

-----------------------------------------------------------------------------
(* roles.rs, retention.rs *)

\* Mutant: only a revoked membership leaves its groups on return.
LeavesIfRevoked(m) == standing[m] = "revoked"

\* reopen_profile, run before a role is added: a membership that had ended leaves every
\* group it was added to by hand.
LeavesOnReturn(m) == Ended(m)

Reopen(m) ==
  /\ added' = IF LeavesOnReturn(m) THEN RowsWithout({m}) ELSE added
  /\ standing' = [standing EXCEPT ![m] = "active"]
  /\ tenure' = [tenure EXCEPT ![m] = IF standing[m] # "none" /\ Ended(m) THEN @ + 1 ELSE @]
  /\ Commit(IF LeavesOnReturn(m) THEN LeavingAnnounced({m}) ELSE <<>>)

\* A guest role names a group, which must exist and take new guests.
RoleOffered(class) ==
  class = "guest" =>
    \A g \in Group : <<class, g>> \in Follows =>
      group[g].visibility # "absent" /\ ~group[g].archived

Assign(m, class, when) ==
  /\ class \notin Unended(m)
  /\ RoleOffered(class)
  /\ role' = [role EXCEPT ![m][class] = IF when = "now" THEN "running" ELSE "booked"]
  /\ Reopen(m)
  /\ UNCHANGED <<tenant, group>>

\* grant_role: by an admin, to a membership that is not revoked.
GrantRole(actor, m, class, when) ==
  /\ tenant = "open"
  /\ IsAdminToday(actor)
  /\ standing[m] = "active"
  /\ Assign(m, class, when)

\* accept_invitation: also creates the membership, or reopens a revoked one
\* (ensure_membership).
AcceptInvitation(m, class, when) ==
  /\ tenant = "open"
  /\ Assign(m, class, when)

RoleRevoked(m, classes) ==
  [role EXCEPT ![m] = [class \in Class |-> IF class \in classes THEN "none" ELSE @[class]]]

\* Any assignment not revoked yet, one that has ended included.
RevokeRoleAssignment(actor, m, class) ==
  /\ IsAdminToday(actor) \/ actor = m
  /\ role[m][class] # "none"
  /\ role' = RoleRevoked(m, {class})
  /\ Commit(<<AccessRevoked(m)>>)
  /\ UNCHANGED <<tenant, standing, group, added, tenure>>

\* Revokes what has not ended, and an ended admin role whose handover window is open.
RevokeMembership(actor, m) ==
  /\ IsAdminToday(actor) \/ actor = m
  /\ standing[m] = "active"
  /\ standing' = [standing EXCEPT ![m] = "revoked"]
  /\ \E windowOpen \in SUBSET {"admin"} : role' = RoleRevoked(m, Unended(m) \cup windowOpen)
  /\ added' = RowsWithout({m})
  /\ Commit(Append(LeavingAnnounced({m}), AccessRevoked(m)))
  /\ UNCHANGED <<tenant, group, tenure>>

\* clear_ended_profiles, its second pass: every ended membership leaves its groups.
ClearEndedProfiles ==
  LET ended == {m \in Member : Ended(m) /\ \E row \in added : row.member = m}
  IN  /\ ended # {}
      /\ added' = RowsWithout(ended)
      /\ Commit(LeavingAnnounced(ended))
      /\ UNCHANGED <<tenant, standing, role, group, tenure>>

-----------------------------------------------------------------------------
(* Outside *)

\* The date moves past an assignment's end, or reaches its start.  Nothing is announced.
RoleEnds(m, class) ==
  /\ role[m][class] = "running"
  /\ role' = [role EXCEPT ![m][class] = "ended"]
  /\ UNCHANGED <<tenant, standing, group, added, tenure, commits, wire>>

RoleStarts(m, class) ==
  /\ role[m][class] = "booked"
  /\ role' = [role EXCEPT ![m][class] = "running"]
  /\ UNCHANGED <<tenant, standing, group, added, tenure, commits, wire>>

\* An operator freezes, thaws or closes the FAU.
SetTenant(status) ==
  /\ \/ "freeze" \in Incident /\ {tenant, status} = {"open", "frozen"}
     \/ "close" \in Incident /\ tenant # "closed" /\ status = "closed"
  /\ tenant' = status
  /\ UNCHANGED <<standing, role, group, added, tenure, commits, wire>>

-----------------------------------------------------------------------------
GroupChange ==
  \E actor \in Member, g \in Group :
    \/ \E v \in {"open", "closed"} : CreateGroup(actor, g, v) \/ SetGroupVisibility(actor, g, v)
    \/ RenameGroup(actor, g)
    \/ ArchiveGroup(actor, g)
    \/ \E m \in Member : AddGroupMember(actor, g, m) \/ RemoveGroupMember(actor, g, m)

RoleChange ==
  \E m \in Member :
    \/ \E offer \in Offered :
         \/ AcceptInvitation(m, offer[1], offer[2])
         \/ \E actor \in Member : GrantRole(actor, m, offer[1], offer[2])
    \/ \E class \in Class, actor \in Member : RevokeRoleAssignment(actor, m, class)
    \/ \E actor \in Member : RevokeMembership(actor, m)

OutsideChange ==
  \/ \E m \in Member, class \in Class : RoleEnds(m, class) \/ RoleStarts(m, class)
  \/ \E status \in {"open", "frozen", "closed"} : SetTenant(status)

GroupsNext == GroupChange \/ RoleChange \/ ClearEndedProfiles \/ OutsideChange

\* A person who returns after their membership ended is in no group they were added to
\* before (reopen_profile, remove_from_all_groups): the groups of an earlier tenure stay
\* with it, whether the membership was revoked or its roles ran out unnoticed by the sweep.
ReturnerStartsWithoutGroups ==
  \A row \in added : ~Ended(row.member) => row.tenure = tenure[row.member]
=============================================================================
