------------------------------ MODULE Directory ------------------------------
(***************************************************************************)
(* The reads of one FAU's people and groups: the group reads of            *)
(* persistence/src/membership/groups.rs, the member directory              *)
(* (directory.rs, domain/src/directory/listing.rs) and the export of its   *)
(* addresses (export.rs).                                                  *)
(*                                                                         *)
(* Every read runs in one snapshot with the authorization it depends on,   *)
(* so it is an operator of the state Groups describes, and an invariant     *)
(* says something of a read at any moment.  What the caller sends, a group *)
(* id or a selection ticked on an earlier screen, is a parameter.  So is   *)
(* the set of people whose name an Article 17 erasure removed (Retention): *)
(* no decision of Groups reads it.                                         *)
(*                                                                         *)
(* Names, addresses, role names and the order of a listing are left out;   *)
(* the audit row of an export is its last line.                            *)
(***************************************************************************)
EXTENDS Groups

Refused(why) == [refused |-> why]
Answer(value) == [answer |-> value]
Refuses(result) == "refused" \in DOMAIN result

-----------------------------------------------------------------------------
(* groups.rs: who stands today, and the reads of groups *)

\* Mutant: whoever is not revoked stands, their roles run out or not.
StandingUnlessRevoked(m) == standing[m] = "active"

\* standing_today_sql: a usable membership with a role assignment valid today.
StandingToday(m) == standing[m] = "active" /\ Running(m) # {}

\* group_members_sql, for one group.
GroupMembers(g) == {m \in Member : StandingToday(m) /\ InGroup(m, g)}

\* readable_groups: decide on each group's facts, with the capability of the caller.
ReadableGroups(capability, viewer) ==
  {g \in Group : CanRead(capability, viewer, GroupItself(g))}

\* list_groups
ListGroups(viewer) ==
  IF MembershipAccess(viewer) = "none" THEN Refused("not_authorized")
  ELSE Answer(ReadableGroups(MembershipAccess(viewer), viewer))

\* authorize(.., Read): what a group that cannot be read answers.
ReadingGroup(viewer, g, value) ==
  CASE MembershipAccess(viewer) = "none" -> Refused("not_authorized")
    [] CanRead(MembershipAccess(viewer), viewer, GroupItself(g)) -> Answer(value)
    [] OTHER -> Refused("unknown_group")

\* get_group, and list_group_members with how each member is in the group.
GetGroup(viewer, g) == ReadingGroup(viewer, g, group[g])
ListGroupMembers(viewer, g) ==
  ReadingGroup(viewer, g,
    {[member |-> m,
      byHand |-> \E row \in added : row.member = m /\ row.group = g,
      throughRole |-> \E class \in Running(m) : <<class, g>> \in Follows] : m \in GroupMembers(g)})

-----------------------------------------------------------------------------
(* directory.rs: load *)

FauSection == [kind |-> "fau"]
GroupSection(g) == [kind |-> "group", group |-> g]

HoldsOnlyGuestRoles(m) == Running(m) \subseteq {"guest"}

\* Everyone with standing today whose name was not erased.
Entries(erased) == {m \in Member : StandingToday(m)} \ erased

\* The sections: members and admins for those who may read the FAU, and one for each
\* group the viewer may read that is not archived.
Sections(viewer, erased) ==
  LET capability == MembershipAccess(viewer)
      fau == IF CanRead(capability, viewer, Fau)
             THEN {[id |-> FauSection,
                    members |-> {m \in Entries(erased) : ~HoldsOnlyGuestRoles(m)}]}
             ELSE {}
  IN  fau \cup {[id |-> GroupSection(g), members |-> GroupMembers(g) \cap Entries(erased)]
                  : g \in {h \in ReadableGroups(capability, viewer) : ~group[h].archived}}

\* Everyone in a section, once: the groups and the roles they are shown with.
People(sections, viewer) ==
  {[member |-> m, isViewer |-> m = viewer, isGuest |-> HoldsOnlyGuestRoles(m),
    roles |-> Running(m),
    groups |-> {g \in Group : \E s \in sections : s.id = GroupSection(g) /\ m \in s.members}]
     : m \in UNION {s.members : s \in sections}}

\* member_directory
MemberDirectory(viewer, erased) ==
  IF MembershipAccess(viewer) = "none" THEN Refused("not_authorized")
  ELSE LET sections == Sections(viewer, erased)
       IN  Answer([sections |-> sections, people |-> People(sections, viewer)])

-----------------------------------------------------------------------------
(* export.rs *)

Described(read) == {p.member : p \in read.people}

\* scope_members: "all", or the section the scope names if the viewer sees it.
ScopeMembers(read, scope) ==
  IF scope.kind = "all" THEN Answer(Described(read))
  ELSE IF \E s \in read.sections : s.id = scope
  THEN Answer((CHOOSE s \in read.sections : s.id = scope).members)
  ELSE Refused(IF scope = FauSection THEN "not_authorized" ELSE "unknown_group")

\* Each selected person once, all of them in scope or none handed over.
Chosen(inScope, selection) ==
  IF selection \subseteq inScope THEN Answer(selection) ELSE Refused("unknown_membership")

\* export_addresses: the recipients, and the audit row's count, which commits with them.
ExportAddresses(viewer, erased, scope, selection) ==
  LET directory == MemberDirectory(viewer, erased)
      inScope == ScopeMembers(directory.answer, scope)
      chosen == Chosen(inScope.answer, selection)
  IN  IF selection = {} THEN Refused("empty_selection")
      ELSE IF Refuses(directory) THEN directory
      ELSE IF Refuses(inScope) THEN inScope
      ELSE IF Refuses(chosen) THEN chosen
      ELSE Answer([recipients |-> chosen.answer, audited |-> Cardinality(chosen.answer)])

Scope == {[kind |-> "all"], FauSection} \cup {GroupSection(g) : g \in Group}

-----------------------------------------------------------------------------
(* Properties *)

\* The rule itself, person by person (directory.rs, "What a viewer sees"): both stand, and
\* neither is a guest or they meet in a group that is not archived and that the viewer
\* reads as an admin, as a member because it is open, or because they are in it.
MaySee(viewer, m) ==
  /\ MembershipAccess(viewer) # "none"
  /\ ~Ended(m) /\ \E class \in Class : role[m][class] = "running"
  /\ \/ MembershipAccess(viewer) # "guest" /\ \E class \in Class \ {"guest"} : role[m][class] = "running"
     \/ \E g \in Group :
          /\ InGroup(m, g)
          /\ group[g].visibility # "absent" /\ ~group[g].archived
          /\ \/ InGroup(viewer, g)
             \/ MembershipAccess(viewer) = "admin"
             \/ MembershipAccess(viewer) = "member" /\ group[g].visibility = "open"

\* The directory shows exactly whom the rule allows, so a guest meets the people of their
\* own groups and nobody else, and a person whose roles ran out is gone from it although
\* their rows in groups wait for the sweep.  Its group sections are list_groups without
\* the archived groups, each with list_group_members without the erased.
DirectoryFollowsTheRule ==
  \A viewer \in Member, erased \in SUBSET Member :
    LET directory == MemberDirectory(viewer, erased)
        groups == ListGroups(viewer)
    IN  /\ Refuses(directory) <=> Refuses(groups)
        /\ ~Refuses(directory) =>
             /\ Described(directory.answer) = {m \in Member \ erased : MaySee(viewer, m)}
             /\ {s \in directory.answer.sections : s.id.kind = "group"} =
                  {[id |-> GroupSection(g),
                    members |-> {row.member : row \in ListGroupMembers(viewer, g).answer} \ erased]
                     : g \in {h \in groups.answer : ~group[h].archived}}

\* Whatever was ticked, and however the FAU changed since the screen was drawn, an export
\* hands over addresses of all the selected people or of none, each of them someone the
\* viewer may see; a group the viewer cannot read is answered like an id nobody has.
ExportGivesNothingAway ==
  \A viewer \in Member, erased \in SUBSET Member, scope \in Scope, selection \in SUBSET Member :
    LET export == ExportAddresses(viewer, erased, scope, selection)
        unread == scope.kind = "group" /\ Refuses(GetGroup(viewer, scope.group))
    IN  /\ ~Refuses(export) =>
             /\ export.answer.recipients = selection
             /\ \A m \in selection : MaySee(viewer, m) /\ m \notin erased
             /\ ~unread
        /\ unread => export.refused \in {"empty_selection", "not_authorized", "unknown_group"}
=============================================================================
