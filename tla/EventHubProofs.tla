---------------------------- MODULE EventHubProofs ----------------------------
(***************************************************************************)
(* For any FAU, number of streams, buffer, outages and commits: a returner   *)
(* is in no group of an earlier tenure, once the listener has caught up no   *)
(* stream has missed a revocation or a change it was to be told of, and the  *)
(* directory and the export disclose what the rule allows.                   *)
(***************************************************************************)
EXTENDS Disclosure, FiniteSetTheorems, SequenceTheorems, TLAPS

-----------------------------------------------------------------------------
(* The inductive invariant. *)

Row == [member : Member, group : Group, tenure : Nat]

GroupsTypeOK ==
  /\ tenant \in {"open", "frozen", "closed"}
  /\ standing \in [Member -> {"none", "active", "revoked"}]
  /\ role \in [Member -> [Class -> {"none", "booked", "running", "ended"}]]
  /\ group \in [Group -> [visibility : {"absent", "open", "closed"}, archived : BOOLEAN]]
  /\ added \subseteq Row /\ IsFiniteSet(added)
  /\ tenure \in [Member -> Nat]

GroupsInv == GroupsTypeOK /\ ReturnerStartsWithoutGroups

Told == Change \cup {Break}

\* A stream's row, and the listener's.
Subscription ==
  [phase : {"none", "checking", "open"}, viewer : Member \cup {NoMember},
   registered : BOOLEAN, closed : BOOLEAN, polled : BOOLEAN,
   buffer : Seq(Resource), owed : SUBSET Resource, stale : BOOLEAN]
Listening ==
  [pc : {"recv", "dispatch", "facts", "rebuild", "closing"}, resource : Resource,
   targets : SUBSET Stream, viewer : Member \cup {NoMember}, capability : Capability,
   decided : [Member -> {"unknown", "ok", "hidden", "no_access", "failed"}]]

HubTypeOK ==
  /\ wire \in Seq(Told)
  /\ stream \in [Stream -> Subscription] /\ listener \in Listening
  /\ \A s \in Stream : Len(stream[s].buffer) <= Buffer

\* The listener sends only to streams that are still there, and only while it dispatches.
TargetsInv ==
  /\ \A s \in listener.targets : stream[s].phase # "none"
  /\ listener.targets # {} => listener.pc \in {"dispatch", "facts"}

\* A notification is on its way, or the listener will close every stream.
Pending(x) ==
  x \in ToSet(wire) \/ Break \in ToSet(wire) \/ listener.pc \in {"rebuild", "closing"}

\* What a registered stream is owed is pending or being dispatched to it, and the revocation it
\* has not heard of is pending.
StreamOK(s) ==
  stream[s].registered =>
    /\ stream[s].phase # "none"
    /\ \A r \in stream[s].owed :
         Pending(Changed(r)) \/ (s \in listener.targets /\ listener.resource = r)
    /\ stream[s].stale => Pending(AccessRevoked(stream[s].viewer))

HubInv == HubTypeOK /\ TargetsInv /\ \A s \in Stream : StreamOK(s)

IndInv == GroupsInv /\ HubInv

-----------------------------------------------------------------------------
(* Sequences of notifications. *)

\* What is appended is there, and nothing else is added.
LEMMA ConcatSet ==
  ASSUME NEW S, NEW s \in Seq(S), NEW t \in Seq(S)
  PROVE  s \o t \in Seq(S) /\ ToSet(s \o t) = ToSet(s) \cup ToSet(t)
<1>1. /\ Len(s) \in Nat /\ Len(t) \in Nat /\ DOMAIN s = 1 .. Len(s) /\ DOMAIN t = 1 .. Len(t)
      /\ s \o t \in Seq(S) /\ Len(s \o t) = Len(s) + Len(t)
      /\ DOMAIN (s \o t) = 1 .. Len(s \o t)
      /\ \A i \in 1 .. Len(s) : (s \o t)[i] = s[i]
      /\ \A i \in 1 .. Len(t) : (s \o t)[Len(s) + i] = t[i]
  BY ConcatProperties, LenProperties
<1>2. ASSUME NEW i \in DOMAIN (s \o t)
      PROVE  (s \o t)[i] \in ToSet(s) \cup ToSet(t)
  <2>1. CASE i <= Len(s)
    BY <1>1, <2>1 DEF ToSet
  <2>2. CASE ~(i <= Len(s))
    <3>1. i - Len(s) \in 1 .. Len(t) /\ i = Len(s) + (i - Len(s))
      BY <1>1, <2>2
    <3> QED BY <1>1, <3>1 DEF ToSet
  <2> QED BY <2>1, <2>2
<1>3. ASSUME NEW i \in DOMAIN s PROVE s[i] \in ToSet(s \o t)
  <2>1. i \in DOMAIN (s \o t)
    BY <1>1
  <2> QED BY <1>1, <2>1 DEF ToSet
<1>4. ASSUME NEW i \in DOMAIN t PROVE t[i] \in ToSet(s \o t)
  <2>1. Len(s) + i \in DOMAIN (s \o t)
    BY <1>1
  <2> QED BY <1>1, <2>1 DEF ToSet
<1> QED BY <1>1, <1>2, <1>3, <1>4 DEF ToSet

\* What was said is what follows the old wire.
LEMMA Suffix ==
  ASSUME NEW S, NEW s \in Seq(S), NEW t \in Seq(S)
  PROVE  SubSeq(s \o t, Len(s) + 1, Len(s \o t)) = t
<1>1. /\ Len(s) \in Nat /\ Len(t) \in Nat /\ DOMAIN t = 1 .. Len(t)
      /\ s \o t \in Seq(S) /\ Len(s \o t) = Len(s) + Len(t)
      /\ \A i \in 1 .. Len(t) : (s \o t)[Len(s) + i] = t[i]
  BY ConcatProperties, LenProperties
<1> DEFINE u == SubSeq(s \o t, Len(s) + 1, Len(s \o t))
<1>2. u = [i \in 1 .. Len(t) |-> (s \o t)[Len(s) + i]]
  <2>1. \A i \in 1 .. Len(t) : i + (Len(s) + 1) - 1 = Len(s) + i
    BY <1>1
  <2> QED BY <1>1, <2>1
<1>3. t = [i \in 1 .. Len(t) |-> t[i]]
  BY <1>1
<1> QED BY <1>1, <1>2, <1>3

\* What is not the first is in the rest.
LEMMA TailSet ==
  ASSUME NEW S, NEW s \in Seq(S), s # <<>>
  PROVE  /\ Tail(s) \in Seq(S) /\ Head(s) \in ToSet(s) /\ Head(s) \in S
         /\ \A x \in ToSet(s) : x = Head(s) \/ x \in ToSet(Tail(s))
<1>1. /\ Len(s) \in Nat \ {0} /\ DOMAIN s = 1 .. Len(s) /\ Head(s) = s[1] /\ Head(s) \in S
      /\ Tail(s) \in Seq(S) /\ Len(Tail(s)) = Len(s) - 1
      /\ \A i \in 1 .. Len(Tail(s)) : Tail(s)[i] = s[i + 1]
      /\ DOMAIN Tail(s) = 1 .. Len(Tail(s))
  BY HeadTailProperties, LenProperties, EmptySeq
<1>2. ASSUME NEW i \in DOMAIN s PROVE s[i] = Head(s) \/ s[i] \in ToSet(Tail(s))
  <2>1. CASE i = 1
    BY <1>1, <2>1
  <2>2. CASE i # 1
    <3>1. i - 1 \in DOMAIN Tail(s) /\ (i - 1) + 1 = i
      BY <1>1, <2>2
    <3> QED BY <1>1, <3>1 DEF ToSet
  <2> QED BY <2>1, <2>2
<1> QED BY SMTT(30), <1>1, <1>2 DEF ToSet

\* One that comes last is there.
LEMMA AppendSet ==
  ASSUME NEW S, NEW s \in Seq(S), NEW x \in S
  PROVE  Append(s, x) \in Seq(S) /\ x \in ToSet(Append(s, x))
<1>1. /\ Len(s) \in Nat /\ Append(s, x) \in Seq(S) /\ Len(Append(s, x)) = Len(s) + 1
      /\ Append(s, x)[Len(s) + 1] = x /\ DOMAIN Append(s, x) = 1 .. Len(Append(s, x))
  BY AppendProperties, LenProperties
<1>2. Len(s) + 1 \in DOMAIN Append(s, x)
  BY <1>1
<1> QED BY <1>1, <1>2 DEF ToSet

\* The groups that are left are announced in some order.
LEMMA AnnouncedLeaving ==
  ASSUME GroupsTypeOK, NEW members
  PROVE  LeavingAnnounced(members) \in Seq(Change)
<1> DEFINE S == added \ RowsWithout(members)
           n == Cardinality(S)
<1>1. IsFiniteSet(S) /\ S \subseteq Row
  BY FS_Subset DEF GroupsTypeOK
<1>2. n \in Nat
  BY <1>1, FS_CardinalityType
<1>3. \E f \in [1 .. n -> S] : IsInjective(f)
  <2>1. ExistsBijection(1 .. n, S)
    BY <1>1, FS_NatBijection, FS_CountingElements, FS_CardinalityType
  <2>2. PICK f \in Bijection(1 .. n, S) : TRUE
    BY <2>1 DEF ExistsBijection
  <2>3. f \in [1 .. n -> S] /\ \A i, j \in 1 .. n : f[i] = f[j] => i = j
    BY <2>2 DEF Bijection, Injection, IsInjective
  <2>4. IsInjective(f)
    BY <2>3 DEF IsInjective
  <2> QED BY <2>3, <2>4
<1>4. SetToSeq(S) \in [1 .. n -> S]
  BY <1>3 DEF SetToSeq
<1> DEFINE left == SetToSeq(S)
<1>5. LeavingAnnounced(members) = [i \in DOMAIN left |-> Changed(GroupItself(left[i].group))]
  BY DEF LeavingAnnounced
<1> HIDE DEF left
<1>6. \A i \in 1 .. n : left[i] \in Row
  BY <1>1, <1>4 DEF left
<1>7. \A i \in 1 .. n : Changed(GroupItself(left[i].group)) \in Change
  BY <1>6 DEF Row, Change, Resource
<1>8. DOMAIN left = 1 .. n
  BY <1>4 DEF left
<1> HIDE DEF n
<1> QED BY <1>2, <1>5, <1>7, <1>8, IsASeq

-----------------------------------------------------------------------------
(* The FAU: types and tenures. *)

\* A commit says changes, appended to what is on its way.
Says == \E said \in Seq(Change) : wire' = wire \o said

\* What a change to one group or one person says.
LEMMA Singles ==
  /\ \A g \in Group : <<Changed(GroupItself(g))>> \in Seq(Change)
  /\ \A m \in Member : <<AccessRevoked(m)>> \in Seq(Change)
  /\ \A m \in Member, g \in Group :
       <<AccessRevoked(m), Changed(GroupItself(g))>> \in Seq(Change)
  /\ <<>> \in Seq(Change)
<1>1. /\ \A g \in Group : Changed(GroupItself(g)) \in Change
      /\ \A m \in Member : AccessRevoked(m) \in Change
  BY DEF Change, Resource
<1> QED BY <1>1

\* A commit of changes says them.
LEMMA CommitSays ==
  ASSUME NEW changes \in Seq(Change), Commit(changes)
  PROVE  Says
BY DEF Commit, Says

\* No row is added, no tenure moves and nobody's membership comes back: the rows still fit.
LEMMA RowsKept ==
  ASSUME GroupsInv, added' \subseteq added, tenure' = tenure,
         \A m \in Member : Ended(m) => Ended(m)'
  PROVE  ReturnerStartsWithoutGroups'
BY DEF GroupsInv, GroupsTypeOK, Row, ReturnerStartsWithoutGroups

\* A set with fewer rows is a finite set of rows.
LEMMA FewerRows ==
  ASSUME GroupsTypeOK, NEW rows, rows \subseteq added
  PROVE  rows \subseteq Row /\ IsFiniteSet(rows)
BY FS_Subset DEF GroupsTypeOK

\* Changes to a group itself leave who is in it alone.
LEMMA GroupItselfChanges ==
  ASSUME GroupsInv, NEW actor \in Member, NEW g \in Group, NEW v \in {"open", "closed"},
         \/ CreateGroup(actor, g, v) \/ SetGroupVisibility(actor, g, v)
         \/ RenameGroup(actor, g) \/ ArchiveGroup(actor, g)
  PROVE  GroupsInv' /\ Says
<1>1. /\ UNCHANGED <<tenant, standing, role, added, tenure>>
      /\ group' \in [Group -> [visibility : {"absent", "open", "closed"}, archived : BOOLEAN]]
      /\ Commit(<<Changed(GroupItself(g))>>)
  <2>1. group \in [Group -> [visibility : {"absent", "open", "closed"}, archived : BOOLEAN]]
    BY DEF GroupsInv, GroupsTypeOK
  <2>2. CASE CreateGroup(actor, g, v)
    BY <2>1, <2>2 DEF CreateGroup
  <2>3. CASE SetGroupVisibility(actor, g, v)
    BY <2>1, <2>3 DEF SetGroupVisibility
  <2>4. CASE RenameGroup(actor, g)
    BY <2>1, <2>4 DEF RenameGroup
  <2>5. CASE ArchiveGroup(actor, g)
    BY <2>1, <2>5 DEF ArchiveGroup
  <2> QED BY <2>2, <2>3, <2>4, <2>5
<1>2. Says
  BY <1>1, Singles, CommitSays
<1>3. GroupsTypeOK'
  BY <1>1 DEF GroupsInv, GroupsTypeOK
<1>4. ReturnerStartsWithoutGroups'
  BY <1>1 DEF GroupsInv, ReturnerStartsWithoutGroups, Ended, Unended
<1> QED BY <1>2, <1>3, <1>4 DEF GroupsInv

\* An added row carries its member's present tenure.
LEMMA Adding ==
  ASSUME GroupsInv, NEW actor \in Member, NEW g \in Group, NEW m \in Member,
         AddGroupMember(actor, g, m)
  PROVE  GroupsInv' /\ Says
<1> DEFINE row == [member |-> m, group |-> g, tenure |-> tenure[m]]
<1>1. /\ UNCHANGED <<tenant, standing, role, group, tenure>>
      /\ added' = added \cup {row}
      /\ Commit(<<Changed(GroupItself(g))>>)
  BY DEF AddGroupMember
<1>2. Says
  BY <1>1, Singles, CommitSays
<1>3. row \in Row
  BY DEF GroupsInv, GroupsTypeOK, Row
<1>4. row.member = m /\ row.tenure = tenure[m]
  OBVIOUS
<1> HIDE DEF row
<1>5. GroupsTypeOK'
  BY <1>1, <1>3, FS_AddElement DEF GroupsInv, GroupsTypeOK
<1>6. ReturnerStartsWithoutGroups'
  BY <1>1, <1>4 DEF GroupsInv, ReturnerStartsWithoutGroups, Ended, Unended
<1> QED BY <1>2, <1>5, <1>6 DEF GroupsInv

\* Removing a person by hand removes one row.
LEMMA Removing ==
  ASSUME GroupsInv, NEW actor \in Member, NEW g \in Group, NEW m \in Member,
         RemoveGroupMember(actor, g, m)
  PROVE  GroupsInv' /\ Says
<1>1. /\ UNCHANGED <<tenant, standing, role, group, tenure>>
      /\ added' \subseteq added
      /\ Commit(<<AccessRevoked(m), Changed(GroupItself(g))>>)
  BY DEF RemoveGroupMember
<1>2. Says
  BY <1>1, Singles, CommitSays
<1>3. GroupsTypeOK'
  BY <1>1, FewerRows DEF GroupsInv, GroupsTypeOK
<1>4. ReturnerStartsWithoutGroups'
  BY <1>1, RowsKept DEF Ended, Unended
<1> QED BY <1>2, <1>3, <1>4 DEF GroupsInv

\* Who had left starts a new tenure without rows; who had not keeps tenure and rows.
LEMMA Assigning ==
  ASSUME GroupsInv, NEW m \in Member, NEW class \in Class, NEW when \in {"now", "later"},
         Assign(m, class, when)
  PROVE  GroupsInv' /\ Says
<1>1. /\ role' = [role EXCEPT ![m][class] = IF when = "now" THEN "running" ELSE "booked"]
      /\ UNCHANGED <<tenant, group>>
      /\ added' = IF Ended(m) THEN RowsWithout({m}) ELSE added
      /\ standing' = [standing EXCEPT ![m] = "active"]
      /\ tenure' = [tenure EXCEPT ![m] =
                      IF standing[m] # "none" /\ Ended(m) THEN tenure[m] + 1 ELSE tenure[m]]
      /\ Commit(IF Ended(m) THEN LeavingAnnounced({m}) ELSE <<>>)
  BY DEF Assign, Reopen, LeavesOnReturn
<1>2. (IF Ended(m) THEN LeavingAnnounced({m}) ELSE <<>>) \in Seq(Change)
  BY AnnouncedLeaving, Singles DEF GroupsInv
<1>3. Says
  BY <1>1, <1>2, CommitSays
<1>4. added' \subseteq added
  BY <1>1 DEF RowsWithout
<1>5. added' \subseteq Row /\ IsFiniteSet(added')
  BY <1>4, FewerRows DEF GroupsInv
<1>6. role' \in [Member -> [Class -> {"none", "booked", "running", "ended"}]]
  <2>1. role[m] \in [Class -> {"none", "booked", "running", "ended"}]
    BY DEF GroupsInv, GroupsTypeOK
  <2>2. role' = [role EXCEPT ![m] =
                   [role[m] EXCEPT ![class] = IF when = "now" THEN "running" ELSE "booked"]]
    BY <1>1
  <2> QED BY <2>1, <2>2 DEF GroupsInv, GroupsTypeOK
<1>7. standing' \in [Member -> {"none", "active", "revoked"}] /\ tenure' \in [Member -> Nat]
  BY <1>1 DEF GroupsInv, GroupsTypeOK
<1>8. GroupsTypeOK'
  BY <1>1, <1>5, <1>6, <1>7 DEF GroupsInv, GroupsTypeOK
<1>9. \A x \in Member : x # m => (Ended(x)' <=> Ended(x)) /\ tenure'[x] = tenure[x]
  BY <1>1 DEF GroupsInv, GroupsTypeOK, Ended, Unended
<1>10. \A row \in added' : row.member = m => ~Ended(m) /\ tenure'[m] = tenure[m]
  BY <1>1, <1>4 DEF RowsWithout, GroupsInv, GroupsTypeOK
<1>11. ReturnerStartsWithoutGroups'
  BY <1>4, <1>9, <1>10 DEF GroupsInv, GroupsTypeOK, Row, ReturnerStartsWithoutGroups
<1> QED BY <1>3, <1>8, <1>11 DEF GroupsInv

\* Assignments taken away leave nobody with a role they had not.
LEMMA RolesTaken ==
  ASSUME GroupsTypeOK, NEW m \in Member, NEW classes, role' = RoleRevoked(m, classes)
  PROVE  /\ role' \in [Member -> [Class -> {"none", "booked", "running", "ended"}]]
         /\ \A x \in Member : Unended(x)' \subseteq Unended(x)
<1> DEFINE left == [class \in Class |-> IF class \in classes THEN "none" ELSE role[m][class]]
<1>1. role' = [role EXCEPT ![m] = left]
  BY DEF RoleRevoked
<1>2. left \in [Class -> {"none", "booked", "running", "ended"}]
  BY DEF GroupsTypeOK
<1>3. \A class \in Class : left[class] # "none" => left[class] = role[m][class]
  OBVIOUS
<1> HIDE DEF left
<1> QED BY <1>1, <1>2, <1>3 DEF GroupsTypeOK, Unended

\* A revoked assignment can end a membership, never bring one back.
LEMMA RevokingRole ==
  ASSUME GroupsInv, NEW actor \in Member, NEW m \in Member, NEW class \in Class,
         RevokeRoleAssignment(actor, m, class)
  PROVE  GroupsInv' /\ Says
<1>1. /\ role' = RoleRevoked(m, {class})
      /\ Commit(<<AccessRevoked(m)>>)
      /\ UNCHANGED <<tenant, standing, group, added, tenure>>
  BY DEF RevokeRoleAssignment
<1>2. Says
  BY <1>1, Singles, CommitSays
<1>3. /\ role' \in [Member -> [Class -> {"none", "booked", "running", "ended"}]]
      /\ \A x \in Member : Unended(x)' \subseteq Unended(x)
  BY <1>1, RolesTaken DEF GroupsInv
<1>4. GroupsTypeOK'
  BY <1>1, <1>3 DEF GroupsInv, GroupsTypeOK
<1>5. \A x \in Member : Ended(x) => Ended(x)'
  BY <1>1, <1>3 DEF Ended
<1>6. ReturnerStartsWithoutGroups'
  BY <1>1, <1>5, RowsKept
<1> QED BY <1>2, <1>4, <1>6 DEF GroupsInv

\* A revoked membership leaves its groups as it ends.
LEMMA RevokingMembership ==
  ASSUME GroupsInv, NEW actor \in Member, NEW m \in Member, RevokeMembership(actor, m)
  PROVE  GroupsInv' /\ Says
<1>1. PICK classes : role' = RoleRevoked(m, classes)
  BY DEF RevokeMembership
<1>2. /\ standing' = [standing EXCEPT ![m] = "revoked"]
      /\ added' = RowsWithout({m})
      /\ Commit(Append(LeavingAnnounced({m}), AccessRevoked(m)))
      /\ UNCHANGED <<tenant, group, tenure>>
  BY DEF RevokeMembership
<1>3. Append(LeavingAnnounced({m}), AccessRevoked(m)) \in Seq(Change)
  <2>1. LeavingAnnounced({m}) \in Seq(Change) /\ AccessRevoked(m) \in Change
    BY AnnouncedLeaving DEF GroupsInv, Change
  <2> QED BY <2>1, AppendProperties
<1>4. Says
  BY <1>2, <1>3, CommitSays
<1>5. /\ role' \in [Member -> [Class -> {"none", "booked", "running", "ended"}]]
      /\ \A x \in Member : Unended(x)' \subseteq Unended(x)
  BY <1>1, RolesTaken DEF GroupsInv
<1>6. added' \subseteq added
  BY <1>2 DEF RowsWithout
<1>7. GroupsTypeOK'
  BY <1>2, <1>5, <1>6, FewerRows DEF GroupsInv, GroupsTypeOK
<1>8. \A x \in Member : Ended(x) => Ended(x)'
  BY <1>2, <1>5 DEF GroupsInv, GroupsTypeOK, Ended
<1>9. ReturnerStartsWithoutGroups'
  BY <1>2, <1>6, <1>8, RowsKept
<1> QED BY <1>4, <1>7, <1>9 DEF GroupsInv

\* The sweep takes rows away.
LEMMA Clearing ==
  ASSUME GroupsInv, ClearEndedProfiles
  PROVE  GroupsInv' /\ Says
<1> DEFINE ended == {m \in Member : Ended(m) /\ \E row \in added : row.member = m}
<1>1. /\ added' = RowsWithout(ended)
      /\ Commit(LeavingAnnounced(ended))
      /\ UNCHANGED <<tenant, standing, role, group, tenure>>
  BY DEF ClearEndedProfiles
<1> HIDE DEF ended
<1>2. Says
  BY <1>1, AnnouncedLeaving, CommitSays DEF GroupsInv
<1>3. added' \subseteq added
  BY <1>1 DEF RowsWithout
<1>4. GroupsTypeOK'
  BY <1>1, <1>3, FewerRows DEF GroupsInv, GroupsTypeOK
<1>5. ReturnerStartsWithoutGroups'
  BY <1>1, <1>3, RowsKept DEF Ended, Unended
<1> QED BY <1>2, <1>4, <1>5 DEF GroupsInv

\* Days and operators say nothing and bring nobody back.
LEMMA FromOutside ==
  ASSUME GroupsInv, OutsideChange
  PROVE  GroupsInv' /\ UNCHANGED wire
<1>1. ASSUME NEW m \in Member, NEW class \in Class, RoleEnds(m, class) \/ RoleStarts(m, class)
      PROVE  GroupsInv' /\ UNCHANGED wire
  <2>1. UNCHANGED <<tenant, standing, group, added, tenure, commits, wire>>
    BY <1>1 DEF RoleEnds, RoleStarts
  <2>2. PICK state \in {"ended", "running"} :
          /\ role' = [role EXCEPT ![m] = [role[m] EXCEPT ![class] = state]]
          /\ role[m][class] \in {"running", "booked"}
    BY <1>1 DEF RoleEnds, RoleStarts
  <2>3. role' \in [Member -> [Class -> {"none", "booked", "running", "ended"}]]
    BY <2>2 DEF GroupsInv, GroupsTypeOK
  <2>4. \A x \in Member : Ended(x) => Ended(x)'
    BY <2>1, <2>2 DEF GroupsInv, GroupsTypeOK, Ended, Unended
  <2>5. GroupsTypeOK'
    BY <2>1, <2>3 DEF GroupsInv, GroupsTypeOK
  <2>6. ReturnerStartsWithoutGroups'
    BY <2>1, <2>4, RowsKept
  <2> QED BY <2>1, <2>5, <2>6 DEF GroupsInv
<1>2. ASSUME NEW status \in {"open", "frozen", "closed"}, SetTenant(status)
      PROVE  GroupsInv' /\ UNCHANGED wire
  <2>1. /\ UNCHANGED <<standing, role, group, added, tenure, commits, wire>>
        /\ tenant' \in {"open", "frozen", "closed"}
    BY <1>2 DEF SetTenant
  <2> QED BY <2>1 DEF GroupsInv, GroupsTypeOK, ReturnerStartsWithoutGroups, Ended, Unended
<1> QED BY <1>1, <1>2 DEF OutsideChange

\* Every step of the FAU keeps its invariant and only appends to the wire.
LEMMA GroupsStep ==
  ASSUME GroupsAssumption, GroupsInv, wire \in Seq(Told), GroupsNext
  PROVE  GroupsInv' /\ Says
<1>1. CASE GroupChange
  BY <1>1, GroupItselfChanges, Adding, Removing DEF GroupChange
<1>2. CASE RoleChange
  <2>1. \A offer \in Offered : offer[1] \in Class /\ offer[2] \in {"now", "later"}
    BY DEF GroupsAssumption
  <2> QED BY <1>2, <2>1, Assigning, RevokingRole, RevokingMembership
          DEF RoleChange, AcceptInvitation, GrantRole
<1>3. CASE ClearEndedProfiles
  BY <1>3, Clearing
<1>4. CASE OutsideChange
  <2>1. GroupsInv' /\ wire' = wire
    BY <1>4, FromOutside
  <2>2. wire = wire \o <<>>
    BY ConcatEmptySeq
  <2> QED BY <2>1, <2>2, Singles DEF Says
<1> QED BY <1>1, <1>2, <1>3, <1>4 DEF GroupsNext

-----------------------------------------------------------------------------
(* Streams: one row changes, or some lose their sender. *)

\* The other streams stay as they are.
LEMMA OneStream ==
  ASSUME HubTypeOK, NEW s \in Stream, NEW new \in Subscription, Len(new.buffer) <= Buffer,
         stream' = [stream EXCEPT ![s] = new]
  PROVE  /\ stream' \in [Stream -> Subscription]
         /\ \A t \in Stream : Len(stream'[t].buffer) <= Buffer
         /\ stream'[s] = new
         /\ \A t \in Stream : t # s => stream'[t] = stream[t]
<1>1. stream \in [Stream -> Subscription] /\ \A t \in Stream : Len(stream[t].buffer) <= Buffer
  BY DEF HubTypeOK
<1> QED BY <1>1

\* An unused slot, and a listener that waits.
LEMMA Unused ==
  ASSUME HubAssumption
  PROVE  /\ NoStream \in Subscription /\ Len(NoStream.buffer) <= Buffer
         /\ ~NoStream.registered /\ NoStream.owed = {} /\ ~NoStream.stale
         /\ Waiting \in Listening /\ Waiting.pc = "recv" /\ Waiting.targets = {}
<1>1. <<>> \in Seq(Resource) /\ Len(<<>>) = 0 /\ Fau \in Resource /\ "none" \in Capability
  BY DEF Resource, Capability
<1> QED BY <1>1 DEF HubAssumption, NoStream, Subscription, Waiting, Listening

\* Removing and closing streams drops senders and touches nothing else that counts.
LEMMA SendersDropped ==
  ASSUME HubTypeOK, NEW S, stream' = Removed(S) \/ stream' = ClosedAndRemoved(S)
  PROVE  /\ stream' \in [Stream -> Subscription]
         /\ \A t \in Stream :
              /\ Len(stream'[t].buffer) <= Buffer
              /\ t \in S => ~stream'[t].registered
              /\ t \notin S => stream'[t] = stream[t]
              /\ stream'[t].phase = stream[t].phase
<1>1. stream \in [Stream -> Subscription] /\ \A t \in Stream : Len(stream[t].buffer) <= Buffer
  BY DEF HubTypeOK
<1>2. \A row \in Subscription :
        /\ [row EXCEPT !.registered = FALSE] \in Subscription
        /\ ~[row EXCEPT !.registered = FALSE].registered
        /\ [row EXCEPT !.registered = FALSE].buffer = row.buffer
        /\ [row EXCEPT !.registered = FALSE].phase = row.phase
        /\ [row EXCEPT !.registered = FALSE, !.closed = TRUE] \in Subscription
        /\ ~[row EXCEPT !.registered = FALSE, !.closed = TRUE].registered
        /\ [row EXCEPT !.registered = FALSE, !.closed = TRUE].buffer = row.buffer
        /\ [row EXCEPT !.registered = FALSE, !.closed = TRUE].phase = row.phase
  BY DEF Subscription
<1>3. CASE stream' = Removed(S)
  <2>1. \A t \in Stream : stream'[t] = IF t \in S THEN [stream[t] EXCEPT !.registered = FALSE]
                                       ELSE stream[t]
    BY <1>3 DEF Removed
  <2>2. stream' = [t \in Stream |-> stream'[t]]
    BY <1>3 DEF Removed
  <2>3. \A t \in Stream : stream'[t] \in Subscription
    BY <1>1, <1>2, <2>1
  <2>4. stream' \in [Stream -> Subscription]
    BY <2>2, <2>3
  <2> QED BY ZenonT(30), <1>1, <1>2, <2>1, <2>4
<1>4. CASE stream' = ClosedAndRemoved(S)
  <2>1. \A t \in Stream :
          stream'[t] = IF t \in S THEN [stream[t] EXCEPT !.registered = FALSE, !.closed = TRUE]
                       ELSE stream[t]
    BY <1>4 DEF ClosedAndRemoved
  <2>2. stream' = [t \in Stream |-> stream'[t]]
    BY <1>4 DEF ClosedAndRemoved
  <2>3. \A t \in Stream : stream'[t] \in Subscription
    BY <1>1, <1>2, <2>1
  <2>4. stream' \in [Stream -> Subscription]
    BY <2>2, <2>3
  <2> QED BY ZenonT(30), <1>1, <1>2, <2>1, <2>4
<1> QED BY <1>3, <1>4

\* A stream that has no more to hear, and loses nothing that is pending, is still well.
LEMMA StillWell ==
  ASSUME NEW t \in Stream, StreamOK(t),
         stream'[t].registered =>
           /\ stream[t].registered
           /\ stream'[t].phase # "none" /\ stream'[t].viewer = stream[t].viewer
           /\ stream'[t].owed \subseteq stream[t].owed
           /\ stream'[t].stale => stream[t].stale
           /\ LET x == AccessRevoked(stream[t].viewer) IN Pending(x) => Pending(x)'
           /\ \A r \in stream'[t].owed :
                /\ Pending(Changed(r)) => Pending(Changed(r))'
                /\ t \in listener.targets /\ listener.resource = r
                   => Pending(Changed(r))' \/ (t \in listener'.targets /\ listener'.resource = r)
  PROVE  StreamOK(t)'
<1> HIDE DEF Pending
<1> QED BY DEF StreamOK

\* Once the listener is about to close every stream, all are well that are subscribed.
LEMMA WellWhenClosing ==
  ASSUME NEW t \in Stream, listener.pc \in {"rebuild", "closing"},
         stream[t].registered => stream[t].phase # "none"
  PROVE  StreamOK(t)
BY DEF StreamOK, Pending

-----------------------------------------------------------------------------
(* The hub's steps. *)

\* What the listener leaves of its targets, the rest still waits for.
LEMMA TargetsLeft ==
  ASSUME HubAssumption, HubInv, NEW s \in listener.targets,
         listener' = WithTargets(listener.targets \ {s})
  PROVE  /\ listener' \in Listening /\ listener'.targets = listener.targets \ {s}
         /\ listener'.targets # {} => /\ listener'.pc = listener.pc
                                      /\ listener'.resource = listener.resource
         /\ listener.pc \in {"dispatch", "facts"}
<1>1. listener \in Listening /\ listener.pc \in {"dispatch", "facts"}
  BY DEF HubInv, HubTypeOK, TargetsInv
<1>2. CASE listener.targets \ {s} = {}
  BY <1>1, <1>2, Unused DEF WithTargets
<1>3. CASE listener.targets \ {s} # {}
  <2>1. listener' = [listener EXCEPT !.targets = listener.targets \ {s}]
    BY <1>3 DEF WithTargets
  <2> QED BY <1>1, <2>1 DEF Listening
<1> QED BY <1>2, <1>3

\* A target that is done with, its stream dropped, sent to or removed.
LEMMA TargetDone ==
  ASSUME HubAssumption, HubInv, UNCHANGED wire, NEW s \in Stream, NEW new \in Subscription,
         Len(new.buffer) <= Buffer, stream' = [stream EXCEPT ![s] = new],
         IF s \in listener.targets THEN listener' = WithTargets(listener.targets \ {s})
                                   ELSE listener' = listener,
         s \in listener'.targets => new.phase # "none",
         new.registered =>
           /\ stream[s].registered /\ new.phase # "none" /\ new.viewer = stream[s].viewer
           /\ new.stale => stream[s].stale
           /\ new.owed \subseteq stream[s].owed
           /\ s \in listener.targets => listener.resource \notin new.owed
  PROVE  HubInv'
<1>1. /\ stream' \in [Stream -> Subscription]
      /\ \A t \in Stream : Len(stream'[t].buffer) <= Buffer
      /\ stream'[s] = new
      /\ \A t \in Stream : t # s => stream'[t] = stream[t]
  BY OneStream DEF HubInv
<1>2. /\ listener' \in Listening /\ listener'.targets \subseteq listener.targets
      /\ \A t \in listener.targets : t # s => t \in listener'.targets
      /\ listener'.targets # {} =>
           listener'.pc = listener.pc /\ listener'.resource = listener.resource
      /\ listener' = listener \/ listener.pc \in {"dispatch", "facts"}
  BY TargetsLeft DEF HubInv, HubTypeOK
<1>3. HubTypeOK'
  BY <1>1, <1>2 DEF HubInv, HubTypeOK
<1>4. TargetsInv'
  <2>1. listener.targets \subseteq Stream
    BY DEF HubInv, HubTypeOK, Listening
  <2> QED BY <1>1, <1>2, <2>1 DEF HubInv, TargetsInv
<1>5. ASSUME NEW x, Pending(x) PROVE Pending(x)'
  BY <1>2, <1>5 DEF Pending
<1>6. ASSUME NEW t \in Stream PROVE StreamOK(t)'
  <2>1. CASE t = s
    BY <1>1, <1>5, <2>1, StillWell DEF HubInv
  <2>2. CASE t # s
    BY <1>1, <1>2, <1>5, <2>2, StillWell DEF HubInv, StreamOK
  <2> QED BY <2>1, <2>2
<1> QED BY <1>3, <1>4, <1>6 DEF HubInv

\* A dropped stream owes and is owed nothing.
LEMMA Dropping ==
  ASSUME HubAssumption, HubInv, UNCHANGED wire, NEW s \in Stream, Dropped(s)
  PROVE  HubInv'
<1>1. s \in listener.targets => s \notin listener'.targets
  BY TargetsLeft DEF Dropped
<1>2. ~(s \in listener.targets) => listener' = listener
  BY DEF Dropped
<1> QED BY <1>1, <1>2, Unused, TargetDone DEF Dropped

\* A fresh subscription is owed nothing yet.
LEMMA Subscribing ==
  ASSUME HubAssumption, HubInv, NEW s \in Stream, NEW m \in Viewers, Subscribe(s, m)
  PROVE  HubInv'
<1> DEFINE new == [NoStream EXCEPT !.phase = "checking", !.viewer = m, !.registered = TRUE]
<1>1. /\ new \in Subscription /\ Len(new.buffer) <= Buffer
      /\ new.phase # "none" /\ new.owed = {} /\ ~new.stale
  BY Unused DEF HubAssumption, Subscription
<1>2. stream' = [stream EXCEPT ![s] = new] /\ UNCHANGED <<wire, listener>>
  BY DEF Subscribe, groupVars
<1> HIDE DEF new
<1>3. /\ stream' \in [Stream -> Subscription]
      /\ \A t \in Stream : Len(stream'[t].buffer) <= Buffer
      /\ stream'[s] = new
      /\ \A t \in Stream : t # s => stream'[t] = stream[t]
  BY <1>1, <1>2, OneStream DEF HubInv
<1>4. HubTypeOK'
  BY <1>2, <1>3 DEF HubInv, HubTypeOK
<1>5. TargetsInv'
  <2>1. listener.targets \subseteq Stream
    BY DEF HubInv, HubTypeOK, Listening
  <2> QED BY <1>1, <1>2, <1>3, <2>1 DEF HubInv, TargetsInv
<1>6. ASSUME NEW t \in Stream PROVE StreamOK(t)'
  <2>1. CASE t = s
    BY <1>1, <1>3, <2>1 DEF StreamOK
  <2>2. CASE t # s
    BY <1>2, <1>3, <2>2 DEF HubInv, StreamOK, Pending
  <2> QED BY <2>1, <2>2
<1> QED BY <1>4, <1>5, <1>6 DEF HubInv

\* A step of one stream that keeps its row's promises, or drops it.
LEMMA StreamSteps ==
  ASSUME HubAssumption, HubInv, NEW s \in Stream,
         CheckStanding(s) \/ Leave(s) \/ ReaderStep(s)
  PROVE  HubInv'
<1> DEFINE row == stream[s]
<1>1. row \in Subscription /\ Len(row.buffer) <= Buffer /\ UNCHANGED wire
  BY DEF HubInv, HubTypeOK, CheckStanding, Leave, ReaderStep, PollClose, PollReceiver, groupVars
<1>2. ASSUME NEW new \in Subscription, Len(new.buffer) <= Buffer,
             stream' = [stream EXCEPT ![s] = new], listener' = listener, new.phase # "none",
             new.registered = row.registered, new.viewer = row.viewer,
             new.owed = row.owed, new.stale = row.stale
      PROVE  HubInv'
  <2>1. /\ stream' \in [Stream -> Subscription]
        /\ \A t \in Stream : Len(stream'[t].buffer) <= Buffer
        /\ stream'[s] = new
        /\ \A t \in Stream : t # s => stream'[t] = stream[t]
    BY <1>2, OneStream DEF HubInv
  <2>2. HubTypeOK'
    BY <1>1, <1>2, <2>1 DEF HubInv, HubTypeOK
  <2>3. TargetsInv'
    <3>1. listener.targets \subseteq Stream
      BY DEF HubInv, HubTypeOK, Listening
    <3> QED BY <1>2, <2>1, <3>1 DEF HubInv, TargetsInv
  <2>4. ASSUME NEW x, Pending(x) PROVE Pending(x)'
    BY <1>1, <1>2, <2>4 DEF Pending
  <2>5. ASSUME NEW t \in Stream PROVE StreamOK(t)'
    BY <1>2, <2>1, <2>4, StillWell DEF HubInv, StreamOK
  <2> QED BY <2>2, <2>3, <2>5 DEF HubInv
<1>3. CASE Dropped(s)
  BY <1>1, <1>3, Dropping
<1>4. CASE ~Dropped(s)
  <2>1. CASE CheckStanding(s)
    <3> DEFINE new == [row EXCEPT !.phase = "open"]
    <3>1. stream' = [stream EXCEPT ![s] = new] /\ listener' = listener
      BY <1>4, <2>1 DEF CheckStanding
    <3>2. /\ new \in Subscription /\ new.buffer = row.buffer /\ new.phase # "none"
          /\ new.registered = row.registered /\ new.viewer = row.viewer
          /\ new.owed = row.owed /\ new.stale = row.stale
      BY <1>1 DEF Subscription
    <3> HIDE DEF new, row
    <3> QED BY <1>1, <1>2, <3>1, <3>2
  <2>2. CASE PollClose(s)
    <3> DEFINE new == [row EXCEPT !.polled = TRUE]
    <3>1. /\ stream' = [stream EXCEPT ![s] = new] /\ listener' = listener
          /\ row.phase = "open"
      BY <1>4, <2>2 DEF PollClose
    <3>2. /\ new \in Subscription /\ new.buffer = row.buffer /\ new.phase = row.phase
          /\ new.registered = row.registered /\ new.viewer = row.viewer
          /\ new.owed = row.owed /\ new.stale = row.stale
      BY <1>1 DEF Subscription
    <3> HIDE DEF new, row
    <3> QED BY <1>1, <1>2, <3>1, <3>2
  <2>3. CASE PollReceiver(s)
    <3> DEFINE
          rest == IF row.buffer = <<>> THEN row.buffer ELSE Tail(row.buffer)
          new == [row EXCEPT !.polled = FALSE, !.buffer = rest]
    <3>1. /\ stream' = [stream EXCEPT ![s] = new] /\ listener' = listener
          /\ row.phase = "open"
      BY <1>4, <2>3 DEF PollReceiver
    <3>2. rest \in Seq(Resource) /\ Len(rest) <= Buffer
      <4>1. row.buffer \in Seq(Resource) /\ Len(row.buffer) \in Nat
        BY <1>1 DEF Subscription
      <4> QED BY <1>1, <4>1, HeadTailProperties DEF HubAssumption
    <3> HIDE DEF rest
    <3>3. /\ new \in Subscription /\ new.buffer = rest /\ new.phase = row.phase
          /\ new.registered = row.registered /\ new.viewer = row.viewer
          /\ new.owed = row.owed /\ new.stale = row.stale
      BY <1>1, <3>2 DEF Subscription
    <3> HIDE DEF new, row
    <3> QED BY <1>1, <1>2, <3>1, <3>2, <3>3
  <2>4. CASE Leave(s)
    BY <1>4, <2>4 DEF Leave
  <2> QED BY <2>1, <2>2, <2>3, <2>4 DEF ReaderStep
<1> QED BY <1>3, <1>4

-----------------------------------------------------------------------------
(* The listener's steps. *)

\* Deciding about a target leaves the targets and what is pending.
LEMMA Deciding ==
  ASSUME HubAssumption, HubInv, UNCHANGED <<wire, stream>>, listener' \in Listening,
         listener'.targets = listener.targets, listener'.resource = listener.resource,
         {listener.pc, listener'.pc} \subseteq {"dispatch", "facts"}
  PROVE  HubInv'
<1>1. HubTypeOK'
  BY DEF HubInv, HubTypeOK
<1>2. TargetsInv'
  BY DEF HubInv, TargetsInv
<1>3. ASSUME NEW x, Pending(x) PROVE Pending(x)'
  BY <1>3 DEF Pending
<1>4. ASSUME NEW t \in Stream PROVE StreamOK(t)'
  BY <1>3, StillWell DEF HubInv, StreamOK
<1> QED BY <1>1, <1>2, <1>4 DEF HubInv

\* authorize, in its two steps, and its failure.
LEMMA Authorizing ==
  ASSUME HubAssumption, HubInv,
         AuthorizeFacts \/ \E s \in Stream : AuthorizeAccess(s) \/ AuthorizeFails(s)
  PROVE  HubInv'
<1>1. UNCHANGED <<wire, stream>> /\ listener.pc \in {"dispatch", "facts"}
  BY DEF AuthorizeAccess, AuthorizeFacts, AuthorizeFails, Undecided, groupVars
<1>2. /\ listener \in Listening
      /\ \A s \in Stream : stream[s].viewer \in Member \cup {NoMember}
  BY DEF HubInv, HubTypeOK, Subscription
<1>3. ASSUME NEW m, NEW decision \in {"ok", "hidden", "no_access", "failed"},
             Decide(m, decision)
      PROVE  HubInv'
  <2> DEFINE decided == [listener.decided EXCEPT ![m] = decision]
  <2>1. decided \in [Member -> {"unknown", "ok", "hidden", "no_access", "failed"}]
    BY <1>2 DEF Listening
  <2>2. listener' = [listener EXCEPT !.pc = "dispatch", !.decided = decided]
    BY <1>3 DEF Decide
  <2> HIDE DEF decided
  <2>3. /\ listener' \in Listening /\ listener'.pc = "dispatch"
        /\ listener'.targets = listener.targets /\ listener'.resource = listener.resource
    BY <1>2, <2>1, <2>2 DEF Listening
  <2> QED BY <1>1, <2>3, Deciding
<1>4. ASSUME NEW m \in Member \cup {NoMember}, NEW capability \in Capability,
             listener' = [listener EXCEPT !.pc = "facts", !.viewer = m, !.capability = capability]
      PROVE  HubInv'
  <2>1. /\ listener' \in Listening /\ listener'.pc = "facts"
        /\ listener'.targets = listener.targets /\ listener'.resource = listener.resource
    BY <1>2, <1>4 DEF Listening
  <2> QED BY <1>1, <2>1, Deciding
<1>5. ASSUME NEW s \in Stream, AuthorizeAccess(s)
      PROVE  HubInv'
  <2>1. MembershipAccess(stream[s].viewer) \in Capability
    BY DEF MembershipAccess, EvaluateAccess, Capability, Class
  <2> QED BY <1>2, <1>3, <1>4, <1>5, <2>1 DEF AuthorizeAccess
<1>6. CASE AuthorizeFacts
  BY <1>3, <1>6 DEF AuthorizeFacts
<1>7. ASSUME NEW s \in Stream, AuthorizeFails(s)
      PROVE  HubInv'
  BY <1>3, <1>7 DEF AuthorizeFails
<1> QED BY <1>5, <1>6, <1>7

\* A target is sent the change, may not see it, or loses its sender.
LEMMA Delivering ==
  ASSUME HubAssumption, HubInv, NEW s \in Stream, Deliver(s)
  PROVE  HubInv'
<1> DEFINE row == stream[s]
           kept == row.owed \ {listener.resource}
<1>1. /\ s \in listener.targets /\ UNCHANGED wire
      /\ listener' = WithTargets(listener.targets \ {s})
      /\ \/ stream' = TrySend(s)
         \/ stream' = [stream EXCEPT ![s] = [row EXCEPT !.owed = kept]]
         \/ stream' = ClosedAndRemoved({s})
         \/ stream' = Removed({s})
  BY DEF Deliver, groupVars
<1>2. /\ row \in Subscription /\ Len(row.buffer) <= Buffer /\ row.phase # "none"
      /\ stream \in [Stream -> Subscription] /\ listener.resource \in Resource
      /\ kept \subseteq row.owed /\ kept \subseteq Resource /\ listener.resource \notin kept
  BY <1>1 DEF HubInv, HubTypeOK, TargetsInv, Subscription, Listening
<1> HIDE DEF kept
<1>3. listener'.targets = listener.targets \ {s}
  BY <1>1, TargetsLeft
<1>4. ASSUME NEW new \in Subscription, Len(new.buffer) <= Buffer,
             stream' = [stream EXCEPT ![s] = new],
             \/ ~new.registered
             \/ /\ new.registered = row.registered /\ new.phase = row.phase
                /\ new.viewer = row.viewer /\ new.stale = row.stale /\ new.owed = kept
      PROVE  HubInv'
  BY <1>1, <1>2, <1>3, <1>4, TargetDone
<1>5. CASE stream' = [stream EXCEPT ![s] = [row EXCEPT !.owed = kept]]
  <2> DEFINE new == [row EXCEPT !.owed = kept]
  <2>1. /\ new \in Subscription /\ new.buffer = row.buffer
        /\ new.registered = row.registered /\ new.phase = row.phase
        /\ new.viewer = row.viewer /\ new.stale = row.stale /\ new.owed = kept
    BY <1>2 DEF Subscription
  <2> HIDE DEF new, row
  <2> QED BY <1>2, <1>4, <1>5, <2>1 DEF new
<1>6. CASE /\ Len(row.buffer) < Buffer
           /\ stream' = [stream EXCEPT ![s] =
                [row EXCEPT !.buffer = Append(row.buffer, listener.resource), !.owed = kept]]
  <2> DEFINE longer == Append(row.buffer, listener.resource)
             new == [row EXCEPT !.buffer = longer, !.owed = kept]
  <2>1. longer \in Seq(Resource) /\ Len(longer) <= Buffer
    <3>1. row.buffer \in Seq(Resource)
      BY <1>2 DEF Subscription
    <3>2. Len(row.buffer) \in Nat
      BY <3>1, LenProperties
    <3> QED BY <1>2, <1>6, <3>1, <3>2, AppendProperties DEF HubAssumption
  <2>2. stream' = [stream EXCEPT ![s] = new]
    BY <1>6
  <2> HIDE DEF longer
  <2>3. /\ new \in Subscription /\ new.buffer = longer
        /\ new.registered = row.registered /\ new.phase = row.phase
        /\ new.viewer = row.viewer /\ new.stale = row.stale /\ new.owed = kept
    BY <1>2, <2>1 DEF Subscription
  <2> HIDE DEF new, row
  <2> QED BY <1>4, <2>1, <2>2, <2>3
<1>7. CASE stream' = Removed({s}) \/ stream' = ClosedAndRemoved({s})
  <2>1. /\ stream' \in [Stream -> Subscription] /\ Len(stream'[s].buffer) <= Buffer
        /\ ~stream'[s].registered
        /\ \A t \in Stream : t # s => stream'[t] = stream[t]
    BY <1>7, SendersDropped DEF HubInv
  <2>2. stream' = [stream EXCEPT ![s] = stream'[s]] /\ stream'[s] \in Subscription
    BY <1>2, <2>1
  <2> QED BY <1>4, <2>1, <2>2
<1>8. CASE stream' = TrySend(s)
  <2>1. CASE Len(row.buffer) < Buffer
    <3>1. stream' = [stream EXCEPT ![s] =
            [row EXCEPT !.buffer = Append(row.buffer, listener.resource), !.owed = kept]]
      BY <1>8, <2>1 DEF TrySend, kept
    <3> QED BY <1>6, <2>1, <3>1
  <2>2. CASE ~(Len(row.buffer) < Buffer)
    BY <1>7, <1>8, <2>2 DEF TrySend
  <2> QED BY <2>1, <2>2
<1> QED BY <1>1, <1>5, <1>7, <1>8

\* Streams that lose their sender are owed nothing more.
LEMMA NoConnection ==
  ASSUME HubAssumption, HubInv, AcquireFails
  PROVE  HubInv'
<1>1. /\ stream' = Removed(listener.targets) /\ listener' = Waiting /\ UNCHANGED wire
      /\ listener.pc = "dispatch"
  BY DEF AcquireFails, Undecided, groupVars
<1>2. /\ stream' \in [Stream -> Subscription]
      /\ \A t \in Stream :
           /\ Len(stream'[t].buffer) <= Buffer
           /\ t \in listener.targets => ~stream'[t].registered
           /\ t \notin listener.targets => stream'[t] = stream[t]
  BY <1>1, SendersDropped DEF HubInv
<1>3. HubTypeOK' /\ TargetsInv'
  BY <1>1, <1>2, Unused DEF HubInv, HubTypeOK, TargetsInv
<1>4. ASSUME NEW x, Pending(x) PROVE Pending(x)'
  BY <1>1, <1>4 DEF Pending
<1>5. ASSUME NEW t \in Stream PROVE StreamOK(t)'
  BY <1>1, <1>2, <1>4, StillWell DEF HubInv, StreamOK
<1> QED BY <1>3, <1>5 DEF HubInv

\* dispatch reads the first notification: a revocation closes its streams, a change becomes
\* the listener's work.
LEMMA Dispatching ==
  ASSUME HubAssumption, HubInv, DispatchRevoked \/ DispatchChanged
  PROVE  HubInv'
<1> DEFINE first == Head(wire)
<1>1. /\ wire \in Seq(Told) /\ wire # <<>> /\ listener.pc = "recv" /\ wire' = Tail(wire)
      /\ listener.targets = {}
  BY DEF DispatchRevoked, DispatchChanged, Received, Consumed, HubInv, HubTypeOK, TargetsInv
<1>2. /\ wire' \in Seq(Told) /\ first \in Told
      /\ \A x \in ToSet(wire) : x = first \/ x \in ToSet(wire')
  BY <1>1, TailSet
<1>3. \A x : Pending(x) /\ x # first /\ Break # first => Pending(x)'
  BY <1>1, <1>2 DEF Pending
<1>4. CASE DispatchRevoked
  <2> DEFINE gone == {t \in Registered : stream[t].viewer = first.member}
  <2>1. /\ stream' = ClosedAndRemoved(gone) /\ listener' = listener /\ first.kind = "access"
    BY <1>4 DEF DispatchRevoked
  <2>2. /\ stream' \in [Stream -> Subscription]
        /\ \A t \in Stream :
             /\ Len(stream'[t].buffer) <= Buffer
             /\ t \in gone => ~stream'[t].registered
             /\ t \notin gone => stream'[t] = stream[t]
    <3> HIDE DEF gone
    <3> QED BY <2>1, SendersDropped DEF HubInv
  <2>3. HubTypeOK' /\ TargetsInv'
    BY <1>1, <1>2, <2>1, <2>2 DEF HubInv, HubTypeOK, TargetsInv
  <2>4. /\ Break # first /\ \A r : Changed(r) # first
        /\ \A m : AccessRevoked(m) = first => first.member = m
    BY <2>1 DEF Break, Changed, AccessRevoked
  <2>5. ASSUME NEW t \in Stream PROVE StreamOK(t)'
    <3>1. CASE stream'[t].registered
      <4>1. t \notin gone
        BY <2>2, <3>1
      <4>2. stream'[t] = stream[t] /\ stream[t].viewer # first.member
        BY <2>2, <3>1, <4>1 DEF Registered
      <4>3. LET x == AccessRevoked(stream[t].viewer) IN Pending(x) => Pending(x)'
        BY <1>3, <2>4, <4>2
      <4>4. \A r : Pending(Changed(r)) => Pending(Changed(r))'
        BY <1>3, <2>4
      <4>5. StreamOK(t) /\ stream[t].phase # "none"
        BY <3>1, <4>2 DEF HubInv, StreamOK
      <4> QED BY <1>1, <4>2, <4>3, <4>4, <4>5, StillWell
    <3>2. CASE ~stream'[t].registered
      BY <3>2 DEF StreamOK
    <3> QED BY <3>1, <3>2
  <2> QED BY <2>3, <2>5 DEF HubInv
<1>5. CASE DispatchChanged
  <2>1. /\ stream' = stream /\ first.kind = "changed"
        /\ listener' = IF Registered = {} THEN Waiting
                       ELSE [Waiting EXCEPT !.pc = "dispatch", !.resource = first.resource,
                                            !.targets = Registered]
    BY <1>5 DEF DispatchChanged
  <2>2. PICK about \in Resource : first = Changed(about)
    BY <1>2, <2>1 DEF Told, Change, Break, AccessRevoked
  <2>3. first.resource = about
    BY <2>2 DEF Changed
  <2>4. Registered \subseteq Stream
    BY DEF Registered
  <2>5. /\ listener' \in Listening /\ listener'.targets = Registered
        /\ Registered # {} => listener'.pc = "dispatch" /\ listener'.resource = about
    <3> HIDE DEF first
    <3>1. CASE Registered = {}
      BY <2>1, <3>1, Unused
    <3>2. CASE Registered # {}
      BY <2>1, <2>3, <2>4, <3>2, Unused DEF Listening
    <3> QED BY <3>1, <3>2
  <2>6. HubTypeOK'
    BY <1>2, <2>1, <2>5 DEF HubInv, HubTypeOK
  <2>7. TargetsInv'
    BY <2>1, <2>5 DEF HubInv, TargetsInv, StreamOK, Registered
  <2>8. /\ Break # first /\ \A m : AccessRevoked(m) # first
        /\ \A r : Changed(r) = first => r = about
    BY <2>2 DEF Break, Changed, AccessRevoked
  <2>9. ASSUME NEW t \in Stream PROVE StreamOK(t)'
    <3>1. CASE stream[t].registered
      <4>1. t \in listener'.targets /\ listener'.resource = about
        BY <2>5, <3>1 DEF Registered
      <4>2. StreamOK(t) /\ t \notin listener.targets
        BY <1>1 DEF HubInv
      <4>3. \A r \in stream[t].owed : Pending(Changed(r))' \/ r = about
        BY <1>3, <2>8, <3>1, <4>2 DEF StreamOK
      <4>4. ASSUME stream[t].stale
            PROVE  Pending(AccessRevoked(stream[t].viewer))'
        <5>1. Pending(AccessRevoked(stream[t].viewer))
          BY <3>1, <4>2, <4>4 DEF StreamOK
        <5>2. AccessRevoked(stream[t].viewer) # first
          BY <2>8
        <5>3. \A x : x = AccessRevoked(stream[t].viewer) => Pending(x)'
          BY <1>3, <2>8, <5>1, <5>2
        <5> QED BY <2>1, <5>3
      <4> QED BY <2>1, <4>1, <4>2, <4>3, <4>4 DEF StreamOK
    <3>2. CASE ~stream[t].registered
      BY <2>1, <3>2 DEF StreamOK
    <3> QED BY <3>1, <3>2
  <2> QED BY <2>6, <2>7, <2>9 DEF HubInv
<1> QED BY <1>4, <1>5

\* Around an outage everything is pending, or nobody is registered.
LEMMA Outage ==
  ASSUME HubAssumption, HubInv,
         LoseConnection \/ Reconnected \/ ListenerFails \/ RebuildListener \/ CloseAll
  PROVE  HubInv'
<1>1. /\ wire \in Seq(Told) /\ stream \in [Stream -> Subscription]
      /\ \A t \in Stream : Len(stream[t].buffer) <= Buffer
      /\ \A t \in Stream : stream[t].registered => stream[t].phase # "none"
      /\ listener \in Listening
  BY DEF HubInv, HubTypeOK, StreamOK
<1>2. Break \in Told
  BY DEF Told
<1>3. CASE LoseConnection
  <2>1. PICK k \in 0 .. Len(wire) : wire' = Append(SubSeq(wire, 1, k), Break)
    BY <1>3 DEF LoseConnection
  <2>2. stream' = stream /\ listener' = listener
    BY <1>3 DEF LoseConnection
  <2>3. SubSeq(wire, 1, k) \in Seq(Told)
    <3>1. Len(wire) \in Nat /\ \A i \in 1 .. k : wire[i] \in Told
      BY <1>1, LenProperties, ElementOfSeq
    <3> QED BY <3>1, SubSeqProperties
  <2>4. wire' \in Seq(Told) /\ Break \in ToSet(wire')
    BY <1>2, <2>1, <2>3, AppendSet
  <2>5. HubTypeOK' /\ TargetsInv'
    BY <2>2, <2>4 DEF HubInv, HubTypeOK, TargetsInv
  <2>6. ASSUME NEW t \in Stream PROVE StreamOK(t)'
    BY <1>1, <2>2, <2>4 DEF StreamOK, Pending
  <2> QED BY <2>5, <2>6 DEF HubInv
<1>4. CASE Reconnected \/ RebuildListener
  <2>1. /\ wire' = <<>> /\ listener' = [Waiting EXCEPT !.pc = "closing"] /\ stream' = stream
    BY <1>4 DEF Reconnected, RebuildListener
  <2>2. listener' \in Listening /\ listener'.targets = {} /\ listener'.pc = "closing"
    BY <2>1, Unused DEF Listening
  <2>3. HubTypeOK' /\ TargetsInv'
    BY <2>1, <2>2 DEF HubInv, HubTypeOK, TargetsInv
  <2>4. ASSUME NEW t \in Stream PROVE StreamOK(t)'
    BY <1>1, <2>1, <2>2 DEF StreamOK, Pending
  <2> QED BY <2>3, <2>4 DEF HubInv
<1>5. CASE ListenerFails \/ CloseAll
  <2>1. stream' = Removed(Registered)
    BY <1>5 DEF ListenerFails, CloseAll
  <2>2. wire' \in Seq(Told)
    BY SMTT(30), <1>1, <1>5, TailSet DEF ListenerFails, CloseAll, Received, Consumed, groupVars
  <2>3. listener' \in Listening /\ listener'.targets = {}
    BY <1>5, Unused DEF ListenerFails, CloseAll, Listening
  <2>4. /\ stream' \in [Stream -> Subscription]
        /\ \A t \in Stream : Len(stream'[t].buffer) <= Buffer /\ ~stream'[t].registered
    <3>1. stream' \in [Stream -> Subscription]
          /\ \A t \in Stream :
               /\ Len(stream'[t].buffer) <= Buffer
               /\ t \in Registered => ~stream'[t].registered
               /\ t \notin Registered => stream'[t] = stream[t]
      BY <2>1, SendersDropped DEF HubInv
    <3> QED BY <3>1 DEF Registered
  <2>5. HubTypeOK' /\ TargetsInv'
    BY <2>2, <2>3, <2>4 DEF HubInv, HubTypeOK, TargetsInv
  <2>6. ASSUME NEW t \in Stream PROVE StreamOK(t)'
    BY <2>4 DEF StreamOK
  <2> QED BY <2>5, <2>6 DEF HubInv
<1> QED BY <1>3, <1>4, <1>5

\* A commit's notifications are on the wire before a stream is owed what they say.
LEMMA Committing ==
  ASSUME GroupsAssumption, HubAssumption, IndInv, DatabaseStep
  PROVE  IndInv'
<1>1. wire \in Seq(Told) /\ stream \in [Stream -> Subscription]
  BY DEF IndInv, HubInv, HubTypeOK
<1>2. GroupsInv' /\ Says
  BY <1>1, GroupsStep DEF IndInv, DatabaseStep
<1>3. PICK said \in Seq(Change) : wire' = wire \o said
  BY <1>2 DEF Says
<1>4. said \in Seq(Told)
  BY SeqMonotonic DEF Told
<1>5. wire' \in Seq(Told) /\ ToSet(wire') = ToSet(wire) \cup ToSet(said)
  BY <1>1, <1>3, <1>4, ConcatSet
<1>6. stream' = Announced(said) /\ listener' = listener
  <2>1. SubSeq(wire', Len(wire) + 1, Len(wire')) = said
    BY <1>1, <1>3, <1>4, Suffix
  <2> QED BY <2>1 DEF DatabaseStep
<1>7. \A i \in DOMAIN said : said[i] \in Change /\ said[i] \in ToSet(said)
  <2>1. DOMAIN said = 1 .. Len(said)
    BY LenProperties
  <2>2. \A i \in 1 .. Len(said) : said[i] \in Change
    BY ElementOfSeq
  <2> QED BY <2>1, <2>2 DEF ToSet
<1> DEFINE told == {said[i].resource : i \in {j \in DOMAIN said : said[j].kind = "changed"}}
           owed(t) == IF stream[t].registered THEN stream[t].owed \cup told ELSE stream[t].owed
           stale(t) == \/ stream[t].stale
                       \/ /\ stream[t].phase = "open"
                          /\ \E i \in DOMAIN said : said[i] = AccessRevoked(stream[t].viewer)
           new(t) == [stream[t] EXCEPT !.owed = owed(t), !.stale = stale(t)]
<1>8. \A r \in told : r \in Resource /\ Changed(r) \in ToSet(said)
  <2>1. \A x \in Change : x.kind = "changed" => x.resource \in Resource /\ Changed(x.resource) = x
    BY DEF Change, Changed, AccessRevoked
  <2> QED BY <1>7, <2>1
<1>9. stream' = [t \in Stream |-> new(t)]
  BY <1>6 DEF Announced
<1> HIDE DEF told
<1>10. ASSUME NEW t \in Stream
       PROVE  /\ new(t) \in Subscription
              /\ new(t).owed = owed(t) /\ new(t).stale = stale(t)
              /\ new(t).registered = stream[t].registered /\ new(t).phase = stream[t].phase
              /\ new(t).viewer = stream[t].viewer /\ new(t).buffer = stream[t].buffer
  <2>1. stream[t] \in Subscription
    BY <1>1
  <2>2. owed(t) \in SUBSET Resource /\ stale(t) \in BOOLEAN
    BY <1>8, <2>1 DEF Subscription
  <2> HIDE DEF owed, stale
  <2> QED BY <2>1, <2>2 DEF Subscription
<1> HIDE DEF new
<1>11. HubTypeOK'
  <2>1. stream' \in [Stream -> Subscription]
    BY <1>9, <1>10
  <2>2. \A t \in Stream : Len(stream'[t].buffer) <= Buffer
    BY <1>9, <1>10 DEF IndInv, HubInv, HubTypeOK
  <2> QED BY <1>5, <1>6, <2>1, <2>2 DEF IndInv, HubInv, HubTypeOK
<1>12. TargetsInv'
  <2>1. listener.targets \subseteq Stream
    BY DEF IndInv, HubInv, HubTypeOK, Listening
  <2>2. \A t \in Stream : stream'[t].phase = stream[t].phase
    BY <1>9, <1>10
  <2> QED BY <1>6, <2>1, <2>2 DEF IndInv, HubInv, TargetsInv
<1>13. \A x : Pending(x) \/ x \in ToSet(said) => Pending(x)'
  BY <1>5, <1>6 DEF Pending
<1>14. ASSUME NEW t \in Stream PROVE StreamOK(t)'
  <2>1. StreamOK(t) /\ stream'[t] = new(t)
    BY <1>9 DEF IndInv, HubInv
  <2>2. CASE ~stream[t].registered
    BY <1>10, <2>1, <2>2 DEF StreamOK
  <2>3. CASE stream[t].registered
    <3>1. \A r \in owed(t) :
            Pending(Changed(r))' \/ (t \in listener.targets /\ listener.resource = r)
      BY <1>8, <1>13, <2>1, <2>3 DEF StreamOK
    <3>2. ASSUME stale(t)
          PROVE  Pending(AccessRevoked(stream[t].viewer))'
      <4> DEFINE x == AccessRevoked(stream[t].viewer)
      <4>1. stream[t].stale => Pending(x)
        BY <2>1, <2>3 DEF StreamOK
      <4>2. stream[t].stale \/ x \in ToSet(said)
        BY <1>7, <3>2
      <4> HIDE DEF x
      <4>3. Pending(x) \/ x \in ToSet(said)
        BY <4>1, <4>2
      <4>4. \A y : y = x => Pending(y)'
        BY <1>13, <4>3
      <4>5. stream'[t].viewer = stream[t].viewer
        BY <1>10, <2>1
      <4> QED BY <4>4, <4>5 DEF x
    <3> HIDE DEF owed, stale
    <3> QED BY <1>6, <1>10, <2>1, <2>3, <3>1, <3>2 DEF StreamOK
  <2> QED BY <2>2, <2>3
<1> QED BY <1>2, <1>11, <1>12, <1>14 DEF IndInv, HubInv

-----------------------------------------------------------------------------
(* The theorems. *)

\* The start is well.
LEMMA InitInv ==
  ASSUME GroupsAssumption, HubAssumption, Init
  PROVE  IndInv
<1>1. GroupsTypeOK
  <2>1. /\ tenant = "open" /\ added = {} /\ tenure = [m \in Member |-> 0]
        /\ standing \in [Member -> {"none", "active", "revoked"}]
        /\ role \in [Member -> [Class -> {"none", "booked", "running", "ended"}]]
    BY DEF Init, GroupsInit
  <2>2. group \in [Group -> [visibility : {"absent", "open", "closed"}, archived : BOOLEAN]]
    BY DEF Init, GroupsInit, GroupsAssumption
  <2> QED BY <2>1, <2>2, FS_EmptySet DEF GroupsTypeOK
<1>2. ReturnerStartsWithoutGroups
  BY DEF Init, GroupsInit, ReturnerStartsWithoutGroups
<1>3. /\ wire = <<>> /\ stream = [s \in Stream |-> NoStream] /\ listener = Waiting
  BY DEF Init, GroupsInit
<1>4. HubTypeOK /\ TargetsInv
  BY <1>3, Unused DEF HubTypeOK, TargetsInv
<1>5. \A s \in Stream : StreamOK(s)
  BY <1>3, Unused DEF StreamOK
<1> QED BY <1>1, <1>2, <1>4, <1>5 DEF IndInv, GroupsInv, HubInv

\* What the hub does leaves the FAU alone.
LEMMA HubKeepsGroups ==
  ASSUME GroupsInv, UNCHANGED <<tenant, standing, role, group, added, tenure>>
  PROVE  GroupsInv'
BY DEF GroupsInv, GroupsTypeOK, ReturnerStartsWithoutGroups, Ended, Unended

\* Every step keeps the invariant.
LEMMA NextInv ==
  ASSUME GroupsAssumption, HubAssumption, IndInv, [Next]_vars
  PROVE  IndInv'
<1>1. CASE DatabaseStep
  BY <1>1, Committing
<1>2. CASE LoseConnection
  BY <1>2, Outage, HubKeepsGroups DEF IndInv, LoseConnection
<1>3. CASE ListenerStep
  <2>1. HubInv'
    BY <1>3, Dispatching, NoConnection, Authorizing, Delivering, Outage DEF ListenerStep, IndInv
  <2>2. UNCHANGED <<tenant, standing, role, group, added, tenure>>
    BY <1>3 DEF ListenerStep, DispatchRevoked, DispatchChanged, AcquireFails, AuthorizeAccess,
                AuthorizeFails, Deliver, AuthorizeFacts, Reconnected, ListenerFails,
                RebuildListener, CloseAll, Consumed, groupVars
  <2> QED BY <2>1, <2>2, HubKeepsGroups DEF IndInv
<1>4. ASSUME NEW s \in Stream,
             \/ \E m \in Viewers : Subscribe(s, m)
             \/ CheckStanding(s) \/ Leave(s) \/ ReaderStep(s)
      PROVE  IndInv'
  <2>1. HubInv'
    BY <1>4, Subscribing, StreamSteps DEF IndInv
  <2>2. UNCHANGED groupVars
    BY <1>4 DEF Subscribe, CheckStanding, Leave, ReaderStep, PollClose, PollReceiver
  <2> QED BY <2>1, <2>2, HubKeepsGroups DEF IndInv, groupVars
<1>5. CASE UNCHANGED vars
  <2>1. UNCHANGED groupVars /\ UNCHANGED hubVars
    BY <1>5 DEF vars
  <2>2. HubInv'
    BY <2>1 DEF groupVars, hubVars, IndInv, HubInv, HubTypeOK, TargetsInv, StreamOK, Pending
  <2> QED BY <2>1, <2>2, HubKeepsGroups DEF IndInv, groupVars
<1> QED BY <1>1, <1>2, <1>3, <1>4, <1>5 DEF Next

\* Every reachable state satisfies the inductive invariant.
LEMMA Inductive == Spec => []IndInv
<1>1. Init => IndInv
  BY InitInv, GroupsAssumption, HubAssumption
<1>2. IndInv /\ [Next]_vars => IndInv'
  BY NextInv, GroupsAssumption, HubAssumption
<1> QED BY <1>1, <1>2, PTL DEF Spec

\* The FAU, the wire, the subscriptions and the listener keep their types, no buffer exceeds
\* SUBSCRIPTION_BUFFER, and the listener sends only to streams that are still there.
THEOREM TypeCorrect == Spec => []TypeOK
<1>1. IndInv => TypeOK
  BY DEF IndInv, GroupsInv, GroupsTypeOK, Row, HubInv, HubTypeOK, TargetsInv, Told,
         Subscription, Listening, TypeOK
<1> QED BY <1>1, Inductive, PTL

\* Whatever the order of grants, revocations, sweeps and days, a person who returns is in no
\* group they were added to in an earlier tenure (reopen_profile, remove_from_all_groups).
THEOREM ReturnersStartAfresh == Spec => []ReturnerStartsWithoutGroups
<1>1. IndInv => ReturnerStartsWithoutGroups
  BY DEF IndInv, GroupsInv
<1> QED BY <1>1, Inductive, PTL

\* A listener that has caught up owes nothing more than what is pending, which is nothing.
LEMMA NothingPending ==
  ASSUME IndInv, CaughtUp, NEW s \in Stream, stream[s].registered
  PROVE  stream[s].owed = {} /\ ~stream[s].stale
<1>1. wire = <<>> /\ listener.pc = "recv" /\ listener.targets = {}
  BY DEF CaughtUp, IndInv, HubInv, TargetsInv
<1>2. \A x : ~Pending(x)
  BY <1>1 DEF Pending, ToSet
<1> QED BY <1>1, <1>2 DEF IndInv, HubInv, StreamOK

\* However subscriptions, commits, outages and dispatches interleave, once the listener has
\* caught up no stream is registered that a revocation after its standing check should end.
THEOREM RevocationsReachStreams == Spec => []RevocationReachesStreams
<1>1. IndInv => RevocationReachesStreams
  BY NothingPending DEF RevocationReachesStreams
<1> QED BY <1>1, Inductive, PTL

\* A stream still registered when the listener has caught up has been sent every change it
\* was to be sent: lag, a failed read and an outage each end the stream.
THEOREM NoGapIsSilent == Spec => []NoSilentGap
<1>1. IndInv => NoSilentGap
  BY NothingPending DEF NoSilentGap
<1> QED BY <1>1, Inductive, PTL

-----------------------------------------------------------------------------
(* What the directory and the export disclose, in every state of the FAU. *)

\* A read answers or refuses, and an answer is what was put in it.
LEMMA AnswersAndRefusals ==
  /\ \A value : ~Refuses(Answer(value)) /\ Answer(value).answer = value
  /\ \A why : Refuses(Refused(why)) /\ Refused(why).refused = why
BY DEF Refuses, Answer, Refused

\* An access class is one of the four.
LEMMA AccessClasses ==
  ASSUME NEW viewer
  PROVE  MembershipAccess(viewer) \in {"none", "guest", "member", "admin"}
BY DEF MembershipAccess, EvaluateAccess

\* The standing of the listings is the rule's.
LEMMA StandsToday ==
  ASSUME NEW m
  PROVE  StandingToday(m) <=> ~Ended(m) /\ \E class \in Class : role[m][class] = "running"
BY DEF StandingToday, Ended, Unended, Running

\* What authorization lets a viewer read of a group is the rule's.
LEMMA ReadsGroup ==
  ASSUME NEW viewer, MembershipAccess(viewer) # "none", NEW g
  PROVE  CanRead(MembershipAccess(viewer), viewer, GroupItself(g)) <=>
           /\ group[g].visibility # "absent"
           /\ \/ InGroup(viewer, g)
              \/ MembershipAccess(viewer) = "admin"
              \/ MembershipAccess(viewer) = "member" /\ group[g].visibility = "open"
<1>1. GroupItself(g).kind = "group" /\ GroupItself(g).group = g
  BY DEF GroupItself
<1> HIDE DEF GroupItself
<1> QED BY <1>1, AccessClasses DEF CanRead

\* The FAU itself is read by members and admins.
LEMMA ReadsFau ==
  ASSUME NEW viewer, MembershipAccess(viewer) # "none"
  PROVE  CanRead(MembershipAccess(viewer), viewer, Fau) <=> MembershipAccess(viewer) # "guest"
BY AccessClasses DEF CanRead, Fau

\* The people of a directory are those of its sections.
LEMMA PeopleOfSections ==
  ASSUME NEW S, NEW viewer
  PROVE  Described([sections |-> S, people |-> People(S, viewer)]) = UNION {s.members : s \in S}
<1> DEFINE row(m) ==
      [member |-> m, isViewer |-> m = viewer, isGuest |-> HoldsOnlyGuestRoles(m),
       roles |-> Running(m),
       groups |-> {g \in Group : \E s \in S : s.id = GroupSection(g) /\ m \in s.members}]
<1>1. \A m : row(m).member = m
  OBVIOUS
<1>2. People(S, viewer) = {row(m) : m \in UNION {s.members : s \in S}}
  BY DEF People
<1>3. Described([sections |-> S, people |-> People(S, viewer)]) =
        {p.member : p \in People(S, viewer)}
  BY DEF Described
<1> DEFINE all == UNION {s.members : s \in S}
<1> HIDE DEF row, all
<1>4. \A m \in all : row(m) \in People(S, viewer)
  BY <1>2 DEF all
<1>5. \A p \in People(S, viewer) : \E m \in all : p = row(m)
  BY <1>2 DEF all
<1>6. {p.member : p \in People(S, viewer)} = all
  BY <1>1, <1>4, <1>5
<1> QED BY <1>3, <1>6 DEF all

\* The section of the whole FAU, that of a group, and the groups a viewer is shown.
FauPart(erased) == [id |-> FauSection,
                    members |-> {m \in Entries(erased) : ~HoldsOnlyGuestRoles(m)}]
GroupPart(g, erased) ==
  [id |-> GroupSection(g), members |-> GroupMembers(g) \cap Entries(erased)]
Shown(viewer) ==
  {g \in ReadableGroups(MembershipAccess(viewer), viewer) : ~group[g].archived}

\* A directory's sections are those of its groups and, for whom may read the FAU, its own.
LEMMA SectionsAre ==
  ASSUME NEW viewer, NEW erased, MembershipAccess(viewer) # "none"
  PROVE  Sections(viewer, erased) =
           (IF MembershipAccess(viewer) # "guest" THEN {FauPart(erased)} ELSE {})
           \cup {GroupPart(g, erased) : g \in Shown(viewer)}
BY ReadsFau DEF Sections, FauPart, GroupPart, Shown

\* Together the sections show whom the rule allows.
LEMMA SectionsFollowTheRule ==
  ASSUME NEW viewer \in Member, NEW erased, MembershipAccess(viewer) # "none"
  PROVE  UNION {s.members : s \in Sections(viewer, erased)} =
           {m \in Member \ erased : MaySee(viewer, m)}
<1> DEFINE access == MembershipAccess(viewer)
<1>1. /\ FauPart(erased).members = {m \in Entries(erased) : ~HoldsOnlyGuestRoles(m)}
      /\ \A g : GroupPart(g, erased).members = GroupMembers(g) \cap Entries(erased)
  BY DEF FauPart, GroupPart
<1>2. Shown(viewer) = {g \in Group : /\ group[g].visibility # "absent" /\ ~group[g].archived
                                     /\ \/ InGroup(viewer, g) \/ access = "admin"
                                        \/ access = "member" /\ group[g].visibility = "open"}
  BY ReadsGroup DEF Shown, ReadableGroups
<1>3. \A m : ~HoldsOnlyGuestRoles(m) <=> \E class \in Class \ {"guest"} : role[m][class] = "running"
  BY DEF HoldsOnlyGuestRoles, Running
<1>4. \A m : m \in Entries(erased) <=>
               m \in Member \ erased /\ ~Ended(m) /\ \E class \in Class : role[m][class] = "running"
  BY StandsToday DEF Entries
<1>5. \A m, g : m \in GroupMembers(g) \cap Entries(erased) <=> m \in Entries(erased) /\ InGroup(m, g)
  BY DEF GroupMembers, Entries
<1>6. ASSUME NEW m
      PROVE  m \in UNION {s.members : s \in Sections(viewer, erased)} <=>
               /\ m \in Entries(erased)
               /\ \/ access # "guest" /\ ~HoldsOnlyGuestRoles(m)
                  \/ \E g \in Shown(viewer) : InGroup(m, g)
  <2>1. m \in UNION {s.members : s \in Sections(viewer, erased)} <=>
          \/ access # "guest" /\ m \in FauPart(erased).members
          \/ \E g \in Shown(viewer) : m \in GroupPart(g, erased).members
    BY SectionsAre
  <2> QED BY <1>1, <1>5, <2>1
<1>7. ASSUME NEW m
      PROVE  m \in UNION {s.members : s \in Sections(viewer, erased)} <=>
               m \in Member \ erased /\ MaySee(viewer, m)
  <2>1. MaySee(viewer, m) <=>
          /\ ~Ended(m) /\ \E class \in Class : role[m][class] = "running"
          /\ \/ access # "guest" /\ ~HoldsOnlyGuestRoles(m)
             \/ \E g \in Shown(viewer) : InGroup(m, g)
    BY <1>2, <1>3 DEF MaySee
  <2> QED BY <1>4, <1>6, <2>1
<1> QED BY <1>7

\* The group sections are the groups that are listed, less the archived ones.
LEMMA SectionsAreGroups ==
  ASSUME NEW viewer, NEW erased, MembershipAccess(viewer) # "none"
  PROVE  {s \in Sections(viewer, erased) : s.id.kind = "group"} =
           {GroupPart(g, erased) : g \in Shown(viewer)}
<1>1. FauPart(erased).id.kind = "fau"
  BY DEF FauPart, FauSection
<1>2. \A g : GroupPart(g, erased).id.kind = "group"
  BY DEF GroupPart, GroupSection
<1> QED BY <1>1, <1>2, SectionsAre

\* A readable group lists its members.
LEMMA ListedMembers ==
  ASSUME NEW viewer, MembershipAccess(viewer) # "none",
         NEW g \in ReadableGroups(MembershipAccess(viewer), viewer)
  PROVE  {row.member : row \in ListGroupMembers(viewer, g).answer} = GroupMembers(g)
<1> DEFINE row(m) == [member |-> m,
                      byHand |-> \E r \in added : r.member = m /\ r.group = g,
                      throughRole |-> \E class \in Running(m) : <<class, g>> \in Follows]
<1>1. ListGroupMembers(viewer, g) = ReadingGroup(viewer, g, {row(m) : m \in GroupMembers(g)})
  BY DEF ListGroupMembers
<1>2. \A m : row(m).member = m
  OBVIOUS
<1> HIDE DEF row
<1>3. CanRead(MembershipAccess(viewer), viewer, GroupItself(g))
  BY DEF ReadableGroups
<1>4. \A value : ReadingGroup(viewer, g, value) = Answer(value)
  BY <1>3 DEF ReadingGroup
<1>5. ListGroupMembers(viewer, g).answer = {row(m) : m \in GroupMembers(g)}
  BY <1>1, <1>4, AnswersAndRefusals
<1> QED BY <1>2, <1>5

\* The directory of a viewer with access, and without.
LEMMA DirectoryAnswers ==
  ASSUME NEW viewer, NEW erased
  PROVE  LET directory == MemberDirectory(viewer, erased)
         IN  /\ Refuses(directory) <=> MembershipAccess(viewer) = "none"
             /\ ~Refuses(directory) =>
                  /\ directory.answer.sections = Sections(viewer, erased)
                  /\ Described(directory.answer) =
                       UNION {s.members : s \in Sections(viewer, erased)}
<1> DEFINE sections == Sections(viewer, erased)
           read == [sections |-> sections, people |-> People(sections, viewer)]
<1>1. MemberDirectory(viewer, erased) =
        IF MembershipAccess(viewer) = "none" THEN Refused("not_authorized") ELSE Answer(read)
  BY DEF MemberDirectory
<1>2. read.sections = sections /\ Described(read) = UNION {s.members : s \in sections}
  BY PeopleOfSections
<1> HIDE DEF read, sections
<1> QED BY <1>1, <1>2, AnswersAndRefusals DEF sections

\* Whoever reads the directory, and whoever was erased, it follows the rule.
LEMMA DirectoryHolds == DirectoryFollowsTheRule
<1> SUFFICES ASSUME NEW viewer \in Member, NEW erased \in SUBSET Member
    PROVE  LET directory == MemberDirectory(viewer, erased)
               groups == ListGroups(viewer)
           IN  /\ Refuses(directory) <=> Refuses(groups)
               /\ ~Refuses(directory) =>
                    /\ Described(directory.answer) = {m \in Member \ erased : MaySee(viewer, m)}
                    /\ {s \in directory.answer.sections : s.id.kind = "group"} =
                         {[id |-> GroupSection(g),
                           members |-> {row.member : row \in ListGroupMembers(viewer, g).answer}
                                       \ erased]
                            : g \in {h \in groups.answer : ~group[h].archived}}
  BY DEF DirectoryFollowsTheRule
<1> DEFINE directory == MemberDirectory(viewer, erased)
           groups == ListGroups(viewer)
           listed(g) == {row.member : row \in ListGroupMembers(viewer, g).answer} \ erased
<1>1. /\ Refuses(groups) <=> MembershipAccess(viewer) = "none"
      /\ ~Refuses(groups) => groups.answer = ReadableGroups(MembershipAccess(viewer), viewer)
  BY AnswersAndRefusals DEF ListGroups
<1>2. Refuses(directory) <=> MembershipAccess(viewer) = "none"
  BY DirectoryAnswers
<1>3. ASSUME ~Refuses(directory)
      PROVE  /\ Described(directory.answer) = {m \in Member \ erased : MaySee(viewer, m)}
             /\ {s \in directory.answer.sections : s.id.kind = "group"} =
                  {[id |-> GroupSection(g), members |-> listed(g)]
                     : g \in {h \in groups.answer : ~group[h].archived}}
  <2>1. MembershipAccess(viewer) # "none"
    BY <1>2, <1>3
  <2>2. Described(directory.answer) = {m \in Member \ erased : MaySee(viewer, m)}
    BY <1>3, <2>1, DirectoryAnswers, SectionsFollowTheRule
  <2>3. {s \in directory.answer.sections : s.id.kind = "group"} =
          {GroupPart(g, erased) : g \in Shown(viewer)}
    BY <1>3, <2>1, DirectoryAnswers, SectionsAreGroups
  <2>4. Shown(viewer) = {h \in groups.answer : ~group[h].archived}
    BY <1>1, <2>1 DEF Shown
  <2>5. \A g \in Shown(viewer) : listed(g) = GroupMembers(g) \cap Entries(erased)
    <3>1. \A g \in Shown(viewer) : listed(g) = GroupMembers(g) \ erased
      BY <2>1, ListedMembers DEF Shown
    <3> HIDE DEF listed
    <3> QED BY <3>1 DEF GroupMembers, Entries
  <2> HIDE DEF listed
  <2> QED BY ZenonT(60), <2>2, <2>3, <2>4, <2>5 DEF GroupPart
<1> QED BY <1>1, <1>2, <1>3

\* Whatever was ticked, an export gives all of it or nothing, within the rule.
LEMMA ExportHolds == ExportGivesNothingAway
<1> SUFFICES ASSUME NEW viewer \in Member, NEW erased \in SUBSET Member,
                    NEW scope \in Scope, NEW selection \in SUBSET Member
    PROVE  LET export == ExportAddresses(viewer, erased, scope, selection)
               unread == scope.kind = "group" /\ Refuses(GetGroup(viewer, scope.group))
           IN  /\ ~Refuses(export) =>
                    /\ export.answer.recipients = selection
                    /\ \A m \in selection : MaySee(viewer, m) /\ m \notin erased
                    /\ ~unread
               /\ unread => export.refused \in {"empty_selection", "not_authorized", "unknown_group"}
  BY DEF ExportGivesNothingAway
<1> DEFINE export == ExportAddresses(viewer, erased, scope, selection)
           unread == scope.kind = "group" /\ Refuses(GetGroup(viewer, scope.group))
           directory == MemberDirectory(viewer, erased)
           inScope == ScopeMembers(directory.answer, scope)
           chosen == Chosen(inScope.answer, selection)
           seen == {m \in Member \ erased : MaySee(viewer, m)}
           Fits == /\ ~Refuses(export) =>
                        /\ export.answer.recipients = selection
                        /\ \A m \in selection : MaySee(viewer, m) /\ m \notin erased
                        /\ ~unread
                   /\ unread =>
                        export.refused \in {"empty_selection", "not_authorized", "unknown_group"}
<1> SUFFICES Fits
  OBVIOUS
<1>1. export = IF selection = {} THEN Refused("empty_selection")
               ELSE IF Refuses(directory) THEN directory
               ELSE IF Refuses(inScope) THEN inScope
               ELSE IF Refuses(chosen) THEN chosen
               ELSE Answer([recipients |-> chosen.answer, audited |-> Cardinality(chosen.answer)])
  BY DEF ExportAddresses
<1>2. Refuses(directory) => directory = Refused("not_authorized")
  BY AnswersAndRefusals DEF MemberDirectory
<1>3. CASE selection = {} \/ Refuses(directory)
  <2>1. \/ export = Refused("empty_selection") \/ export = Refused("not_authorized")
    BY <1>1, <1>2, <1>3
  <2> HIDE DEF export, unread
  <2> QED BY <2>1, AnswersAndRefusals
<1>4. CASE selection # {} /\ ~Refuses(directory)
  <2>1. MembershipAccess(viewer) # "none"
    BY <1>4, DirectoryAnswers
  <2>2. /\ directory.answer.sections = Sections(viewer, erased)
        /\ Described(directory.answer) = seen
        /\ \A s \in Sections(viewer, erased) : s.members \subseteq seen
    BY <1>4, <2>1, DirectoryAnswers, SectionsFollowTheRule
  <2>3. unread => \E g \in Group \ ReadableGroups(MembershipAccess(viewer), viewer) :
                    scope = GroupSection(g)
    <3>1. ASSUME NEW g \in Group, scope = GroupSection(g), unread
          PROVE  g \notin ReadableGroups(MembershipAccess(viewer), viewer)
      <4>1. Refuses(ReadingGroup(viewer, g, group[g]))
        BY <3>1 DEF GetGroup, GroupSection
      <4> QED BY <2>1, <4>1, AnswersAndRefusals DEF ReadingGroup, ReadableGroups
    <3>2. scope.kind = "group" => \E g \in Group : scope = GroupSection(g)
      BY DEF Scope, FauSection
    <3> QED BY <3>1, <3>2
  <2>4. ASSUME unread PROVE inScope = Refused("unknown_group")
    <3>1. PICK g \in Group \ ReadableGroups(MembershipAccess(viewer), viewer) :
            scope = GroupSection(g)
      BY <2>3, <2>4
    <3>2. \A s \in Sections(viewer, erased) : s.id # GroupSection(g)
      <4>1. FauPart(erased).id # GroupSection(g)
        BY DEF FauPart, FauSection, GroupSection
      <4>2. \A h \in Shown(viewer) : GroupPart(h, erased).id # GroupSection(g)
        BY <3>1 DEF GroupPart, GroupSection, Shown
      <4> QED BY <2>1, <4>1, <4>2, SectionsAre
    <3>3. scope.kind # "all" /\ scope # FauSection
      BY <3>1 DEF GroupSection, FauSection
    <3> QED BY <2>2, <3>1, <3>2, <3>3 DEF ScopeMembers
  <2>5. ~Refuses(inScope) => inScope.answer \subseteq seen
    <3>1. CASE scope.kind = "all"
      BY <2>2, <3>1, AnswersAndRefusals DEF ScopeMembers
    <3>2. CASE scope.kind # "all" /\ \E s \in directory.answer.sections : s.id = scope
      <4> DEFINE named == CHOOSE s \in directory.answer.sections : s.id = scope
      <4>1. named \in directory.answer.sections
        BY <3>2
      <4>2. inScope = Answer(named.members)
        BY <3>2 DEF ScopeMembers
      <4> HIDE DEF named, inScope
      <4> QED BY <2>2, <4>1, <4>2, AnswersAndRefusals
    <3>3. CASE scope.kind # "all" /\ ~\E s \in directory.answer.sections : s.id = scope
      BY <3>3, AnswersAndRefusals DEF ScopeMembers
    <3> QED BY <3>1, <3>2, <3>3
  <2>6. inScope = Refused("not_authorized") \/ inScope = Refused("unknown_group")
        \/ ~Refuses(inScope)
    BY AnswersAndRefusals DEF ScopeMembers
  <2>7. /\ ~Refuses(chosen) => selection \subseteq inScope.answer /\ chosen.answer = selection
    BY AnswersAndRefusals DEF Chosen
  <2> HIDE DEF directory, inScope, chosen, export, seen, unread
  <2>8. CASE Refuses(inScope)
    <3>1. export = inScope
      BY <1>1, <1>4, <2>8
    <3> QED BY <2>4, <2>8, <3>1, AnswersAndRefusals
  <2>9. CASE ~Refuses(inScope) /\ Refuses(chosen)
    <3>1. export = chosen
      BY <1>1, <1>4, <2>9
    <3> QED BY <2>4, <2>9, <3>1, AnswersAndRefusals
  <2>10. CASE ~Refuses(inScope) /\ ~Refuses(chosen)
    <3>1. export = Answer([recipients |-> selection, audited |-> Cardinality(selection)])
      BY <1>1, <1>4, <2>7, <2>10
    <3>2. ~Refuses(export) /\ export.answer.recipients = selection
      BY <3>1, AnswersAndRefusals
    <3>3. selection \subseteq seen /\ ~unread
      BY <2>4, <2>5, <2>7, <2>10, AnswersAndRefusals
    <3> QED BY <3>2, <3>3 DEF seen
  <2> QED BY <2>8, <2>9, <2>10
<1> QED BY <1>3, <1>4

\* In every FAU, whoever reads or exports and whoever was erased, people and addresses are
\* disclosed by the rule of directory.rs: guests meet their own groups, nobody sees a person
\* whose roles ran out, and an export is of all the selected people or of none.
THEOREM DisclosureIsRuled == Spec => []DisclosureFollowsTheRule
<1>1. DisclosureFollowsTheRule
  BY DirectoryHolds, ExportHolds DEF DisclosureFollowsTheRule
<1> QED BY <1>1, PTL

=============================================================================
