--------------------------- MODULE RetentionProofs ---------------------------
(***************************************************************************)
(* For any FAU-er, periods and account-wide operations: the table checks    *)
(* hold, the date on an ended membership is the one its roles and the       *)
(* setting say, what is over stays over, what is erased stays forgotten,    *)
(* and two account-wide operations never wait for each other.               *)
(***************************************************************************)
EXTENDS Retention, SequenceTheorems, WellFoundedInduction, TLAPS

-----------------------------------------------------------------------------
(* The inductive invariant. *)

Day == Nat \cup {NoDay}
Role == [from : Nat, to : Nat, revokedOn : Day]
Membership == [name : Nat, contact : Nat, until : Day, revokedOn : Day, erased : BOOLEAN]
Operation ==
  [kind : {"idle", "set", "erase", "done"}, list : SUBSET Tenant, locked : SUBSET Tenant]

RetentionTypeOK ==
  /\ today \in Nat /\ months \in Period
  /\ row \in [Tenant -> Membership] /\ roles \in [Tenant -> Seq(Role)]
  /\ accepted \in [Tenant -> Nat] /\ job \in [Job -> Operation]
  /\ missed \subseteq Tenant /\ promised \subseteq Tenant

\* The roles are all over by day d: revoked or at their end.
OverBy(rs, d) ==
  \A i \in DOMAIN rs : rs[i].revokedOn <= d /\ (rs[i].revokedOn # NoDay \/ rs[i].to <= d)

\* The day a membership whose roles are over has ended, without asking the day it is today.
EndOf(rs) ==
  LET held == {h.until : h \in HeldRoles(rs)}
      revoked == {a.revokedOn : a \in Rows(rs)} \ {NoDay}
  IN  IF held # {} THEN Latest(held) ELSE Latest(revoked)

\* A row r with roles rs comes with an acceptance and a role; a revoked one has only roles that
\* are over.
RolesInv(r, rs, n) ==
  /\ \A i \in DOMAIN rs : rs[i].from < rs[i].to /\ rs[i].revokedOn <= today
  /\ n = 0 => r = NoRow /\ rs = <<>>
  /\ n # 0 => rs # <<>>
  /\ r.revokedOn # NoDay => OverBy(rs, today)

\* ChecksHold, of one row.
ChecksInv(r) ==
  /\ r.revokedOn # NoDay /\ HasFields(r) => r.until # NoDay
  /\ r.until # NoDay => HasFields(r)
  /\ r.erased => ~HasFields(r)

\* A date stands only on a membership whose roles are over, and is the day of their end and the
\* account's period, unless a setting change has missed the row.
StampInv(t, r, rs) ==
  r.until # NoDay =>
    /\ OverBy(rs, today)
    /\ t \notin missed => r.until = EndOf(rs) + months

RowFits(t, r, rs, n) == RolesInv(r, rs, n) /\ ChecksInv(r) /\ StampInv(t, r, rs)

RowOK(t) == RowFits(t, row[t], roles[t], accepted[t])

\* An operation has locked the first of the FAU-er on its list, in their order, and an erasure
\* lists only FAU-er with a row.
JobOK(j) ==
  /\ job[j].kind = "erase" => \A t \in job[j].list : accepted[t] # 0
  /\ job[j].locked \subseteq job[j].list
  /\ \A s \in job[j].locked, t \in job[j].list \ job[j].locked : s < t

ErasureInv == \A t \in promised : row[t].erased

IndInv ==
  /\ RetentionTypeOK
  /\ \A t \in Tenant : RowOK(t)
  /\ \A j \in Job : JobOK(j)
  /\ ErasureInv

-----------------------------------------------------------------------------
(* Days, and what the roles say of them. *)

\* Every set of natural numbers with a member has a least one.
LEMMA Smallest ==
  ASSUME NEW S \in SUBSET Nat, S # {}
  PROVE  \E x \in S : \A y \in S : x <= y
<1> DEFINE Less == {pair \in Nat \X Nat : pair[1] < pair[2]}
<1>1. IsWellFoundedOn(Less, Nat)
  BY NatLessThanWellFounded DEF OpToRel
<1>2. \E x \in S : \A y \in S : ~(<<y, x>> \in Less)
  <2> HIDE DEF Less
  <2> QED BY <1>1, WFMin
<1>3. PICK x \in S : \A y \in S : ~(y < x)
  BY <1>2
<1> QED BY <1>3

\* Latest is the latest, of days that are not in the future.
LEMMA LatestIsLast ==
  ASSUME NEW d \in Nat, NEW S \in SUBSET (0 .. d), S # {}
  PROVE  Latest(S) \in S /\ \A e \in S : e <= Latest(S)
<1> DEFINE T == {d - s : s \in S}
<1>1. T \in SUBSET Nat /\ T # {}
  <2>1. \A s \in S : d - s \in Nat
    OBVIOUS
  <2> QED BY <2>1
<1>2. PICK x \in T : \A y \in T : x <= y
  <2> HIDE DEF T
  <2> QED BY <1>1, Smallest
<1>3. \E s \in S : \A e \in S : e <= s
  <2>1. PICK s \in S : x = d - s
    OBVIOUS
  <2>2. \A e \in S : d - s <= d - e
    BY <1>2, <2>1
  <2>3. s \in 0 .. d /\ \A e \in S : e \in 0 .. d
    OBVIOUS
  <2>4. \A e \in S : e <= s
    BY <2>2, <2>3
  <2> QED BY <2>4
<1> QED BY <1>3 DEF Latest

\* Roles a membership may have: each for a period that is not empty, and at least one.
SomeRoles(rs) ==
  rs \in Seq(Role) /\ rs # <<>> /\ \A i \in DOMAIN rs : rs[i].from < rs[i].to

\* ended_on_for answers the same whenever it is asked once the roles are over, and whatever the
\* membership's own revocation says.
LEMMA EndedWhenOver ==
  ASSUME today \in Nat, NEW rs, SomeRoles(rs), OverBy(rs, today), NEW x
  PROVE  EndOf(rs) \in 0 .. today /\ EndedOn(rs, x) = EndOf(rs)
<1> DEFINE held == {h.until : h \in HeldRoles(rs)}
           revoked == {a.revokedOn : a \in Rows(rs)} \ {NoDay}
           Span(a) == [from |-> a.from,
                       until |-> IF a.revokedOn = NoDay THEN a.to ELSE Earlier(a.to, a.revokedOn)]
<1>1. DOMAIN rs = 1 .. Len(rs) /\ Len(rs) \in Nat \ {0} /\ \A i \in DOMAIN rs : rs[i] \in Role
  BY EmptySeq, LenProperties, ElementOfSeq DEF SomeRoles
<1>2. \A a \in Rows(rs) : /\ a \in Role /\ a.from < a.to /\ a.revokedOn <= today
                          /\ a.revokedOn # NoDay \/ a.to <= today
  BY <1>1 DEF Rows, SomeRoles, OverBy
<1>3. held \in SUBSET (0 .. today)
  <2> SUFFICES ASSUME NEW a \in Rows(rs) PROVE Span(a).until \in 0 .. today
    BY DEF HeldRoles
  <2>1. a.to \in Nat /\ a.revokedOn \in Nat \cup {NoDay} /\ a.revokedOn <= today
        /\ (a.revokedOn # NoDay \/ a.to <= today)
    BY <1>2 DEF Role, Day
  <2> QED BY <2>1 DEF Earlier, NoDay
<1>4. revoked \in SUBSET (0 .. today)
  BY <1>2 DEF Role, Day, NoDay
<1>5. held # {} \/ revoked # {}
  <2>1. PICK a \in Rows(rs) : TRUE
    BY <1>1 DEF Rows
  <2>2. CASE a.revokedOn # NoDay
    BY <2>2
  <2>3. CASE a.revokedOn = NoDay
    <3>1. Span(a) \in HeldRoles(rs)
      BY <1>2, <2>3 DEF HeldRoles
    <3> QED BY <3>1
  <2> QED BY <2>2, <2>3
<1> HIDE DEF held, revoked
<1>6. CASE held # {}
  <2>1. Latest(held) \in 0 .. today
    BY <1>3, <1>6, LatestIsLast
  <2>2. EndOf(rs) = Latest(held)
    BY <1>6 DEF EndOf, held
  <2>3. EndedOn(rs, x) = Earlier(today, Latest(held))
    BY <1>6 DEF EndedOn, held
  <2> QED BY <2>1, <2>2, <2>3 DEF Earlier
<1>7. CASE held = {}
  <2>1. Latest(revoked) \in 0 .. today
    BY <1>4, <1>5, <1>7, LatestIsLast
  <2>2. EndOf(rs) = Latest(revoked)
    BY <1>7 DEF EndOf, held, revoked
  <2>3. EndedOn(rs, x) = Earlier(today, Latest(revoked))
    BY <1>5, <1>7 DEF EndedOn, held, revoked
  <2> QED BY <2>1, <2>2, <2>3 DEF Earlier
<1> QED BY <1>6, <1>7

\* A day until which something is kept is in the future, and the end and the period make it.
LEMMA KeepUntilDay ==
  ASSUME today \in Nat, NEW e \in Nat, NEW m \in Nat
  PROVE  /\ KeepUntil(e, m) \in Day
         /\ KeepUntil(e, m) # NoDay <=> m # 0 /\ today < e + m
         /\ KeepUntil(e, m) # NoDay => KeepUntil(e, m) = e + m
BY DEF KeepUntil, Day, NoDay

\* A membership has ended when its roles are over: its own revocation revokes them too.
LEMMA EndedIsOver ==
  ASSUME RetentionTypeOK, NEW t \in Tenant, RowOK(t)
  PROVE  MembershipEnded(t) <=> OverBy(roles[t], today)
<1>1. /\ today \in Nat /\ roles[t] \in Seq(Role)
      /\ DOMAIN roles[t] = 1 .. Len(roles[t])
      /\ \A i \in DOMAIN roles[t] : roles[t][i] \in Role
  BY LenProperties, ElementOfSeq DEF RetentionTypeOK
<1>2. \A i \in DOMAIN roles[t] : roles[t][i].to \in Nat /\ roles[t][i].revokedOn <= today
  BY <1>1 DEF Role, RowOK, RowFits, RolesInv
<1>3. (~\E a \in Rows(roles[t]) : a.revokedOn = NoDay /\ today < a.to)
        <=> OverBy(roles[t], today)
  BY <1>1, <1>2 DEF Rows, OverBy
<1> QED BY <1>3 DEF MembershipEnded, RowOK, RowFits, RolesInv

\* The roles of a membership that exists.
LEMMA RolesOfRow ==
  ASSUME RetentionTypeOK, NEW t \in Tenant, RowOK(t), accepted[t] # 0
  PROVE  SomeRoles(roles[t])
BY DEF RetentionTypeOK, RowOK, RowFits, RolesInv, SomeRoles

\* Whoever has a field has been accepted.
LEMMA FieldsMeanRow ==
  ASSUME RetentionTypeOK, NEW t \in Tenant, RowOK(t), HasFields(row[t])
  PROVE  accepted[t] # 0
BY DEF RowOK, RowFits, RolesInv, HasFields, NoRow

\* settle_profile leaves the row, clears it, or keeps it until the stamped day, or until the end
\* of its roles and the period.
SettlesTo(t) ==
  \/ ~(HasFields(row[t]) /\ OverBy(roles[t], today)) /\ SettledRow(t) = row[t]
  \/ HasFields(row[t]) /\ OverBy(roles[t], today) /\ Kept(t) = NoDay
       /\ SettledRow(t) = Cleared(row[t])
  \/ /\ HasFields(row[t]) /\ OverBy(roles[t], today) /\ Kept(t) \in Nat
     /\ SettledRow(t) = [row[t] EXCEPT !.until = Kept(t)]
     /\ IF row[t].until # NoDay THEN Kept(t) = row[t].until
        ELSE Kept(t) = EndOf(roles[t]) + months

\* The day a profile is kept until.
LEMMA KeptDay ==
  ASSUME RetentionTypeOK, NEW t \in Tenant, RowOK(t), HasFields(row[t]),
         OverBy(roles[t], today)
  PROVE  /\ Kept(t) = IF row[t].until # NoDay
                      THEN IF today < row[t].until THEN row[t].until ELSE NoDay
                      ELSE KeepUntil(EndOf(roles[t]), months)
         /\ Kept(t) \in Day /\ EndOf(roles[t]) \in 0 .. today /\ months \in Nat /\ today \in Nat
<1>1. today \in Nat /\ months \in Nat /\ row[t] \in Membership
  BY RetentionAssumption DEF RetentionTypeOK
<1>2. SomeRoles(roles[t])
  BY FieldsMeanRow, RolesOfRow
<1>3. EndOf(roles[t]) \in 0 .. today /\ EndedOn(roles[t], row[t].revokedOn) = EndOf(roles[t])
  BY <1>1, <1>2, EndedWhenOver
<1>4. EndOf(roles[t]) \in Nat /\ KeepUntil(EndOf(roles[t]), months) \in Day
  BY <1>1, <1>3, KeepUntilDay
<1>5. row[t].until \in Day /\ NoDay \in Day
  BY <1>1 DEF Membership, Day
<1> QED BY <1>1, <1>3, <1>4, <1>5 DEF Kept, EffectiveKeepUntil

\* What settle_profile does, case by case.
LEMMA Settles ==
  ASSUME RetentionTypeOK, NEW t \in Tenant, RowOK(t)
  PROVE  SettlesTo(t)
<1>0. MembershipEnded(t) <=> OverBy(roles[t], today)
  BY EndedIsOver
<1>1. HasFields(row[t]) => ~row[t].erased
  BY DEF RowOK, RowFits, ChecksInv
<1>2. CASE ~(HasFields(row[t]) /\ OverBy(roles[t], today))
  BY <1>0, <1>2 DEF SettlesTo, SettledRow, Settled
<1>3. CASE HasFields(row[t]) /\ OverBy(roles[t], today)
  <2>1. /\ Kept(t) = IF row[t].until # NoDay
                     THEN IF today < row[t].until THEN row[t].until ELSE NoDay
                     ELSE KeepUntil(EndOf(roles[t]), months)
        /\ Kept(t) \in Day /\ EndOf(roles[t]) \in Nat /\ months \in Nat /\ today \in Nat
    BY <1>3, KeptDay
  <2>2. Settled(t) = IF Kept(t) = NoDay THEN "cleared" ELSE "retained"
    BY <1>0, <1>1, <1>3 DEF Settled
  <2>3. CASE Kept(t) = NoDay
    BY <1>3, <2>2, <2>3 DEF SettlesTo, SettledRow
  <2>4. CASE Kept(t) # NoDay
    <3>1. Kept(t) \in Nat
      BY <2>1, <2>4 DEF Day
    <3>2. SettledRow(t) = [row[t] EXCEPT !.until = Kept(t)]
      BY <2>2, <2>4 DEF SettledRow
    <3>3. IF row[t].until # NoDay THEN Kept(t) = row[t].until
          ELSE Kept(t) = EndOf(roles[t]) + months
      BY <2>1, <2>4, KeepUntilDay
    <3> QED BY <1>3, <3>1, <3>2, <3>3 DEF SettlesTo
  <2> QED BY <2>3, <2>4
<1> QED BY <1>2, <1>3

-----------------------------------------------------------------------------
(* The operations of one FAU. *)

\* A step that writes one row, its roles and its acceptances keeps the invariant if what it
\* writes fits.
LEMMA OwnRow ==
  ASSUME IndInv, NEW t \in Tenant, NEW r \in Membership, NEW rs \in Seq(Role), NEW n \in Nat,
         row' = [row EXCEPT ![t] = r], roles' = [roles EXCEPT ![t] = rs],
         accepted' = [accepted EXCEPT ![t] = n], UNCHANGED Aside,
         row[t].erased => r.erased, accepted[t] # 0 => n # 0, RowFits(t, r, rs, n)
  PROVE  IndInv'
<1>1. RetentionTypeOK'
  BY DEF IndInv, RetentionTypeOK, Aside
<1>2. ASSUME NEW u \in Tenant PROVE RowOK(u)'
  <2>1. CASE u = t
    <3>1. row'[t] = r /\ roles'[t] = rs /\ accepted'[t] = n
      BY DEF IndInv, RetentionTypeOK
    <3> QED
      BY <2>1, <3>1 DEF RowOK, RowFits, RolesInv, ChecksInv, StampInv, OverBy, Aside
  <2>2. CASE u # t
    <3>1. row'[u] = row[u] /\ roles'[u] = roles[u] /\ accepted'[u] = accepted[u]
      BY <2>2 DEF IndInv, RetentionTypeOK
    <3> QED BY <3>1 DEF IndInv, RowOK, RowFits, RolesInv, ChecksInv, StampInv, OverBy, Aside
  <2> QED BY <2>1, <2>2
<1>3. \A j \in Job : JobOK(j)'
  <2>1. \A u \in Tenant : accepted[u] # 0 => accepted'[u] # 0
    BY DEF IndInv, RetentionTypeOK
  <2> QED BY <2>1 DEF IndInv, RetentionTypeOK, Operation, JobOK, Aside
<1>4. ErasureInv'
  BY DEF IndInv, ErasureInv, RetentionTypeOK, Aside
<1> QED BY <1>1, <1>2, <1>3, <1>4 DEF IndInv

\* What is known of one row.
LEMMA OfRow ==
  ASSUME IndInv, NEW t \in Tenant
  PROVE  /\ RetentionTypeOK /\ RowOK(t) /\ RowFits(t, row[t], roles[t], accepted[t])
         /\ row[t] \in Membership /\ roles[t] \in Seq(Role) /\ accepted[t] \in Nat
         /\ today \in Nat /\ months \in Nat
         /\ row = [row EXCEPT ![t] = row[t]] /\ roles = [roles EXCEPT ![t] = roles[t]]
         /\ accepted = [accepted EXCEPT ![t] = accepted[t]]
BY RetentionAssumption DEF IndInv, RetentionTypeOK, RowOK

\* A step that writes one row only.
LEMMA SameRoles ==
  ASSUME IndInv, NEW t \in Tenant, NEW r \in Membership, row' = [row EXCEPT ![t] = r],
         UNCHANGED Aside, UNCHANGED <<roles, accepted>>,
         row[t].erased => r.erased, RowFits(t, r, roles[t], accepted[t])
  PROVE  IndInv'
<1>1. /\ roles' = [roles EXCEPT ![t] = roles[t]]
      /\ accepted' = [accepted EXCEPT ![t] = accepted[t]]
      /\ roles[t] \in Seq(Role) /\ accepted[t] \in Nat
  BY OfRow
<1> QED BY ZenonT(30), <1>1, OwnRow

\* A cleared row.
LEMMA ClearedRow ==
  ASSUME NEW r \in Membership
  PROVE  /\ Cleared(r) \in Membership /\ ~HasFields(Cleared(r)) /\ Cleared(r).until = NoDay
         /\ Cleared(r).revokedOn = r.revokedOn /\ Cleared(r).erased = r.erased
BY DEF Membership, Cleared, HasFields, Day, NoDay

\* settle_profile writes a row that fits.
LEMMA SettledFits ==
  ASSUME IndInv, NEW t \in Tenant
  PROVE  /\ SettledRow(t) \in Membership
         /\ SettledRow(t).erased = row[t].erased /\ SettledRow(t).revokedOn = row[t].revokedOn
         /\ RowFits(t, SettledRow(t), roles[t], accepted[t])
         /\ accepted[t] = 0 => SettledRow(t) = row[t]
<1>1. SettlesTo(t) /\ row[t] \in Membership /\ RowFits(t, row[t], roles[t], accepted[t])
  BY OfRow, Settles
<1>2. CASE SettledRow(t) = row[t]
  BY <1>1, <1>2
<1>3. CASE HasFields(row[t]) /\ OverBy(roles[t], today) /\ SettledRow(t) = Cleared(row[t])
  <2>1. accepted[t] # 0
    BY <1>3, OfRow, FieldsMeanRow
  <2> QED BY <1>1, <1>3, <2>1, ClearedRow DEF RowFits, RolesInv, ChecksInv, StampInv
<1>4. CASE /\ HasFields(row[t]) /\ OverBy(roles[t], today) /\ Kept(t) \in Nat
           /\ SettledRow(t) = [row[t] EXCEPT !.until = Kept(t)]
           /\ IF row[t].until # NoDay THEN Kept(t) = row[t].until
              ELSE Kept(t) = EndOf(roles[t]) + months
  <2>1. accepted[t] # 0
    BY <1>4, OfRow, FieldsMeanRow
  <2>2. /\ SettledRow(t) \in Membership /\ SettledRow(t).until = Kept(t) /\ Kept(t) # NoDay
        /\ SettledRow(t).name = row[t].name /\ SettledRow(t).contact = row[t].contact
        /\ SettledRow(t).erased = row[t].erased /\ SettledRow(t).revokedOn = row[t].revokedOn
    BY <1>1, <1>4 DEF Membership, Day, NoDay
  <2> QED BY <1>1, <1>4, <2>1, <2>2 DEF RowFits, RolesInv, ChecksInv, StampInv, HasFields
<1> QED BY <1>1, <1>2, <1>3, <1>4 DEF SettlesTo

\* reopen_profile's row: current again, with a role or without.
LEMMA Reopened ==
  ASSUME IndInv, NEW t \in Tenant
  PROVE  /\ ReopenedRow(t) \in Membership
         /\ ReopenedRow(t).until = NoDay /\ ReopenedRow(t).revokedOn = NoDay
         /\ ReopenedRow(t).erased = row[t].erased
         /\ ReopenedRow(t).name = SettledRow(t).name
         /\ ReopenedRow(t).contact = SettledRow(t).contact
         /\ ReopenedRow(t).erased => ~HasFields(ReopenedRow(t))
<1>1. SettledRow(t) \in Membership /\ SettledRow(t).erased = row[t].erased
      /\ ChecksInv(SettledRow(t))
  BY SettledFits DEF RowFits
<1>2. ReopenedRow(t) = [SettledRow(t) EXCEPT !.revokedOn = NoDay, !.until = NoDay]
  BY DEF ReopenedRow
<1> QED BY <1>1, <1>2 DEF Membership, Day, ChecksInv, HasFields

\* One role more.
LEMMA RoleAdded ==
  ASSUME IndInv, NEW t \in Tenant, NEW p \in OfferedPeriods
  PROVE  LET rs == Append(roles[t], NewRole(p))
         IN  /\ rs \in Seq(Role) /\ rs # <<>>
             /\ \A i \in DOMAIN rs : rs[i].from < rs[i].to /\ rs[i].revokedOn <= today
<1> DEFINE rs == Append(roles[t], NewRole(p))
<1>1. roles[t] \in Seq(Role) /\ today \in Nat
      /\ \A i \in DOMAIN roles[t] :
           roles[t][i].from < roles[t][i].to /\ roles[t][i].revokedOn <= today
  BY OfRow DEF RowFits, RolesInv
<1>2. p.from \in Nat /\ p.to \in Nat /\ p.from < p.to
  BY RetentionAssumption
<1>3. /\ NewRole(p) \in Role /\ NewRole(p).from < NewRole(p).to
      /\ NewRole(p).revokedOn <= today
  BY <1>1, <1>2 DEF NewRole, Role, Day, NoDay
<1> HIDE DEF NewRole
<1>4. /\ rs \in Seq(Role) /\ Len(rs) = Len(roles[t]) + 1 /\ Len(roles[t]) \in Nat
      /\ \A i \in 1 .. Len(roles[t]) : rs[i] = roles[t][i]
      /\ rs[Len(roles[t]) + 1] = NewRole(p)
  BY <1>1, <1>3, AppendProperties, LenProperties
<1>5. DOMAIN rs = 1 .. (Len(roles[t]) + 1) /\ DOMAIN roles[t] = 1 .. Len(roles[t])
  BY <1>1, <1>4, LenProperties
<1> HIDE DEF rs
<1>6. \A i \in DOMAIN rs : rs[i].from < rs[i].to /\ rs[i].revokedOn <= today
  <2> SUFFICES ASSUME NEW i \in DOMAIN rs
               PROVE rs[i].from < rs[i].to /\ rs[i].revokedOn <= today
    OBVIOUS
  <2>1. CASE i = Len(roles[t]) + 1
    BY <1>3, <1>4, <2>1
  <2>2. CASE i # Len(roles[t]) + 1
    BY <1>1, <1>4, <1>5, <2>2
  <2> QED BY <2>1, <2>2
<1>7. rs # <<>>
  BY <1>4, LenProperties, EmptySeq
<1> QED BY <1>4, <1>6, <1>7 DEF rs

\* accept_invitation states a name again; nothing of a membership whose period is over survives.
LEMMA AcceptKeepsInv ==
  ASSUME IndInv, NEW t \in Tenant, NEW p \in OfferedPeriods, NEW states, Accept(t, p, states)
  PROVE  IndInv'
<1> DEFINE old == IF Exists(t) THEN ReopenedRow(t) ELSE NoRow
           r == WriteProfile(t, old, states)
           rs == Append(roles[t], NewRole(p))
<1>1. row[t].erased = FALSE /\ accepted[t] + 1 \in Nat \ {0} /\ row[t] \in Membership
  BY OfRow DEF Accept, ErasureStands, Membership
<1>2. /\ old \in Membership /\ old.until = NoDay /\ old.revokedOn = NoDay /\ old.erased = FALSE
  BY <1>1, Reopened DEF NoRow, Membership, Day
<1> HIDE DEF old
<1>3. /\ r \in Membership /\ r.until = NoDay /\ r.revokedOn = NoDay /\ r.erased = FALSE
      /\ r.name # 0
  BY <1>1, <1>2 DEF WriteProfile, Membership
<1>4. /\ rs \in Seq(Role) /\ rs # <<>>
      /\ \A i \in DOMAIN rs : rs[i].from < rs[i].to /\ rs[i].revokedOn <= today
  BY RoleAdded
<1>5. /\ row' = [row EXCEPT ![t] = r] /\ roles' = [roles EXCEPT ![t] = rs]
      /\ accepted' = [accepted EXCEPT ![t] = accepted[t] + 1] /\ UNCHANGED Aside
  BY DEF Accept, old
<1> HIDE DEF r, rs
<1>6. RowFits(t, r, rs, accepted[t] + 1)
  BY <1>1, <1>3, <1>4 DEF RowFits, RolesInv, ChecksInv, StampInv, HasFields
<1> QED BY <1>1, <1>3, <1>4, <1>5, <1>6, OwnRow

\* grant_role reopens the membership it adds to.
LEMMA GrantRoleKeepsInv ==
  ASSUME IndInv, NEW t \in Tenant, NEW p \in OfferedPeriods, GrantRole(t, p)
  PROVE  IndInv'
<1> DEFINE r == ReopenedRow(t)
           rs == Append(roles[t], NewRole(p))
<1>1. accepted[t] \in Nat \ {0} /\ accepted' = [accepted EXCEPT ![t] = accepted[t]]
  BY OfRow DEF GrantRole, Exists
<1>2. /\ r \in Membership /\ r.until = NoDay /\ r.revokedOn = NoDay
      /\ r.erased = row[t].erased /\ (r.erased => ~HasFields(r))
  BY Reopened
<1>4. /\ rs \in Seq(Role) /\ rs # <<>>
      /\ \A i \in DOMAIN rs : rs[i].from < rs[i].to /\ rs[i].revokedOn <= today
  BY RoleAdded
<1>5. /\ row' = [row EXCEPT ![t] = r] /\ roles' = [roles EXCEPT ![t] = rs] /\ UNCHANGED Aside
  BY DEF GrantRole
<1> HIDE DEF r, rs
<1>6. RowFits(t, r, rs, accepted[t])
  BY <1>1, <1>2, <1>4 DEF RowFits, RolesInv, ChecksInv, StampInv
<1> QED BY <1>1, <1>2, <1>4, <1>5, <1>6, OwnRow

\* The edits are refused once the membership has ended, so no date stands beside them.
LEMMA EditsKeepInv ==
  ASSUME IndInv, NEW t \in Tenant, NEW to \in {0, accepted[t]},
         SetDisplayName(t) \/ SetContactEmail(t, to)
  PROVE  IndInv'
<1>0. /\ RowFits(t, row[t], roles[t], accepted[t]) /\ row[t] \in Membership
      /\ roles[t] \in Seq(Role) /\ accepted[t] \in Nat /\ to \in Nat
  BY OfRow
<1>1. ~OverBy(roles[t], today)
  <2>1. CASE SetDisplayName(t)
    BY <2>1, OfRow, EndedIsOver DEF SetDisplayName
  <2>2. CASE SetContactEmail(t, to)
    BY <2>2, OfRow, EndedIsOver DEF SetContactEmail, MembershipEnded
  <2> QED BY <2>1, <2>2
<1>2. row[t].until = NoDay /\ row[t].revokedOn = NoDay /\ accepted[t] # 0 /\ row[t].erased = FALSE
  <2>1. row[t].until = NoDay /\ row[t].revokedOn = NoDay
    BY <1>0, <1>1 DEF RowFits, StampInv, RolesInv
  <2>2. accepted[t] # 0
    <3>1. CASE SetDisplayName(t)
      BY <1>0, <3>1 DEF SetDisplayName, Exists
    <3>2. CASE SetContactEmail(t, to)
      <4>1. roles[t] # <<>>
        BY <3>2, EmptySeq DEF SetContactEmail, Rows
      <4> QED BY <1>0, <1>1, <4>1 DEF RowFits, RolesInv
    <3> QED BY <3>1, <3>2
  <2> QED BY <1>0, <2>1, <2>2 DEF SetDisplayName, SetContactEmail, Membership
<1>3. ASSUME NEW r \in Membership, r.until = NoDay, r.revokedOn = NoDay, r.erased = FALSE
      PROVE  RowFits(t, r, roles[t], accepted[t])
  BY <1>0, <1>2, <1>3 DEF RowFits, RolesInv, ChecksInv, StampInv
<1>4. CASE SetDisplayName(t)
  <2> DEFINE r == [row[t] EXCEPT !.name = accepted[t]]
  <2>1. row' = [row EXCEPT ![t] = r]
    BY <1>4 DEF SetDisplayName
  <2>2. r \in Membership /\ r.until = NoDay /\ r.revokedOn = NoDay /\ r.erased = FALSE
    BY <1>0, <1>2 DEF Membership
  <2> HIDE DEF r
  <2>3. RowFits(t, r, roles[t], accepted[t])
    BY <1>3, <2>2
  <2>4. UNCHANGED Aside /\ UNCHANGED <<roles, accepted>>
    BY <1>4 DEF SetDisplayName
  <2> QED BY <1>2, <2>1, <2>2, <2>3, <2>4, SameRoles
<1>5. CASE SetContactEmail(t, to)
  <2> DEFINE r == [row[t] EXCEPT !.contact = to]
  <2>1. row' = [row EXCEPT ![t] = r]
    BY <1>5 DEF SetContactEmail
  <2>2. r \in Membership /\ r.until = NoDay /\ r.revokedOn = NoDay /\ r.erased = FALSE
    BY <1>0, <1>2 DEF Membership
  <2> HIDE DEF r
  <2>3. RowFits(t, r, roles[t], accepted[t])
    BY <1>3, <2>2
  <2>4. UNCHANGED Aside /\ UNCHANGED <<roles, accepted>>
    BY <1>5 DEF SetContactEmail
  <2> QED BY <1>2, <2>1, <2>2, <2>3, <2>4, SameRoles
<1> QED BY <1>4, <1>5

\* An assignment that is over may be revoked without moving the end.
LEMMA RevokedRoleEnd ==
  ASSUME NEW rs, SomeRoles(rs), NEW d \in Nat, OverBy(rs, d), NEW a \in DOMAIN rs,
         rs[a].revokedOn = NoDay
  PROVE  LET new == [rs EXCEPT ![a].revokedOn = d]
         IN  OverBy(new, d) /\ HeldRoles(new) = HeldRoles(rs) /\ EndOf(new) = EndOf(rs)
<1> DEFINE new == [rs EXCEPT ![a].revokedOn = d]
           Span(r) == [from |-> r.from,
                       until |-> IF r.revokedOn = NoDay THEN r.to ELSE Earlier(r.to, r.revokedOn)]
<1>1. /\ DOMAIN rs = 1 .. Len(rs) /\ \A i \in DOMAIN rs : rs[i] \in Role
      /\ rs = [i \in DOMAIN rs |-> rs[i]]
  BY LenProperties, ElementOfSeq DEF SomeRoles
<1>2. /\ DOMAIN new = DOMAIN rs /\ \A i \in DOMAIN rs \ {a} : new[i] = rs[i]
      /\ new[a].from = rs[a].from /\ new[a].to = rs[a].to /\ new[a].revokedOn = d
  BY <1>1 DEF Role
<1>3. rs[a].to \in Nat /\ rs[a].to <= d /\ rs[a].from < rs[a].to
  BY <1>1 DEF Role, OverBy, SomeRoles
<1> HIDE DEF new
<1>4. \A i \in DOMAIN rs : Span(new[i]) = Span(rs[i])
  <2> SUFFICES ASSUME NEW i \in DOMAIN rs PROVE Span(new[i]) = Span(rs[i])
    OBVIOUS
  <2>1. CASE i = a
    BY <1>2, <1>3, <2>1 DEF Earlier, NoDay
  <2>2. CASE i # a
    BY <1>2, <2>2
  <2> QED BY <2>1, <2>2
<1>5. HeldRoles(new) = {h \in {Span(new[i]) : i \in DOMAIN rs} : h.from < h.until}
  BY <1>2 DEF HeldRoles, Rows
<1>6. HeldRoles(rs) = {h \in {Span(rs[i]) : i \in DOMAIN rs} : h.from < h.until}
  BY DEF HeldRoles, Rows
<1>7. HeldRoles(new) = HeldRoles(rs)
  <2> HIDE DEF Span
  <2> QED BY <1>4, <1>5, <1>6
<1>8. {h.until : h \in HeldRoles(rs)} # {}
  <2>1. Span(rs[a]).from < Span(rs[a]).until
    BY <1>3
  <2> HIDE DEF Span
  <2>2. Span(rs[a]) \in HeldRoles(rs)
    BY <1>6, <2>1
  <2> QED BY <2>2
<1>9. EndOf(new) = EndOf(rs)
  BY <1>7, <1>8 DEF EndOf
<1>10. OverBy(new, d)
  <2> SUFFICES ASSUME NEW i \in DOMAIN rs
               PROVE  new[i].revokedOn <= d /\ (new[i].revokedOn # NoDay \/ new[i].to <= d)
    BY <1>2 DEF OverBy
  <2>1. CASE i = a
    BY <1>2, <2>1 DEF NoDay
  <2>2. CASE i # a
    BY <1>2, <2>2 DEF OverBy
  <2> QED BY <2>1, <2>2
<1> QED BY <1>7, <1>9, <1>10 DEF new

\* revoke_role_assignment.
LEMMA RevokeRoleKeepsInv ==
  ASSUME IndInv, NEW t \in Tenant, NEW a \in DOMAIN roles[t], RevokeRole(t, a)
  PROVE  IndInv'
<1> DEFINE rs == [roles[t] EXCEPT ![a].revokedOn = today]
<1>0. /\ RowFits(t, row[t], roles[t], accepted[t]) /\ row[t] \in Membership
      /\ roles[t] \in Seq(Role) /\ accepted[t] \in Nat /\ today \in Nat
      /\ DOMAIN roles[t] = 1 .. Len(roles[t]) /\ Len(roles[t]) \in Nat
      /\ \A i \in DOMAIN roles[t] : roles[t][i] \in Role
  BY OfRow, LenProperties, ElementOfSeq
<1>1. /\ roles' = [roles EXCEPT ![t] = rs] /\ UNCHANGED <<Aside, row, accepted>>
      /\ roles[t][a].revokedOn = NoDay
  BY <1>0 DEF RevokeRole
<1>2. /\ DOMAIN rs = DOMAIN roles[t] /\ \A i \in DOMAIN roles[t] \ {a} : rs[i] = roles[t][i]
      /\ rs[a] = [roles[t][a] EXCEPT !.revokedOn = today]
  BY <1>0
<1>3. /\ rs[a] \in Role /\ rs[a].from = roles[t][a].from /\ rs[a].to = roles[t][a].to
      /\ rs[a].revokedOn = today
  BY <1>0, <1>2 DEF Role, Day
<1>4. OverBy(roles[t], today) /\ roles[t] # <<>> => OverBy(rs, today) /\ EndOf(rs) = EndOf(roles[t])
  BY <1>0, <1>1, RevokedRoleEnd DEF SomeRoles, RowFits, RolesInv
<1>5. rs \in Seq(Role) /\ rs # <<>>
  <2>1. \A i \in 1 .. Len(roles[t]) : rs[i] \in Role
    BY <1>0, <1>2, <1>3
  <2>2. rs = [i \in 1 .. Len(roles[t]) |-> rs[i]]
    BY <1>0
  <2> HIDE DEF rs
  <2>3. rs \in Seq(Role)
    BY SMTT(30), <1>0, <2>1, <2>2, IsASeq
  <2> QED BY <1>2, <2>3, EmptySeq
<1> HIDE DEF rs
<1>6. roles[t] # <<>>
  BY <1>0, EmptySeq
<1>7. ASSUME NEW i \in DOMAIN rs PROVE rs[i].from < rs[i].to /\ rs[i].revokedOn <= today
  <2>1. \A k \in DOMAIN roles[t] :
          roles[t][k].from < roles[t][k].to /\ roles[t][k].revokedOn <= today
    BY <1>0 DEF RowFits, RolesInv
  <2>2. CASE i = a
    BY <1>0, <1>3, <2>1, <2>2
  <2>3. CASE i # a
    BY <1>2, <2>1, <2>3
  <2> QED BY <2>2, <2>3
<1>8. RowFits(t, row[t], rs, accepted[t])
  BY <1>0, <1>4, <1>5, <1>6, <1>7 DEF RowFits, RolesInv, ChecksInv, StampInv
<1> QED BY <1>0, <1>1, <1>5, <1>8, OfRow, OwnRow

\* What revoke_membership leaves of the roles: all of them over, and untouched if they were.
LEMMA CutShortRoles ==
  ASSUME IndInv, NEW t \in Tenant
  PROVE  /\ CutShort(t) \in Seq(Role) /\ OverBy(CutShort(t), today)
         /\ (CutShort(t) = <<>> <=> roles[t] = <<>>)
         /\ \A i \in DOMAIN CutShort(t) : CutShort(t)[i].from < CutShort(t)[i].to
         /\ OverBy(roles[t], today) => CutShort(t) = roles[t]
<1> DEFINE New(a) == IF a.revokedOn = NoDay /\ today < a.to THEN [a EXCEPT !.revokedOn = today]
                     ELSE a
<1>0. /\ RowFits(t, row[t], roles[t], accepted[t]) /\ roles[t] \in Seq(Role) /\ today \in Nat
      /\ DOMAIN roles[t] = 1 .. Len(roles[t]) /\ Len(roles[t]) \in Nat
      /\ \A i \in DOMAIN roles[t] : roles[t][i] \in Role
      /\ roles[t] = [i \in DOMAIN roles[t] |-> roles[t][i]]
  BY OfRow, LenProperties, ElementOfSeq
<1>1. CutShort(t) = [i \in 1 .. Len(roles[t]) |-> New(roles[t][i])]
  BY <1>0 DEF CutShort
<1>2. \A a \in Role : /\ New(a) \in Role /\ New(a).from = a.from /\ New(a).to = a.to
                      /\ New(a).revokedOn # NoDay \/ New(a).to <= today
                      /\ a.revokedOn <= today => New(a).revokedOn <= today
                      /\ a.revokedOn # NoDay \/ a.to <= today => New(a) = a
  <2> SUFFICES ASSUME NEW a \in Role
               PROVE  /\ New(a) \in Role /\ New(a).from = a.from /\ New(a).to = a.to
                      /\ New(a).revokedOn # NoDay \/ New(a).to <= today
                      /\ a.revokedOn <= today => New(a).revokedOn <= today
                      /\ a.revokedOn # NoDay \/ a.to <= today => New(a) = a
    OBVIOUS
  <2>1. a.to \in Nat /\ a.revokedOn \in Day
    BY DEF Role
  <2>2. CASE a.revokedOn = NoDay /\ today < a.to
    <3>1. New(a) = [a EXCEPT !.revokedOn = today]
      BY <2>2
    <3>2. New(a) \in Role /\ New(a).from = a.from /\ New(a).to = a.to /\ New(a).revokedOn = today
      BY <1>0, <3>1 DEF Role, Day
    <3> QED BY <1>0, <2>1, <2>2, <3>2 DEF NoDay
  <2>3. CASE ~(a.revokedOn = NoDay /\ today < a.to)
    <3>1. New(a) = a
      BY <2>3
    <3> HIDE DEF New
    <3> QED BY <1>0, <2>1, <2>3, <3>1
  <2> QED BY <2>2, <2>3
<1> HIDE DEF New
<1>3. CutShort(t) \in Seq(Role) /\ DOMAIN CutShort(t) = 1 .. Len(roles[t])
  BY <1>0, <1>1, <1>2, IsASeq
<1>4. OverBy(CutShort(t), today)
  BY <1>0, <1>1, <1>2, <1>3 DEF OverBy, RowFits, RolesInv
<1>5. \A i \in DOMAIN CutShort(t) : CutShort(t)[i].from < CutShort(t)[i].to
  BY <1>0, <1>1, <1>2, <1>3 DEF RowFits, RolesInv
<1>6. OverBy(roles[t], today) => CutShort(t) = roles[t]
  BY <1>0, <1>1, <1>2 DEF OverBy
<1>7. CutShort(t) = <<>> <=> roles[t] = <<>>
  BY <1>0, <1>3, EmptySeq, LenProperties
<1> QED BY <1>3, <1>4, <1>5, <1>6, <1>7

\* revoke_membership's row: cleared, or with the day that its end and the period make.
LEMMA RevokedRowFits ==
  ASSUME IndInv, NEW t \in Tenant, RevokeMembership(t)
  PROVE  /\ RevokedRow(t) \in Membership /\ RevokedRow(t).erased = row[t].erased
         /\ RowFits(t, RevokedRow(t), CutShort(t), accepted[t])
<1> DEFINE stamped == IF MembershipEnded(t) THEN row[t].until ELSE NoDay
           keep == IF HasFields(row[t])
                   THEN EffectiveKeepUntil(stamped, CutShort(t), NoDay) ELSE NoDay
           kept == IF keep = NoDay THEN Cleared(row[t]) ELSE [row[t] EXCEPT !.until = keep]
           r == [kept EXCEPT !.revokedOn = today]
<1>0. /\ RowFits(t, row[t], roles[t], accepted[t]) /\ row[t] \in Membership
      /\ roles[t] \in Seq(Role) /\ accepted[t] \in Nat /\ today \in Nat /\ months \in Nat
      /\ MembershipEnded(t) <=> OverBy(roles[t], today)
  BY OfRow, EndedIsOver
<1>1. accepted[t] # 0 /\ row[t].revokedOn = NoDay
  BY <1>0 DEF RevokeMembership, Exists
<1>2. /\ CutShort(t) \in Seq(Role) /\ OverBy(CutShort(t), today) /\ CutShort(t) # <<>>
      /\ \A i \in DOMAIN CutShort(t) : CutShort(t)[i].from < CutShort(t)[i].to
      /\ OverBy(roles[t], today) => CutShort(t) = roles[t]
  BY <1>0, <1>1, CutShortRoles DEF RowFits, RolesInv
<1>3. EndOf(CutShort(t)) \in 0 .. today /\ EndedOn(CutShort(t), NoDay) = EndOf(CutShort(t))
  BY <1>0, <1>2, EndedWhenOver DEF SomeRoles
<1>4. stamped # NoDay /\ t \notin missed => stamped = EndOf(CutShort(t)) + months
  BY <1>0, <1>2 DEF RowFits, StampInv
<1>5. stamped \in Day
  BY <1>0 DEF Membership, Day
<1> HIDE DEF stamped
<1>6. /\ keep \in Day /\ (keep # NoDay => HasFields(row[t]))
      /\ keep # NoDay /\ t \notin missed => keep = EndOf(CutShort(t)) + months
  <2>1. EndOf(CutShort(t)) \in Nat
    BY <1>0, <1>3
  <2>2. LET k == KeepUntil(EndOf(CutShort(t)), months)
        IN  k \in Day /\ (k # NoDay => k = EndOf(CutShort(t)) + months)
    BY <1>0, <2>1, KeepUntilDay
  <2>3. NoDay \in Day
    BY DEF Day
  <2> QED BY <1>3, <1>4, <1>5, <2>2, <2>3 DEF EffectiveKeepUntil
<1> HIDE DEF keep
<1>7. /\ kept \in Membership /\ kept.erased = row[t].erased /\ kept.until = keep
      /\ (keep = NoDay => ~HasFields(kept))
      /\ (keep # NoDay => kept.name = row[t].name /\ kept.contact = row[t].contact)
  BY <1>0, <1>6, ClearedRow DEF Membership
<1> HIDE DEF kept
<1>8. /\ r \in Membership /\ r.erased = row[t].erased /\ r.until = keep /\ r.revokedOn = today
      /\ r.name = kept.name /\ r.contact = kept.contact
  BY <1>0, <1>7 DEF Membership, Day
<1>9. r = RevokedRow(t)
  BY DEF RevokedRow, kept, keep, stamped
<1> HIDE DEF r
<1>10. HasFields(r) <=> keep # NoDay
  BY <1>6, <1>7, <1>8 DEF HasFields
<1>11. RolesInv(r, CutShort(t), accepted[t])
  BY <1>1, <1>2 DEF RolesInv, OverBy
<1>12. ChecksInv(r) /\ StampInv(t, r, CutShort(t))
  BY <1>0, <1>2, <1>6, <1>8, <1>10 DEF ChecksInv, StampInv, RowFits
<1> QED BY <1>8, <1>9, <1>11, <1>12 DEF RowFits

\* revoke_membership, and the sweep of what has run out.
LEMMA EndingsKeepInv ==
  ASSUME IndInv, NEW t \in Tenant, RevokeMembership(t) \/ Sweep(t)
  PROVE  IndInv'
<1>1. CASE RevokeMembership(t)
  <2>1. /\ row' = [row EXCEPT ![t] = RevokedRow(t)] /\ roles' = [roles EXCEPT ![t] = CutShort(t)]
        /\ UNCHANGED Aside /\ accepted' = accepted
    BY <1>1 DEF RevokeMembership
  <2>2. accepted' = [accepted EXCEPT ![t] = accepted[t]] /\ accepted[t] \in Nat
    BY <2>1, OfRow
  <2>3. /\ RevokedRow(t) \in Membership /\ RevokedRow(t).erased = row[t].erased
        /\ RowFits(t, RevokedRow(t), CutShort(t), accepted[t]) /\ CutShort(t) \in Seq(Role)
    BY <1>1, RevokedRowFits, CutShortRoles
  <2> QED BY <2>1, <2>2, <2>3, OwnRow
<1>2. CASE Sweep(t)
  <2>1. /\ row' = [row EXCEPT ![t] = SettledRow(t)]
        /\ UNCHANGED Aside /\ UNCHANGED <<roles, accepted>>
    BY <1>2 DEF Sweep
  <2> QED BY <2>1, SettledFits, SameRoles
<1> QED BY <1>1, <1>2

-----------------------------------------------------------------------------
(* The account-wide operations, and the days. *)

\* An operation whose list is read, that takes a lock, or that is rolled back, writes no row.
LEMMA JobsStay ==
  ASSUME IndInv, NEW j \in Job, NEW new \in Operation, job' = [job EXCEPT ![j] = new],
         UNCHANGED <<today, months, row, roles, accepted, missed, promised>>,
         new.kind = "erase" => \A t \in new.list : accepted[t] # 0,
         new.locked \subseteq new.list,
         \A s \in new.locked, t \in new.list \ new.locked : s < t
  PROVE  IndInv'
<1>1. RetentionTypeOK'
  BY DEF IndInv, RetentionTypeOK
<1>2. \A t \in Tenant : RowOK(t)'
  BY DEF IndInv, RowOK, RowFits, RolesInv, ChecksInv, StampInv, OverBy
<1>3. ASSUME NEW k \in Job PROVE JobOK(k)'
  <2>1. job'[k] = IF k = j THEN new ELSE job[k]
    BY DEF IndInv, RetentionTypeOK
  <2> QED BY <2>1 DEF IndInv, JobOK
<1>4. ErasureInv'
  BY DEF IndInv, ErasureInv
<1> QED BY <1>1, <1>2, <1>3, <1>4 DEF IndInv

\* What set_retention_months and erase_member_names do before they commit.
LEMMA JobStepsKeepInv ==
  ASSUME IndInv, NEW j \in Job,
         BeginSetRetention(j) \/ BeginErase(j) \/ Lock(j) \/ RollBack(j)
  PROVE  IndInv'
<1>0. job[j] \in Operation /\ Tenant \subseteq Nat /\ JobOK(j)
  BY RetentionAssumption DEF IndInv, RetentionTypeOK
<1>1. CASE BeginSetRetention(j)
  <2> DEFINE new == [kind |-> "set", locked |-> {},
                     list |-> {t \in Tenant : HasFields(row[t]) /\ ~row[t].erased}]
  <2>1. new \in Operation /\ new.locked = {} /\ new.kind # "erase"
    BY DEF Operation
  <2>2. job' = [job EXCEPT ![j] = new]
        /\ UNCHANGED <<today, months, row, roles, accepted, missed, promised>>
    BY <1>1 DEF BeginSetRetention
  <2> HIDE DEF new
  <2> QED BY <2>1, <2>2, JobsStay
<1>2. CASE BeginErase(j)
  <2> DEFINE new == [Idle EXCEPT !.kind = "erase", !.list = {t \in Tenant : Exists(t)}]
  <2>0. new.list = {t \in Tenant : Exists(t)} /\ new.locked = {} /\ new \in Operation
    BY DEF Idle, Operation
  <2>1. new \in Operation /\ new.locked = {} /\ \A t \in new.list : accepted[t] # 0
    <3>1. \A t \in Tenant : Exists(t) => accepted[t] # 0
      BY DEF Exists, IndInv, RetentionTypeOK
    <3>2. \A t \in new.list : accepted[t] # 0
      <4> HIDE DEF new
      <4> QED BY <2>0, <3>1
    <3> QED BY <2>0, <3>2
  <2>2. job' = [job EXCEPT ![j] = new]
        /\ UNCHANGED <<today, months, row, roles, accepted, missed, promised>>
    BY <1>2 DEF BeginErase
  <2> HIDE DEF new
  <2> QED BY <2>1, <2>2, JobsStay
<1>3. CASE Lock(j)
  <2>1. PICK t \in NextLock(j) : job' = [job EXCEPT ![j].locked = @ \cup {t}]
    BY <1>3 DEF Lock
  <2> DEFINE new == [job[j] EXCEPT !.locked = job[j].locked \cup {t}]
  <2>2. /\ t \in job[j].list \ job[j].locked
        /\ \A s \in job[j].list \ job[j].locked : t <= s
    BY <2>1 DEF NextLock
  <2>3. /\ new \in Operation /\ new.list = job[j].list /\ new.kind = job[j].kind
        /\ new.locked = job[j].locked \cup {t}
    BY <1>0, <2>2 DEF Operation
  <2>4. job' = [job EXCEPT ![j] = new]
        /\ UNCHANGED <<today, months, row, roles, accepted, missed, promised>>
    BY <1>3, <2>1 DEF Lock
  <2> HIDE DEF new
  <2>5. \A s \in new.locked, u \in new.list \ new.locked : s < u
    <3>1. \A u \in job[j].list : u \in Nat
      BY <1>0 DEF Operation
    <3> QED BY <1>0, <2>2, <2>3, <3>1 DEF JobOK
  <2>6. /\ new.locked \subseteq new.list
        /\ new.kind = "erase" => \A u \in new.list : accepted[u] # 0
    BY <1>0, <2>2, <2>3 DEF JobOK
  <2> QED BY <2>3, <2>4, <2>5, <2>6, JobsStay
<1>4. CASE RollBack(j)
  <2>1. Done \in Operation /\ Done.locked = {} /\ Done.kind = "done"
    BY DEF Operation, Idle, Done
  <2>2. job' = [job EXCEPT ![j] = Done]
        /\ UNCHANGED <<today, months, row, roles, accepted, missed, promised>>
    BY <1>4 DEF RollBack
  <2> HIDE DEF Done
  <2> QED BY <2>1, <2>2, JobsStay
<1> QED BY <1>1, <1>2, <1>3, <1>4

\* A row settled under the old setting, and dated anew under setting m.
LEMMA RecalculatedFits ==
  ASSUME IndInv, NEW t \in Tenant, NEW m \in Nat, HasFields(row[t])
  PROVE  LET r == Recalculated(t, SettledFirst(t), m)
         IN  /\ r \in Membership /\ r.erased = row[t].erased /\ accepted[t] # 0
             /\ RolesInv(r, roles[t], accepted[t]) /\ ChecksInv(r)
             /\ r.until # NoDay => OverBy(roles[t], today) /\ r.until = EndOf(roles[t]) + m
             /\ SettledRow(t) = Cleared(row[t]) => r.name = 0 /\ r.contact = 0
<1> DEFINE q == SettledRow(t)
           keep == KeepUntil(EndedOn(roles[t], q.revokedOn), m)
           r == Recalculated(t, SettledFirst(t), m)
<1>1. /\ q \in Membership /\ q.erased = row[t].erased /\ q.revokedOn = row[t].revokedOn
      /\ RowFits(t, q, roles[t], accepted[t]) /\ today \in Nat
      /\ RetentionTypeOK /\ RowOK(t)
  BY SettledFits, OfRow
<1>2. MembershipEnded(t) <=> OverBy(roles[t], today)
  BY <1>1, EndedIsOver
<1>3. accepted[t] # 0 /\ SomeRoles(roles[t])
  BY <1>1, FieldsMeanRow, RolesOfRow
<1>4. r = IF q.until = NoDay \/ ~MembershipEnded(t) THEN q
          ELSE IF keep = NoDay THEN Cleared(q) ELSE [q EXCEPT !.until = keep]
  BY DEF Recalculated, SettledFirst
<1>5. q = Cleared(row[t]) => q.name = 0 /\ q.contact = 0 /\ q.until = NoDay
  BY OfRow DEF Cleared, Membership
<1> HIDE DEF q
<1>6. CASE q.until = NoDay \/ ~MembershipEnded(t)
  <2>1. r = q /\ q.until = NoDay
    BY <1>1, <1>2, <1>4, <1>6 DEF RowFits, StampInv
  <2> HIDE DEF r
  <2>2. SettledRow(t) = q
    BY DEF q
  <2> QED BY <1>1, <1>3, <1>5, <2>1, <2>2 DEF RowFits, r
<1>7. CASE ~(q.until = NoDay \/ ~MembershipEnded(t))
  <2>1. OverBy(roles[t], today) /\ q.until # NoDay
    BY <1>2, <1>7
  <2>2. EndOf(roles[t]) \in Nat /\ keep \in Day /\ (keep # NoDay => keep = EndOf(roles[t]) + m)
    <3>1. EndOf(roles[t]) \in 0 .. today /\ EndedOn(roles[t], q.revokedOn) = EndOf(roles[t])
      BY <1>1, <1>3, <2>1, EndedWhenOver
    <3>2. EndOf(roles[t]) \in Nat
      BY <1>1, <3>1
    <3> QED BY <1>1, <3>1, <3>2, KeepUntilDay
  <2> HIDE DEF keep
  <2>3. HasFields(q) /\ ~q.erased
    BY <1>1, <2>1 DEF RowFits, ChecksInv
  <2>4. /\ r \in Membership /\ r.erased = q.erased /\ r.revokedOn = q.revokedOn
        /\ r.until = keep /\ (keep # NoDay => HasFields(r))
        /\ (keep = NoDay => ~HasFields(r))
    <3>1. CASE keep = NoDay
      BY <1>1, <1>4, <1>7, <3>1, ClearedRow
    <3>2. CASE keep # NoDay
      BY <1>1, <1>4, <1>7, <2>2, <2>3, <3>2 DEF Membership, HasFields
    <3> QED BY <3>1, <3>2
  <2>5. SettledRow(t) # Cleared(row[t])
    BY <1>5, <2>1 DEF q
  <2> HIDE DEF r
  <2>6. RolesInv(r, roles[t], accepted[t]) /\ ChecksInv(r)
    BY <1>1, <1>3, <2>1, <2>3, <2>4 DEF RowFits, RolesInv, ChecksInv
  <2> QED BY <1>1, <1>3, <2>1, <2>2, <2>4, <2>5, <2>6 DEF r
<1> QED BY <1>6, <1>7

\* set_retention_months commits: what it had on its list is dated anew, and what it had not is
\* missed.
LEMMA CommitSetRetentionKeepsInv ==
  ASSUME IndInv, NEW j \in Job, NEW m \in Period, CommitSetRetention(j, m)
  PROVE  IndInv'
<1> DEFINE Dated(t) == t \in job[j].list /\ ~row[t].erased /\ HasFields(row[t])
<1>0. m \in Nat
  BY RetentionAssumption
<1>1. /\ row' = [t \in Tenant |-> IF Dated(t) THEN Recalculated(t, SettledFirst(t), m) ELSE row[t]]
      /\ UNCHANGED <<today, roles, accepted, promised>> /\ months' = m
      /\ missed' = (missed \ job[j].list)
                     \cup {t \in Tenant \ job[j].list : HasFields(row[t])}
      /\ job' = [job EXCEPT ![j] = Done]
  BY DEF CommitSetRetention
<1>2. Done \in Operation /\ Done.locked = {} /\ Done.kind = "done"
  BY DEF Operation, Idle, Done
<1>3. ASSUME NEW t \in Tenant
      PROVE  row'[t] \in Membership /\ row'[t].erased = row[t].erased /\ RowOK(t)'
  <2>0. row[t] \in Membership /\ RowFits(t, row[t], roles[t], accepted[t])
    BY OfRow
  <2>1. CASE Dated(t)
    <3> DEFINE r == Recalculated(t, SettledFirst(t), m)
    <3>1. /\ r \in Membership /\ r.erased = row[t].erased
          /\ RolesInv(r, roles[t], accepted[t]) /\ ChecksInv(r)
          /\ r.until # NoDay => OverBy(roles[t], today) /\ r.until = EndOf(roles[t]) + m
      BY <1>0, <2>1, RecalculatedFits
    <3>2. row'[t] = r
      BY <1>1, <2>1
    <3> HIDE DEF r
    <3> QED
      BY <1>1, <3>1, <3>2 DEF RowOK, RowFits, RolesInv, ChecksInv, StampInv, OverBy
  <2>2. CASE ~Dated(t)
    <3>1. row'[t] = row[t]
      BY <1>1, <2>2
    <3>2. t \in missed' \/ row[t].until = NoDay
      BY <1>1, <2>0, <2>2 DEF RowFits, ChecksInv
    <3> QED
      BY <1>1, <2>0, <3>1, <3>2 DEF RowOK, RowFits, RolesInv, ChecksInv, StampInv, OverBy
  <2> QED BY <2>1, <2>2
<1>4. RetentionTypeOK'
  <2>1. row' = [t \in Tenant |-> row'[t]]
    BY <1>1
  <2>2. row' \in [Tenant -> Membership]
    BY <1>3, <2>1
  <2>3. missed' \subseteq Tenant
    BY <1>1 DEF IndInv, RetentionTypeOK
  <2> QED BY <1>1, <1>2, <2>2, <2>3 DEF IndInv, RetentionTypeOK
<1>5. ASSUME NEW k \in Job PROVE JobOK(k)'
  <2>1. job'[k] = IF k = j THEN Done ELSE job[k]
    BY <1>1 DEF IndInv, RetentionTypeOK
  <2> HIDE DEF Done
  <2> QED BY <1>1, <1>2, <2>1 DEF IndInv, JobOK
<1>6. ErasureInv'
  BY <1>1, <1>3 DEF IndInv, ErasureInv, RetentionTypeOK
<1> QED BY <1>3, <1>4, <1>5, <1>6 DEF IndInv

\* erase_member_names commits: every row on its list is cleared and marked.
LEMMA CommitEraseKeepsInv ==
  ASSUME IndInv, NEW j \in Job, CommitErase(j)
  PROVE  IndInv'
<1>1. /\ row' = [t \in Tenant |-> IF t \in job[j].list THEN ErasedRow(t) ELSE row[t]]
      /\ UNCHANGED <<today, months, roles, accepted, missed>>
      /\ promised' = promised \cup job[j].list
      /\ job' = [job EXCEPT ![j] = Done]
  BY DEF CommitErase
<1>2. Done \in Operation /\ Done.locked = {} /\ Done.kind = "done"
  BY DEF Operation, Idle, Done
<1>3. ASSUME NEW t \in Tenant
      PROVE  /\ row'[t] \in Membership /\ RowOK(t)'
             /\ row[t].erased \/ t \in job[j].list => row'[t].erased
  <2>0. row[t] \in Membership /\ RowFits(t, row[t], roles[t], accepted[t])
    BY OfRow
  <2>1. CASE t \in job[j].list
    <3>0. accepted[t] # 0
      BY <2>1 DEF CommitErase, IndInv, JobOK
    <3> DEFINE r == ErasedRow(t)
    <3>1. /\ r \in Membership /\ r.erased /\ r.until = NoDay /\ r.revokedOn = row[t].revokedOn
          /\ ~HasFields(r)
      <4>1. /\ Cleared(row[t]) \in Membership /\ ~HasFields(Cleared(row[t]))
            /\ Cleared(row[t]).until = NoDay /\ Cleared(row[t]).revokedOn = row[t].revokedOn
        BY <2>0, ClearedRow
      <4> QED BY <4>1 DEF ErasedRow, Membership, HasFields
    <3>2. row'[t] = r
      BY <1>1, <2>1
    <3> HIDE DEF r
    <3> QED
      BY <1>1, <2>0, <2>1, <3>0, <3>1, <3>2 DEF RowOK, RowFits, RolesInv, ChecksInv, StampInv, OverBy
  <2>2. CASE t \notin job[j].list
    BY <1>1, <2>0, <2>2 DEF RowOK, RowFits, RolesInv, ChecksInv, StampInv, OverBy
  <2> QED BY <2>1, <2>2
<1>4. RetentionTypeOK'
  <2>1. row' = [t \in Tenant |-> row'[t]]
    BY <1>1
  <2>2. row' \in [Tenant -> Membership]
    BY <1>3, <2>1
  <2>3. promised' \subseteq Tenant
    BY <1>1 DEF IndInv, RetentionTypeOK, Operation
  <2> QED BY <1>1, <1>2, <2>2, <2>3 DEF IndInv, RetentionTypeOK
<1>5. ASSUME NEW k \in Job PROVE JobOK(k)'
  <2>1. job'[k] = IF k = j THEN Done ELSE job[k]
    BY <1>1 DEF IndInv, RetentionTypeOK
  <2> HIDE DEF Done
  <2> QED BY <1>1, <1>2, <2>1 DEF IndInv, JobOK
<1>6. ErasureInv'
  BY <1>1, <1>3, <1>4 DEF IndInv, ErasureInv, RetentionTypeOK
<1> QED BY <1>3, <1>4, <1>5, <1>6 DEF IndInv

\* A day passes: what was over stays over.
LEMMA TickKeepsInv == IndInv /\ Tick => IndInv'
<1> SUFFICES ASSUME IndInv, Tick PROVE IndInv'
  OBVIOUS
<1>1. /\ today \in Nat /\ today' = today + 1
      /\ UNCHANGED <<months, row, roles, accepted, job, missed, promised>>
  BY DEF Tick, IndInv, RetentionTypeOK
<1>2. ASSUME NEW t \in Tenant PROVE RowOK(t)'
  <2>1. /\ RowFits(t, row[t], roles[t], accepted[t]) /\ roles[t] \in Seq(Role)
        /\ DOMAIN roles[t] = 1 .. Len(roles[t])
        /\ \A i \in DOMAIN roles[t] : roles[t][i] \in Role
    BY OfRow, LenProperties, ElementOfSeq
  <2>2. \A i \in DOMAIN roles[t] : roles[t][i].revokedOn \in Int /\ roles[t][i].to \in Nat
    BY <2>1 DEF Role, Day, NoDay
  <2>3. /\ OverBy(roles[t], today) => OverBy(roles[t], today')
        /\ \A i \in DOMAIN roles[t] :
             roles[t][i].revokedOn <= today => roles[t][i].revokedOn <= today'
    BY <1>1, <2>2 DEF OverBy
  <2> QED
    BY <1>1, <2>1, <2>3 DEF RowOK, RowFits, RolesInv, ChecksInv, StampInv, OverBy
<1>3. RetentionTypeOK' /\ ErasureInv' /\ \A j \in Job : JobOK(j)'
  BY <1>1 DEF IndInv, RetentionTypeOK, ErasureInv, JobOK
<1> QED BY <1>2, <1>3 DEF IndInv

-----------------------------------------------------------------------------
(* The theorems. *)

\* Nobody has been accepted yet.
LEMMA InitInv == Init => IndInv
<1> SUFFICES ASSUME Init PROVE IndInv
  OBVIOUS
<1>1. NoRow \in Membership /\ <<>> \in Seq(Role) /\ Idle \in Operation
  BY EmptySeq DEF NoRow, Membership, Day, Idle, Operation
<1>2. RetentionTypeOK
  BY <1>1, RetentionAssumption DEF Init, RetentionTypeOK
<1>3. ASSUME NEW t \in Tenant PROVE RowOK(t)
  BY EmptySeq
  DEF Init, RowOK, RowFits, RolesInv, ChecksInv, StampInv, NoRow, HasFields, NoDay
<1>4. ErasureInv /\ \A j \in Job : JobOK(j)
  BY DEF Init, ErasureInv, JobOK, Idle
<1> QED BY <1>2, <1>3, <1>4 DEF IndInv

\* Every step keeps the invariant.
LEMMA NextInv == IndInv /\ [Next]_vars => IndInv'
<1> SUFFICES ASSUME IndInv, [Next]_vars PROVE IndInv'
  OBVIOUS
<1>1. ASSUME NEW t \in Tenant, NEW p \in OfferedPeriods, NEW states \in BOOLEAN,
             Accept(t, p, states) \/ GrantRole(t, p)
      PROVE  IndInv'
  BY <1>1, AcceptKeepsInv, GrantRoleKeepsInv
<1>2. ASSUME NEW t \in Tenant, NEW to \in {0, accepted[t]},
             SetDisplayName(t) \/ SetContactEmail(t, to)
      PROVE  IndInv'
  BY <1>2, EditsKeepInv
<1>3. ASSUME NEW t \in Tenant, NEW a \in DOMAIN roles[t], RevokeRole(t, a) PROVE IndInv'
  BY <1>3, RevokeRoleKeepsInv
<1>4. ASSUME NEW t \in Tenant, RevokeMembership(t) \/ Sweep(t) PROVE IndInv'
  BY <1>4, EndingsKeepInv
<1>5. ASSUME NEW j \in Job, NEW m \in Period,
             CommitSetRetention(j, m) \/ CommitErase(j)
      PROVE  IndInv'
  BY <1>5, CommitSetRetentionKeepsInv, CommitEraseKeepsInv
<1>6. ASSUME NEW j \in Job,
             BeginSetRetention(j) \/ BeginErase(j) \/ Lock(j) \/ RollBack(j) \/ CommitErase(j)
      PROVE  IndInv'
  BY <1>6, JobStepsKeepInv, CommitEraseKeepsInv
<1>7. CASE Tick
  BY <1>7, TickKeepsInv
<1>8. CASE UNCHANGED vars
  BY <1>8
  DEF vars, IndInv, RetentionTypeOK, RowOK, RowFits, RolesInv, ChecksInv, StampInv, OverBy, JobOK,
      ErasureInv
<1>9. Setter \subseteq Job /\ Eraser \subseteq Job
  BY DEF Job
<1> QED BY <1>1, <1>2, <1>3, <1>4, <1>5, <1>6, <1>7, <1>8, <1>9 DEF Next

\* The invariant is inductive.
LEMMA Inductive == Spec => []IndInv
BY InitInv, NextInv, PTL DEF Spec

\* Every row, role and operation is well-formed.
THEOREM TypeCorrect == Spec => []RetentionTypeOK
<1>1. IndInv => RetentionTypeOK
  BY DEF IndInv
<1> QED BY <1>1, Inductive, PTL

\* No operation makes a row that the checks of migrations 0008 and 0009 refuse, so none of them
\* ends in a raw database error.
THEOREM TableChecksHold == Spec => []ChecksHold
<1>1. IndInv => ChecksHold
  BY DEF IndInv, RowOK, RowFits, ChecksInv, ChecksHold
<1> QED BY <1>1, Inductive, PTL

\* The date on an ended membership is the day it ended and the account's period (ended_on_for),
\* for any roles, revocations and changes of the setting.
THEOREM StampsFollowTheSetting == Spec => []StampFollowsSetting
<1>1. IndInv => StampFollowsSetting
  <2> SUFFICES ASSUME IndInv, NEW t \in Tenant \ missed, row[t].until # NoDay
               PROVE  /\ MembershipEnded(t)
                      /\ row[t].until = EndedOn(roles[t], row[t].revokedOn) + months
    BY DEF StampFollowsSetting
  <2>1. RetentionTypeOK /\ RowOK(t) /\ RowFits(t, row[t], roles[t], accepted[t]) /\ today \in Nat
    BY OfRow
  <2>2. OverBy(roles[t], today) /\ row[t].until = EndOf(roles[t]) + months
    BY <2>1 DEF RowFits, StampInv
  <2>3. HasFields(row[t])
    BY <2>1 DEF RowFits, ChecksInv
  <2>4. SomeRoles(roles[t])
    BY <2>1, <2>3, FieldsMeanRow, RolesOfRow
  <2>5. EndedOn(roles[t], row[t].revokedOn) = EndOf(roles[t])
    BY <2>1, <2>2, <2>4, EndedWhenOver
  <2> QED BY <2>1, <2>2, <2>5, EndedIsOver
<1> QED BY <1>1, Inductive, PTL

\* An erasure is final: whoever joins again is refused, and the FAU-er that were on its list
\* neither keep a field nor show a role (erase_member_names, ensure_membership).
THEOREM ErasedStayForgotten == Spec => []ErasedStaysForgotten
<1>1. IndInv => ErasedStaysForgotten
  <2> SUFFICES ASSUME IndInv, NEW t \in promised
               PROVE  ~HasFields(row[t]) /\ \A d \in 0 .. today : ShownAs(t, d) = "former"
    BY DEF ErasedStaysForgotten
  <2>1. t \in Tenant /\ row[t].erased
    BY DEF IndInv, RetentionTypeOK, ErasureInv
  <2>2. ~HasFields(row[t])
    BY <2>1 DEF IndInv, RowOK, RowFits, ChecksInv
  <2>3. \A d \in 0 .. today : ShownAs(t, d) = "former"
    BY <2>1 DEF ShownAs
  <2> QED BY <2>2, <2>3
<1> QED BY <1>1, Inductive, PTL

\* Any number of account-wide operations over any FAU-er: the one that waits for the other's FAU
\* has locked only smaller ones, so the other does not wait for it (both lock in id order).
THEOREM NeverACircularWait == Spec => []NoCircularWait
<1>1. IndInv => NoCircularWait
  <2> SUFFICES ASSUME IndInv, NEW j \in Job, NEW k \in Job,
                      NextLock(j) # {}, NextLock(j) \subseteq job[k].locked,
                      NextLock(k) # {}, NextLock(k) \subseteq job[j].locked
               PROVE  FALSE
    BY DEF NoCircularWait
  <2>1. PICK a \in NextLock(j), b \in NextLock(k) : TRUE
    OBVIOUS
  <2>2. /\ a \in job[k].locked /\ b \in job[k].list \ job[k].locked
        /\ b \in job[j].locked /\ a \in job[j].list \ job[j].locked
    BY DEF NextLock
  <2>3. a \in Nat /\ b \in Nat
    BY <2>2, RetentionAssumption DEF IndInv, RetentionTypeOK, Operation
  <2>4. a < b /\ b < a
    BY <2>2 DEF IndInv, JobOK
  <2> QED BY <2>3, <2>4
<1> QED BY <1>1, Inductive, PTL

-----------------------------------------------------------------------------
(* A period that is over. *)

\* Over, without asking settle_profile: the roles are over, and so is what is kept.
IsOver(t) ==
  /\ HasFields(row[t]) /\ OverBy(roles[t], today)
  /\ IF row[t].until # NoDay THEN row[t].until <= today
     ELSE months = 0 \/ EndOf(roles[t]) + months <= today

\* The two say the same.
OverAgrees == \A t \in Tenant : Over(t) <=> IsOver(t)

\* ... in every state of the invariant.
LEMMA OverIs == IndInv => OverAgrees
<1> SUFFICES ASSUME IndInv, NEW t \in Tenant PROVE Over(t) <=> IsOver(t)
  BY DEF OverAgrees
<1>1. RetentionTypeOK /\ RowOK(t) /\ row[t] \in Membership
  BY OfRow
<1>2. MembershipEnded(t) <=> OverBy(roles[t], today)
  BY <1>1, EndedIsOver
<1>3. CASE HasFields(row[t]) /\ OverBy(roles[t], today)
  <2>1. /\ Kept(t) = IF row[t].until # NoDay
                     THEN IF today < row[t].until THEN row[t].until ELSE NoDay
                     ELSE KeepUntil(EndOf(roles[t]), months)
        /\ EndOf(roles[t]) \in 0 .. today /\ months \in Nat /\ today \in Nat
    BY <1>1, <1>3, KeptDay
  <2>2. EndOf(roles[t]) \in Nat /\ row[t].until \in Day
    BY <1>1, <2>1 DEF Membership
  <2>3. KeepUntil(EndOf(roles[t]), months) = NoDay
          <=> months = 0 \/ EndOf(roles[t]) + months <= today
    <3>1. KeepUntil(EndOf(roles[t]), months) # NoDay
            <=> months # 0 /\ today < EndOf(roles[t]) + months
      BY <2>1, <2>2, KeepUntilDay
    <3> QED BY <2>1, <2>2, <3>1
  <2>4. row[t].until # NoDay => (~(today < row[t].until) <=> row[t].until <= today)
    BY <2>1, <2>2 DEF Day
  <2> QED BY <1>2, <1>3, <2>1, <2>3, <2>4 DEF Over, IsOver
<1>4. CASE ~(HasFields(row[t]) /\ OverBy(roles[t], today))
  BY <1>2, <1>4 DEF Over, IsOver
<1> QED BY <1>3, <1>4

\* The same after a step.
LEMMA OverIsNext == ASSUME IndInv', NEW t \in Tenant PROVE Over(t)' <=> IsOver(t)'
<1>1. IndInv' => OverAgrees'
  BY OverIs, PTL
<1> QED BY <1>1 DEF OverAgrees

\* What becomes of a field whose period is over.
Gone(t) ==
  \A f \in {"name", "contact"} :
    \/ row'[t][f] \in {0, accepted[t] + 1}
    \/ row'[t][f] = row[t][f] /\ (IsOver(t)' \/ t \in missed')

\* A row that is left alone stays over, today and tomorrow.
LEMMA LeftAlone ==
  ASSUME IndInv, NEW t \in Tenant, IsOver(t), row'[t] = row[t], roles'[t] = roles[t],
         months' = months, today' \in {today, today + 1}
  PROVE  Gone(t)
<1>1. /\ RowFits(t, row[t], roles[t], accepted[t]) /\ row[t] \in Membership /\ today \in Nat
      /\ months \in Nat /\ EndOf(roles[t]) \in 0 .. today
      /\ DOMAIN roles[t] = 1 .. Len(roles[t])
      /\ \A i \in DOMAIN roles[t] : roles[t][i] \in Role
  BY OfRow, KeptDay, LenProperties, ElementOfSeq DEF IsOver
<1>2. \A i \in DOMAIN roles[t] : roles[t][i].revokedOn \in Int /\ roles[t][i].to \in Nat
  BY <1>1 DEF Role, Day, NoDay
<1>3. OverBy(roles[t], today')
  BY <1>1, <1>2 DEF IsOver, OverBy
<1>4. row[t].until \in Int
  BY <1>1 DEF Membership, Day, NoDay
<1>5. IsOver(t)'
  BY <1>1, <1>3, <1>4 DEF IsOver
<1> QED BY <1>5 DEF Gone

\* A row that settle_profile clears.
LEMMA OverIsCleared ==
  ASSUME IndInv, NEW t \in Tenant, IsOver(t)
  PROVE  /\ SettledRow(t) = Cleared(row[t]) /\ Kept(t) = NoDay /\ Settled(t) = "cleared"
         /\ Cleared(row[t]).name = 0 /\ Cleared(row[t]).contact = 0
         /\ MembershipEnded(t) /\ accepted[t] # 0
<1>1. Over(t) /\ RetentionTypeOK /\ RowOK(t) /\ SettlesTo(t) /\ row[t] \in Membership
  BY OverIs, OfRow, Settles DEF OverAgrees
<1>2. Kept(t) = NoDay /\ HasFields(row[t]) /\ MembershipEnded(t)
  BY <1>1 DEF Over
<1>3. ~row[t].erased
  BY <1>1, <1>2 DEF RowOK, RowFits, ChecksInv
<1>4. Settled(t) = "cleared" /\ SettledRow(t) = Cleared(row[t])
  BY <1>2, <1>3 DEF Settled, SettledRow
<1>5. Cleared(row[t]).name = 0 /\ Cleared(row[t]).contact = 0
  BY <1>1 DEF Cleared, Membership
<1> QED BY <1>1, <1>2, <1>4, <1>5, FieldsMeanRow

\* The operations of one FAU: a return clears what was over and states the name anew, an end
\* clears it, and a revoked assignment moves nothing.
LEMMA OwnStepsClear ==
  ASSUME IndInv, NEW t \in Tenant, IsOver(t),
         \/ \E p \in OfferedPeriods, states \in BOOLEAN : Accept(t, p, states)
         \/ \E p \in OfferedPeriods : GrantRole(t, p)
         \/ SetDisplayName(t)
         \/ \E to \in {0, accepted[t]} : SetContactEmail(t, to)
         \/ \E a \in DOMAIN roles[t] : RevokeRole(t, a)
         \/ RevokeMembership(t)
         \/ Sweep(t)
  PROVE  Gone(t)
<1>0. /\ SettledRow(t) = Cleared(row[t]) /\ Kept(t) = NoDay /\ Settled(t) = "cleared"
      /\ Cleared(row[t]).name = 0 /\ Cleared(row[t]).contact = 0
      /\ MembershipEnded(t) /\ accepted[t] # 0 /\ accepted[t] \in Nat
      /\ RowFits(t, row[t], roles[t], accepted[t]) /\ row[t] \in Membership
      /\ row \in [Tenant -> Membership] /\ roles \in [Tenant -> Seq(Role)] /\ today \in Nat
      /\ RetentionTypeOK /\ RowOK(t) /\ OverBy(roles[t], today) /\ HasFields(row[t])
  BY OverIsCleared, OfRow DEF RetentionTypeOK, IsOver
<1>1. ASSUME NEW p \in OfferedPeriods, NEW states \in BOOLEAN, Accept(t, p, states)
      PROVE  Gone(t)
  <2>1. row'[t] = WriteProfile(t, ReopenedRow(t), states)
    BY <1>0, <1>1 DEF Accept, Exists
  <2>2. ReopenedRow(t) \in Membership
    BY Reopened
  <2>3. row'[t].name = accepted[t] + 1 /\ row'[t].contact \in {0, accepted[t] + 1}
    BY <1>0, <2>1, <2>2 DEF WriteProfile, Membership
  <2> QED BY <2>3 DEF Gone
<1>2. ASSUME NEW p \in OfferedPeriods, GrantRole(t, p) PROVE Gone(t)
  <2>1. row'[t] = ReopenedRow(t)
    BY <1>0, <1>2 DEF GrantRole
  <2>2. row'[t].name = 0 /\ row'[t].contact = 0
    BY <1>0, <2>1, Reopened
  <2> QED BY <2>2 DEF Gone
<1>3. ~SetDisplayName(t)
  BY <1>0 DEF SetDisplayName
<1>4. ASSUME NEW to \in {0, accepted[t]}, SetContactEmail(t, to) PROVE Gone(t)
  BY <1>0, <1>4 DEF SetContactEmail, MembershipEnded
<1>5. ASSUME NEW a \in DOMAIN roles[t], RevokeRole(t, a) PROVE Gone(t)
  <2> DEFINE rs == [roles[t] EXCEPT ![a].revokedOn = today]
  <2>1. roles'[t] = rs /\ UNCHANGED <<Aside, row>> /\ roles[t][a].revokedOn = NoDay
    BY <1>0, <1>5 DEF RevokeRole
  <2>2. OverBy(rs, today) /\ EndOf(rs) = EndOf(roles[t])
    <3>1. SomeRoles(roles[t])
      BY <1>0, RolesOfRow
    <3> QED BY <1>0, <2>1, <3>1, RevokedRoleEnd
  <2> HIDE DEF rs
  <2>3. today' = today /\ months' = months /\ row' = row
    BY <2>1 DEF Aside
  <2>4. IsOver(t)'
    BY <2>1, <2>2, <2>3 DEF IsOver, OverBy
  <2> QED BY <2>3, <2>4 DEF Gone
<1>6. ASSUME RevokeMembership(t) PROVE Gone(t)
  <2>1. row'[t] = RevokedRow(t) /\ row[t].revokedOn = NoDay
    BY <1>0, <1>6 DEF RevokeMembership
  <2>2. CutShort(t) = roles[t]
    BY <1>0, CutShortRoles
  <2>3. EffectiveKeepUntil(row[t].until, CutShort(t), NoDay) = NoDay
    BY <1>0, <2>1, <2>2 DEF Kept
  <2>4. RevokedRow(t) = [Cleared(row[t]) EXCEPT !.revokedOn = today]
    BY <1>0, <2>3 DEF RevokedRow
  <2>5. Cleared(row[t]) \in Membership
    BY <1>0, ClearedRow
  <2>6. row'[t].name = 0 /\ row'[t].contact = 0
    BY <1>0, <2>1, <2>4, <2>5 DEF Membership
  <2> QED BY <2>6 DEF Gone
<1>7. ASSUME Sweep(t) PROVE Gone(t)
  BY <1>0, <1>7 DEF Sweep, Gone
<1> QED BY <1>1, <1>2, <1>3, <1>4, <1>5, <1>6, <1>7

\* A setting that moves, an erasure that commits: a row that is over is cleared, missed or left.
LEMMA CommitsClear ==
  ASSUME IndInv, NEW t \in Tenant, IsOver(t), NEW j \in Job, NEW m \in Period,
         CommitSetRetention(j, m) \/ CommitErase(j)
  PROVE  Gone(t)
<1>0. /\ SettledRow(t) = Cleared(row[t]) /\ HasFields(row[t]) /\ ~row[t].erased
      /\ Cleared(row[t]).name = 0 /\ Cleared(row[t]).contact = 0 /\ m \in Nat
      /\ Cleared(row[t]) \in Membership
  BY OverIsCleared, OfRow, ClearedRow, RetentionAssumption DEF IsOver, RowFits, ChecksInv
<1>1. CASE CommitSetRetention(j, m) /\ t \in job[j].list
  <2>1. row'[t] = Recalculated(t, SettledFirst(t), m)
    BY <1>0, <1>1 DEF CommitSetRetention
  <2> QED BY <1>0, <2>1, RecalculatedFits DEF Gone
<1>2. CASE CommitSetRetention(j, m) /\ t \notin job[j].list
  <2>1. row'[t] = row[t] /\ t \in missed'
    BY <1>0, <1>2 DEF CommitSetRetention
  <2> QED BY <2>1 DEF Gone
<1>3. CASE CommitErase(j) /\ t \in job[j].list
  <2>1. row'[t] = ErasedRow(t)
    BY <1>3 DEF CommitErase
  <2>2. row'[t].name = 0 /\ row'[t].contact = 0
    BY <1>0, <2>1 DEF ErasedRow, Membership
  <2> QED BY <2>2 DEF Gone
<1>4. CASE CommitErase(j) /\ t \notin job[j].list
  <2>1. row'[t] = row[t] /\ UNCHANGED <<roles, months, today>>
    BY <1>4 DEF CommitErase
  <2> QED BY <2>1, LeftAlone
<1> QED BY <1>1, <1>2, <1>3, <1>4

\* A period that is over is never revived: by no return, no longer setting, no revocation and no
\* passing of days (reopen_profile, write_profile, set_retention_months).
THEOREM ExpiredStaysGone == Spec => ExpiredIsGone
<1>1. ASSUME IndInv, Next, NEW t \in Tenant, IsOver(t) PROVE Gone(t)
  <2>1. CASE \/ \E p \in OfferedPeriods, states \in BOOLEAN : Accept(t, p, states)
             \/ \E p \in OfferedPeriods : GrantRole(t, p)
             \/ SetDisplayName(t)
             \/ \E to \in {0, accepted[t]} : SetContactEmail(t, to)
             \/ \E a \in DOMAIN roles[t] : RevokeRole(t, a)
             \/ RevokeMembership(t)
             \/ Sweep(t)
    BY <1>1, <2>1, OwnStepsClear
  <2>2. ASSUME NEW u \in Tenant, u # t,
               \/ \E p \in OfferedPeriods, states \in BOOLEAN : Accept(u, p, states)
               \/ \E p \in OfferedPeriods : GrantRole(u, p)
               \/ SetDisplayName(u)
               \/ \E to \in {0, accepted[u]} : SetContactEmail(u, to)
               \/ \E a \in DOMAIN roles[u] : RevokeRole(u, a)
               \/ RevokeMembership(u)
               \/ Sweep(u)
        PROVE  Gone(t)
    <3>1. row'[t] = row[t] /\ roles'[t] = roles[t] /\ UNCHANGED Aside
      BY <1>1, <2>2
      DEF Accept, GrantRole, SetDisplayName, SetContactEmail, RevokeRole, RevokeMembership, Sweep,
          IndInv, RetentionTypeOK
    <3> QED BY <1>1, <3>1, LeftAlone DEF Aside
  <2>3. ASSUME NEW j \in Job, NEW m \in Period, CommitSetRetention(j, m) \/ CommitErase(j)
        PROVE  Gone(t)
    BY <1>1, <2>3, CommitsClear
  <2>4. ASSUME NEW j \in Job, CommitErase(j) PROVE Gone(t)
    BY <1>1, <2>4, CommitsClear, RetentionAssumption
  <2>5. ASSUME NEW j \in Job,
               BeginSetRetention(j) \/ BeginErase(j) \/ Lock(j) \/ RollBack(j)
        PROVE  Gone(t)
    <3>1. UNCHANGED <<row, roles, months, today>>
      BY <2>5 DEF BeginSetRetention, BeginErase, Lock, RollBack
    <3> QED BY <1>1, <3>1, LeftAlone
  <2>6. CASE Tick
    BY <1>1, <2>6, LeftAlone DEF Tick
  <2>7. Setter \subseteq Job /\ Eraser \subseteq Job
    BY DEF Job
  <2> QED BY <1>1, <2>1, <2>2, <2>3, <2>4, <2>5, <2>6, <2>7 DEF Next
<1>2. IndInv /\ IndInv' /\ [Next]_vars =>
        [\A t \in Tenant : Over(t) =>
           \A f \in {"name", "contact"} :
             \/ row'[t][f] \in {0, accepted[t] + 1}
             \/ row'[t][f] = row[t][f] /\ (Over(t)' \/ t \in missed')]_vars
  <2> SUFFICES ASSUME IndInv, IndInv', Next, NEW t \in Tenant, Over(t)
               PROVE  \A f \in {"name", "contact"} :
                        \/ row'[t][f] \in {0, accepted[t] + 1}
                        \/ row'[t][f] = row[t][f] /\ (Over(t)' \/ t \in missed')
    OBVIOUS
  <2>1. Gone(t)
    BY <1>1, OverIs DEF OverAgrees
  <2>2. Over(t)' <=> IsOver(t)'
    BY OverIsNext
  <2> QED BY <2>1, <2>2 DEF Gone
<1> QED BY <1>2, Inductive, PTL DEF Spec, ExpiredIsGone

=============================================================================
