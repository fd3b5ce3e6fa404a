-------------------------- MODULE MembershipProofs --------------------------
(***************************************************************************)
(* Theorems about Membership for every FAU: any number of people, rows,     *)
(* sweeps and acceptances in flight, any clock lag and any periods.         *)
(***************************************************************************)
EXTENDS Membership, FiniteSetTheorems, WellFoundedInduction, TLAPS

-----------------------------------------------------------------------------
(* The last-admin safeguard (AccessRules) is exact: the few days it samples *)
(* decide the question for every day, for any rows and any date.            *)

\* The least element of a set of days; domain/src/membership/access.rs looks for the
\* first uncovered one.
LEMMA LeastDay ==
  ASSUME NEW T \in SUBSET Nat, T # {}
  PROVE  \E m \in T : \A k \in T : m <= k
<1>1. \E m \in T : \A k \in T : ~(<<k, m>> \in OpToRel(<, Nat))
  BY NatLessThanWellFounded, WFMin, Zenon
<1>2. PICK m \in T : \A k \in T : ~(<<k, m>> \in OpToRel(<, Nat))
  BY <1>1
<1>3. ASSUME NEW k \in Nat, NEW n \in Nat, k < n
      PROVE  <<k, n>> \in OpToRel(<, Nat)
  <2>1. <<k, n>> \in Nat \X Nat /\ <<k, n>>[1] = k /\ <<k, n>>[2] = n
    OBVIOUS
  <2> QED BY <1>3, <2>1, Zenon DEF OpToRel
<1>4. \A k \in T : ~(k < m)
  BY <1>2, <1>3
<1>5. \A k \in T : m <= k
  BY <1>4
<1> QED BY <1>5

\* The views the rules are given: rows with non-empty periods of days, as the schema's
\* role_period_is_non_empty and Period::new guarantee.
AreViews(rows) == \A v \in rows : v.from \in Nat /\ v.to \in Nat /\ v.from < v.to

\* A day has an admin exactly when some unrevoked admin period contains it.
LEMMA CoveredByPeriod ==
  ASSUME NEW A, NEW G, AreViews(A), AreViews(G), NEW d \in Nat
  PROVE  TenantHasAdmin(A, G, d) <=> \E r \in AdminPeriods(A, G) : Contains(r, d)
BY DEF AreViews, TenantHasAdmin, AdminPeriods, ValidOn, Contains

\* An admin period is a nonempty range of days.
LEMMA PeriodType ==
  ASSUME NEW A, NEW G, AreViews(A), AreViews(G), NEW r \in AdminPeriods(A, G)
  PROVE  r.from \in Nat /\ r.to \in Nat /\ r.from < r.to
BY DEF AreViews, AdminPeriods

\* Where coverage drops between two days, a remaining period ends: the reason access.rs
\* gives for sampling the remaining ends only.
LEMMA DropIsAnEnd ==
  ASSUME NEW A, NEW G, AreViews(A), AreViews(G),
         NEW first \in Nat, NEW day \in Nat, first <= day,
         TenantHasAdmin(A, G, first), ~TenantHasAdmin(A, G, day)
  PROVE  \E r \in AdminPeriods(A, G) :
            first < r.to /\ r.to <= day /\ ~TenantHasAdmin(A, G, r.to)
<1> DEFINE T == {k \in Nat : first <= k /\ k <= day /\ ~TenantHasAdmin(A, G, k)}
<1>1. T \in SUBSET Nat /\ T # {}
  <2>1. day \in T
    OBVIOUS
  <2> QED BY <2>1
<1> HIDE DEF T
<1>2. PICK m \in T : \A k \in T : m <= k
  BY <1>1, LeastDay
<1>3. m \in Nat /\ first <= m /\ m <= day /\ ~TenantHasAdmin(A, G, m)
  BY <1>2 DEF T
<1>4. first # m
  BY <1>3
<1>5. m - 1 \in Nat /\ first <= m - 1 /\ m - 1 <= day /\ m - 1 < m
  BY <1>3, <1>4
<1>6. m - 1 \notin T
  BY <1>2, <1>3, <1>5
<1>7. TenantHasAdmin(A, G, m - 1)
  BY <1>5, <1>6 DEF T
<1>8. PICK r \in AdminPeriods(A, G) : Contains(r, m - 1)
  BY <1>5, <1>7, CoveredByPeriod
<1>9. ~Contains(r, m)
  BY <1>3, <1>8, CoveredByPeriod
<1>10. r.from \in Nat /\ r.to \in Nat
  BY <1>8, PeriodType
<1>11. r.to = m
  BY <1>3, <1>5, <1>8, <1>9, <1>10 DEF Contains
<1> QED BY <1>3, <1>4, <1>8, <1>11

\* removal_leaves_no_admin (domain/src/membership/access.rs) answers yes exactly when
\* some day from the one asked about on would lose its only admin, whatever rows it is given.
THEOREM SafeguardIsExact ==
  ASSUME NEW KA, NEW KG, NEW XA, NEW XG,
         AreViews(KA), AreViews(KG), AreViews(XA), AreViews(XG),
         NEW asked \in Nat
  PROVE  RemovalLeavesNoAdmin(KA, KG, XA, XG, asked)
           <=> LeavesGap(KA, KG, XA, XG, asked)
<1>1. ASSUME RemovalLeavesNoAdmin(KA, KG, XA, XG, asked)
      PROVE  LeavesGap(KA, KG, XA, XG, asked)
  <2> DEFINE first(p) == FirstRemainingDay(p, asked)
  <2>1. PICK p \in AdminPeriods(XA, XG) :
          /\ ~HasEndedBy(p, asked)
          /\ \/ ~TenantHasAdmin(KA, KG, first(p))
             \/ \E r \in AdminPeriods(KA, KG) :
                  first(p) < r.to /\ r.to < p.to /\ ~TenantHasAdmin(KA, KG, r.to)
    BY <1>1 DEF RemovalLeavesNoAdmin
  <2>2. p.from \in Nat /\ p.to \in Nat /\ p.from < p.to
    BY <2>1, PeriodType
  <2>3. \A d : (d \in Nat /\ d >= asked /\ Contains(p, d) /\ ~TenantHasAdmin(KA, KG, d))
                 => LeavesGap(KA, KG, XA, XG, asked)
    BY <2>1, <2>2 DEF LeavesGap, Contains
  <2>4. CASE ~TenantHasAdmin(KA, KG, first(p))
    <3>1. first(p) \in Nat /\ first(p) >= asked /\ Contains(p, first(p))
      BY <2>1, <2>2, <2>4 DEF FirstRemainingDay, HasEndedBy, Contains
    <3> QED BY <2>3, <2>4, <3>1
  <2>5. CASE \E r \in AdminPeriods(KA, KG) :
               first(p) < r.to /\ r.to < p.to /\ ~TenantHasAdmin(KA, KG, r.to)
    <3>1. PICK r \in AdminPeriods(KA, KG) :
            first(p) < r.to /\ r.to < p.to /\ ~TenantHasAdmin(KA, KG, r.to)
      BY <2>5
    <3>2. r.to \in Nat
      BY <3>1, PeriodType
    <3>3. r.to >= asked /\ Contains(p, r.to)
      BY <2>2, <3>1, <3>2 DEF FirstRemainingDay, Contains
    <3> QED BY <2>3, <3>1, <3>2, <3>3
  <2> QED BY <2>1, <2>4, <2>5
<1>2. ASSUME LeavesGap(KA, KG, XA, XG, asked)
      PROVE  RemovalLeavesNoAdmin(KA, KG, XA, XG, asked)
  <2>1. PICK p \in AdminPeriods(XA, XG) : \E day \in p.from .. p.to :
          day >= asked /\ Contains(p, day) /\ ~TenantHasAdmin(KA, KG, day)
    BY <1>2 DEF LeavesGap
  <2>2. p.from \in Nat /\ p.to \in Nat
    BY <2>1, PeriodType
  <2>3. PICK day \in p.from .. p.to :
          day >= asked /\ Contains(p, day) /\ ~TenantHasAdmin(KA, KG, day)
    BY <2>1
  <2>4. day \in Nat
    BY <2>2, <2>3
  <2> DEFINE first == FirstRemainingDay(p, asked)
  <2>5. first \in Nat /\ first <= day /\ ~HasEndedBy(p, asked)
    BY <2>2, <2>3, <2>4 DEF FirstRemainingDay, HasEndedBy, Contains
  <2>6. CASE ~TenantHasAdmin(KA, KG, first)
    BY <2>1, <2>5, <2>6 DEF RemovalLeavesNoAdmin
  <2>7. CASE TenantHasAdmin(KA, KG, first)
    <3>1. PICK r \in AdminPeriods(KA, KG) :
            first < r.to /\ r.to <= day /\ ~TenantHasAdmin(KA, KG, r.to)
      BY <2>3, <2>4, <2>5, <2>7, DropIsAnEnd
    <3>2. r.to < p.to
      BY <2>2, <2>3, <2>4, <3>1, PeriodType DEF Contains
    <3> QED BY <2>1, <2>5, <3>1, <3>2 DEF RemovalLeavesNoAdmin
  <2> QED BY <2>6, <2>7
<1> QED BY <1>1, <1>2

-----------------------------------------------------------------------------
(* The tables of one FAU.                                                   *)

USE DEF CapabilityClass

-----------------------------------------------------------------------------
(* The rows the transactions write. *)

\* The row GrantRole and AcceptInvitation insert is well-formed.
LEMMA NewAssignmentType ==
  ASSUME FauType, NEW p \in Person, NEW class \in CapabilityClass,
         NEW period \in [from : Nat, to : Nat], NEW via \in Invitation \cup {0}
  PROVE  NewAssignment(p, class, period, via) \in AssignmentRow
BY DEF FauType, NewAssignment, AssignmentRow, HasEndedBy

\* The row every way of issuing inserts is well-formed.
LEMMA NewInvitationType ==
  ASSUME FauType, NEW at \in Nat, NEW mode \in {"normal", "handover", "recovery", "activation"},
         NEW recipient \in Person, NEW issuer \in Person \cup {NoOne},
         NEW g \in Assignment \cup {0}, NEW r \in Request \cup {0},
         NEW class \in CapabilityClass, NEW period \in [from : Nat, to : Nat]
  PROVE  NewInvitation(at, mode, recipient, issuer, g, r, class, period) \in InvitationRow
BY NumberAssumption DEF FauType, NewInvitation, InvitationRow, SeatKind

\* Inserting a well-formed assignment under a new id keeps the tables well-formed.
LEMMA InsertAssignmentType ==
  ASSUME FauType, AssignmentType, GrantType,
         NEW a \in Fresh(assignment, Assignment),
         NEW p \in Person, NEW class \in CapabilityClass,
         NEW period \in [from : Nat, to : Nat], period.from < period.to,
         NEW via \in Invitation \cup {0},
         assignment' = Insert(assignment, a, NewAssignment(p, class, period, via))
  PROVE  /\ AssignmentType'
         /\ DOMAIN assignment \subseteq DOMAIN assignment'
         /\ \A b \in DOMAIN assignment : assignment'[b] = assignment[b]
<1>1. a \in Assignment /\ a \notin DOMAIN assignment
  BY DEF Fresh
<1>2. NewAssignment(p, class, period, via) \in AssignmentRow
  BY NewAssignmentType
<1>3. /\ NewAssignment(p, class, period, via).from = period.from
      /\ NewAssignment(p, class, period, via).to = period.to
  BY DEF NewAssignment
<1>4. /\ DOMAIN assignment' = DOMAIN assignment \cup {a}
      /\ assignment'[a] = NewAssignment(p, class, period, via)
      /\ \A b \in DOMAIN assignment : b # a => assignment'[b] = assignment[b]
  BY DEF Insert
<1> QED BY <1>1, <1>2, <1>3, <1>4 DEF AssignmentType

\* The same for an invitation.
LEMMA InsertInvitationType ==
  ASSUME InvitationType,
         NEW i \in Fresh(invitation, Invitation), NEW row \in InvitationRow,
         row.from < row.to,
         invitation' = Insert(invitation, i, row), UNCHANGED accepting
  PROVE  InvitationType'
<1>1. i \in Invitation /\ i \notin DOMAIN invitation
  BY DEF Fresh
<1>2. /\ DOMAIN invitation' = DOMAIN invitation \cup {i}
      /\ invitation'[i] = row
      /\ \A j \in DOMAIN invitation : j # i => invitation'[j] = invitation[j]
  BY DEF Insert
<1> QED BY <1>1, <1>2 DEF InvitationType

\* Revoking assignments and grants touches nothing but the revoked mark.
LEMMA RevokeFacts ==
  ASSUME AssignmentType, GrantType, NEW A, NEW G,
         assignment' = RevokeAssignments(A), grant' = RevokeGrants(G)
  PROVE  /\ AssignmentType' /\ GrantType'
         /\ DOMAIN assignment' = DOMAIN assignment /\ DOMAIN grant' = DOMAIN grant
         /\ \A a \in DOMAIN assignment :
              /\ assignment'[a].holder = assignment[a].holder
              /\ assignment'[a].capability = assignment[a].capability
              /\ assignment'[a].from = assignment[a].from
              /\ assignment'[a].to = assignment[a].to
              /\ assignment'[a].tenure = assignment[a].tenure
              /\ assignment'[a].via = assignment[a].via
              /\ a \in A => assignment'[a].revoked
              /\ a \notin A => assignment'[a] = assignment[a]
         /\ \A g \in DOMAIN grant :
              /\ g \in G => grant'[g].revoked
              /\ g \notin G => grant'[g] = grant[g]
<1>1. /\ DOMAIN assignment' = DOMAIN assignment
      /\ \A a \in DOMAIN assignment :
           assignment'[a] = IF a \in A THEN [assignment[a] EXCEPT !.revoked = TRUE]
                                       ELSE assignment[a]
  BY DEF RevokeAssignments
<1>2. /\ DOMAIN grant' = DOMAIN grant
      /\ \A g \in DOMAIN grant :
           grant'[g] = IF g \in G THEN [grant[g] EXCEPT !.revoked = TRUE] ELSE grant[g]
  BY DEF RevokeGrants
<1>3. \A a \in DOMAIN assignment :
         /\ assignment'[a] \in AssignmentRow
         /\ assignment'[a].holder = assignment[a].holder
         /\ assignment'[a].capability = assignment[a].capability
         /\ assignment'[a].from = assignment[a].from
         /\ assignment'[a].to = assignment[a].to
         /\ assignment'[a].tenure = assignment[a].tenure
         /\ assignment'[a].via = assignment[a].via
         /\ a \in A => assignment'[a].revoked
         /\ a \notin A => assignment'[a] = assignment[a]
  <2> SUFFICES ASSUME NEW a \in DOMAIN assignment
               PROVE  /\ assignment'[a] \in AssignmentRow
                      /\ assignment'[a].holder = assignment[a].holder
                      /\ assignment'[a].capability = assignment[a].capability
                      /\ assignment'[a].from = assignment[a].from
                      /\ assignment'[a].to = assignment[a].to
                      /\ assignment'[a].tenure = assignment[a].tenure
                      /\ assignment'[a].via = assignment[a].via
                      /\ a \in A => assignment'[a].revoked
                      /\ a \notin A => assignment'[a] = assignment[a]
    OBVIOUS
  <2>1. assignment[a] \in AssignmentRow
    BY DEF AssignmentType
  <2>2. CASE a \in A
    <3>1. assignment'[a] = [assignment[a] EXCEPT !.revoked = TRUE]
      BY <1>1, <2>2
    <3> QED BY <2>1, <2>2, <3>1 DEF AssignmentRow
  <2>3. CASE a \notin A
    BY <1>1, <2>1, <2>3
  <2> QED BY <2>2, <2>3
<1>4. \A g \in DOMAIN grant :
         /\ grant'[g] \in GrantRow
         /\ grant'[g].from = grant[g].from
         /\ grant'[g].to = grant[g].to
         /\ g \in G => grant'[g].revoked
         /\ g \notin G => grant'[g] = grant[g]
  BY <1>2 DEF GrantType, GrantRow
<1> QED BY <1>1, <1>2, <1>3, <1>4 DEF AssignmentType, GrantType

-----------------------------------------------------------------------------
(* The inductive invariant. *)

\* An invitation that a role came from is spent; without this InvitationUsedOnce is not
\* inductive.
UsedInvitationIsAccepted ==
  \A a \in DOMAIN assignment :
    assignment[a].via # 0 =>
      /\ assignment[a].via \in DOMAIN invitation
      /\ invitation[assignment[a].via].status = "accepted"

IndInv ==
  /\ TypeOK
  /\ LiveGrantHasLiveSource
  /\ FormerTenureIsInert
  /\ UsedInvitationIsAccepted
  /\ InvitationUsedOnce

\* The part that reads memberships, assignments and grants.
RightsInv ==
  /\ FauType /\ AssignmentType /\ GrantType
  /\ LiveGrantHasLiveSource /\ FormerTenureIsInert

\* The part that ties assignments to invitations.
OriginInv == InvitationType /\ UsedInvitationIsAccepted /\ InvitationUsedOnce

\* The invariant is its three parts.
LEMMA IndInvParts == IndInv <=> RightsInv /\ OriginInv /\ RequestType
BY DEF IndInv, RightsInv, OriginInv, TypeOK

\* The three parts after a step give the invariant after it.
LEMMA IndInvPrimed == RightsInv' /\ OriginInv' /\ RequestType' => IndInv'
BY DEF IndInv, RightsInv, OriginInv, TypeOK

\* Steps that leave a part's variables alone keep it.
LEMMA RightsUnchanged ==
  ASSUME RightsInv, UNCHANGED <<today, tenant, account, membership, tenure, assignment,
                                grant, seat, sweeping>>
  PROVE  RightsInv'
BY DEF RightsInv, FauType, AssignmentType, GrantType, LiveGrantHasLiveSource,
       FormerTenureIsInert

\* The same for the part about invitations.
LEMMA OriginUnchanged ==
  ASSUME OriginInv, UNCHANGED <<assignment, invitation, accepting>>
  PROVE  OriginInv'
BY DEF OriginInv, InvitationType, UsedInvitationIsAccepted, InvitationUsedOnce

\* The same for the requests.
LEMMA RequestUnchanged ==
  ASSUME RequestType, UNCHANGED request
  PROVE  RequestType'
BY DEF RequestType

\* A freshly issued invitation keeps the second part.
LEMMA IssueKeepsOrigin ==
  ASSUME OriginInv, NEW i \in Fresh(invitation, Invitation), NEW row \in InvitationRow,
         row.from < row.to, invitation' = Insert(invitation, i, row),
         UNCHANGED <<assignment, accepting>>
  PROVE  OriginInv'
<1>1. InvitationType'
  BY InsertInvitationType DEF OriginInv
<1>2. /\ i \notin DOMAIN invitation
      /\ \A j \in DOMAIN invitation : j \in DOMAIN invitation' /\ invitation'[j] = invitation[j]
  BY DEF Fresh, Insert
<1> QED BY <1>1, <1>2 DEF OriginInv, UsedInvitationIsAccepted, InvitationUsedOnce

\* A changed invitation that was not accepted keeps the second part.
LEMMA ChangeKeepsOrigin ==
  ASSUME OriginInv, NEW i \in DOMAIN invitation, invitation[i].status # "accepted",
         NEW row \in InvitationRow, row.from < row.to,
         invitation' = [invitation EXCEPT ![i] = row],
         UNCHANGED <<assignment, accepting>>
  PROVE  OriginInv'
<1>1. /\ DOMAIN invitation' = DOMAIN invitation
      /\ invitation'[i] = row
      /\ \A j \in DOMAIN invitation : j # i => invitation'[j] = invitation[j]
  OBVIOUS
<1>2. InvitationType'
  BY <1>1 DEF OriginInv, InvitationType
<1> QED BY <1>1, <1>2 DEF OriginInv, UsedInvitationIsAccepted, InvitationUsedOnce

\* A new assignment of the holder's present tenure keeps the first part, whether or not
\* it reopens the membership.
LEMMA GrantKeepsRights ==
  ASSUME RightsInv,
         NEW a \in Fresh(assignment, Assignment),
         NEW p \in Person, NEW class \in CapabilityClass,
         NEW period \in [from : Nat, to : Nat], period.from < period.to,
         NEW via \in Invitation \cup {0},
         assignment' = Insert(assignment, a, NewAssignment(p, class, period, via)),
         UNCHANGED membership \/ membership' = [membership EXCEPT ![p] = "active"],
         UNCHANGED account \/ account' = [account EXCEPT ![p] = "usable"],
         UNCHANGED <<today, tenant, tenure, grant, seat, sweeping>>
  PROVE  RightsInv'
<1>1. /\ a \notin DOMAIN assignment
      /\ DOMAIN assignment' = DOMAIN assignment \cup {a}
      /\ assignment'[a] = NewAssignment(p, class, period, via)
      /\ \A b \in DOMAIN assignment : assignment'[b] = assignment[b]
  BY DEF Fresh, Insert
<1>2. AssignmentType'
  BY InsertAssignmentType DEF RightsInv
<1>3. FauType' /\ GrantType'
  BY <1>1 DEF RightsInv, FauType, GrantType
<1>4. \A q \in Person : membership[q] = "active" => membership'[q] = "active"
  BY DEF RightsInv, FauType
<1>5. LiveGrantHasLiveSource'
  BY <1>1, <1>4 DEF RightsInv, LiveGrantHasLiveSource, GrantType, AssignmentType, AssignmentRow
<1>6. assignment'[a].holder = p /\ assignment'[a].tenure = tenure[p]
  BY <1>1 DEF NewAssignment
<1>7. FormerTenureIsInert'
  BY <1>1, <1>6 DEF RightsInv, FormerTenureIsInert, FauType, HasEndedBy, HandoverPeriod
<1> QED BY <1>2, <1>3, <1>5, <1>7 DEF RightsInv

-----------------------------------------------------------------------------
(* Every step keeps it. *)

LEMMA AtIsADay ==
  ASSUME FauType, NEW at \in AtDays
  PROVE  at \in Nat /\ at <= today
BY DEF FauType, AtDays

\* A period a form offers ends after it begins.
LEMMA OfferedPeriodType ==
  ASSUME NEW period \in OfferedPeriods
  PROVE  period \in [from : Nat, to : Nat] /\ period.from < period.to
BY PeriodAssumption

\* A role a form offers has a known capability class.
LEMMA OfferedClassType ==
  ASSUME NEW class \in OfferedClasses
  PROVE  class \in CapabilityClass
BY PeriodAssumption

\* Zero, the id of nothing, names no row.
LEMMA NoIdIsZero == 0 \notin Assignment /\ 0 \notin Invitation /\ 0 \notin Request
BY IdAssumption

\* Granting a role inserts one assignment to an active member.
LEMMA GrantRoleStep ==
  ASSUME IndInv, NEW at \in AtDays, NEW actor \in Person, NEW p \in Person,
         NEW class \in OfferedClasses, NEW period \in OfferedPeriods,
         GrantRole(at, actor, p, class, period)
  PROVE  IndInv'
<1>1. PICK a \in Fresh(assignment, Assignment) :
        assignment' = Insert(assignment, a, NewAssignment(p, class, period, 0))
  BY DEF GrantRole
<1>2. UNCHANGED <<today, tenant, account, membership, tenure, grant,
                  invitation, accepting, request, seat, sweeping>>
  BY DEF GrantRole
<1>3. RightsInv'
  BY <1>1, <1>2, GrantKeepsRights, IndInvParts, OfferedPeriodType, OfferedClassType
<1>4. /\ DOMAIN assignment' = DOMAIN assignment \cup {a}
      /\ assignment'[a].via = 0
      /\ \A b \in DOMAIN assignment : b # a => assignment'[b] = assignment[b]
  BY <1>1 DEF Insert, NewAssignment
<1>5. OriginInv'
  BY <1>2, <1>4, IndInvParts DEF OriginInv, InvitationType, UsedInvitationIsAccepted, InvitationUsedOnce
<1> QED BY <1>2, <1>3, <1>5, IndInvParts, IndInvPrimed, RequestUnchanged

\* Revoking an assignment revokes the grant that rests on it in the same transaction.
LEMMA RevokeRoleAssignmentStep ==
  ASSUME IndInv, NEW at \in AtDays, NEW actor \in Person, NEW a \in Assignment,
         NEW confirm \in BOOLEAN, RevokeRoleAssignment(at, actor, a, confirm)
  PROVE  IndInv'
<1>1. assignment' = RevokeAssignments({a}) /\ grant' = RevokeGrants({a})
  BY DEF RevokeRoleAssignment, RevokeOneAssignment
<1>2. UNCHANGED <<today, tenant, account, membership, tenure,
                  invitation, accepting, request, seat, sweeping>>
  BY DEF RevokeRoleAssignment
<1>3. AssignmentType /\ GrantType /\ FauType
  BY DEF IndInv, TypeOK
<1>4. /\ AssignmentType' /\ GrantType'
      /\ DOMAIN assignment' = DOMAIN assignment /\ DOMAIN grant' = DOMAIN grant
      /\ \A b \in DOMAIN assignment :
           /\ assignment'[b].holder = assignment[b].holder
           /\ assignment'[b].capability = assignment[b].capability
           /\ assignment'[b].to = assignment[b].to
           /\ assignment'[b].tenure = assignment[b].tenure
           /\ assignment'[b].via = assignment[b].via
           /\ b \in {a} => assignment'[b].revoked
           /\ b \notin {a} => assignment'[b] = assignment[b]
      /\ \A g \in DOMAIN grant :
           /\ g \in {a} => grant'[g].revoked
           /\ g \notin {a} => grant'[g] = grant[g]
  BY <1>1, <1>3, RevokeFacts
<1>5. LiveGrantHasLiveSource'
  BY <1>2, <1>3, <1>4 DEF IndInv, LiveGrantHasLiveSource, GrantType
<1>6. FormerTenureIsInert'
  BY <1>2, <1>4 DEF IndInv, FormerTenureIsInert, HasEndedBy, HandoverPeriod
<1>7. RightsInv'
  BY <1>2, <1>3, <1>4, <1>5, <1>6 DEF RightsInv, FauType
<1>8. OriginInv'
  BY <1>2, <1>4, IndInvParts DEF OriginInv, InvitationType, UsedInvitationIsAccepted, InvitationUsedOnce
<1> QED BY <1>2, <1>7, <1>8, IndInvParts, IndInvPrimed, RequestUnchanged

\* Revoking a membership ends its assignments, its grants and what it issued or asked for.
LEMMA RevokeMembershipStep ==
  ASSUME IndInv, NEW at \in AtDays, NEW actor \in Person, NEW p \in Person,
         NEW confirm \in BOOLEAN, RevokeMembership(at, actor, p, confirm)
  PROVE  IndInv'
<1> DEFINE gone == StillConferring(p, at)
<1>1. /\ assignment' = RevokeAssignments(gone) /\ grant' = RevokeGrants(Held(p))
      /\ membership' = [membership EXCEPT ![p] = "revoked"]
      /\ tenure' = [tenure EXCEPT ![p] = @ + 1]
      /\ request' = WithdrawPendingRequests(p)
      /\ UNCHANGED <<today, tenant, account, invitation, accepting, seat, sweeping>>
  BY DEF RevokeMembership
<1>2. AssignmentType /\ GrantType /\ FauType /\ RequestType /\ at \in Nat /\ at <= today
  BY AtIsADay DEF IndInv, TypeOK
<1>3. /\ AssignmentType' /\ GrantType'
      /\ DOMAIN assignment' = DOMAIN assignment /\ DOMAIN grant' = DOMAIN grant
      /\ \A b \in DOMAIN assignment :
           /\ assignment'[b].holder = assignment[b].holder
           /\ assignment'[b].capability = assignment[b].capability
           /\ assignment'[b].to = assignment[b].to
           /\ assignment'[b].tenure = assignment[b].tenure
           /\ assignment'[b].via = assignment[b].via
           /\ b \in gone => assignment'[b].revoked
           /\ b \notin gone => assignment'[b] = assignment[b]
      /\ \A g \in DOMAIN grant :
           /\ g \in Held(p) => grant'[g].revoked
           /\ g \notin Held(p) => grant'[g] = grant[g]
  BY <1>1, <1>2, RevokeFacts
<1>4. FauType'
  BY <1>1, <1>2 DEF FauType
<1>5. \A q \in Person : q # p => membership'[q] = membership[q] /\ tenure'[q] = tenure[q]
  BY <1>1, <1>2 DEF FauType
<1>6. \A b \in DOMAIN assignment : assignment[b].holder \in Person /\ assignment[b].to \in Nat
  BY <1>2 DEF AssignmentType, AssignmentRow
<1>7. gone \subseteq Held(p)
  BY DEF StillConferring
<1>8. LiveGrantHasLiveSource'
  <2> SUFFICES ASSUME NEW g \in DOMAIN grant', ~grant'[g].revoked
               PROVE  /\ assignment'[g].capability = "admin"
                      /\ ~assignment'[g].revoked
                      /\ membership'[assignment'[g].holder] = "active"
    BY DEF LiveGrantHasLiveSource
  <2>1. g \in DOMAIN grant /\ g \in DOMAIN assignment /\ g \notin Held(p)
    BY <1>2, <1>3 DEF GrantType
  <2>2. assignment[g].holder # p /\ g \notin gone
    BY <1>7, <2>1 DEF Held
  <2> QED BY <1>3, <1>5, <1>6, <2>1, <2>2 DEF IndInv, LiveGrantHasLiveSource
<1>9. FormerTenureIsInert'
  <2> SUFFICES ASSUME NEW a \in DOMAIN assignment',
                      assignment'[a].tenure < tenure'[assignment'[a].holder],
                      ~assignment'[a].revoked
               PROVE  /\ HasEndedBy(assignment'[a], today')
                      /\ assignment'[a].capability = "admin" =>
                           HasEndedBy(HandoverPeriod(assignment'[a].to), today')
    BY DEF FormerTenureIsInert
  <2>1. a \in DOMAIN assignment /\ a \notin gone /\ assignment'[a] = assignment[a]
    BY <1>3
  <2>2. CASE assignment[a].holder = p
    <3>1. /\ HasEndedBy(assignment[a], at)
          /\ assignment[a].capability = "admin" =>
               HasEndedBy(HandoverPeriod(assignment[a].to), at)
      BY <2>1, <2>2 DEF StillConferring, Held
    <3> QED BY <1>1, <1>2, <1>6, <2>1, <3>1, NumberAssumption
            DEF HasEndedBy, HandoverPeriod, FauType
  <2>3. CASE assignment[a].holder # p
    BY <1>1, <1>5, <1>6, <2>1, <2>3 DEF IndInv, FormerTenureIsInert
  <2> QED BY <2>2, <2>3
<1>10. RightsInv'
  BY <1>3, <1>4, <1>8, <1>9 DEF RightsInv
<1>11. OriginInv'
  BY <1>1, <1>3, IndInvParts DEF OriginInv, InvitationType, UsedInvitationIsAccepted, InvitationUsedOnce
<1>12. RequestType'
  BY <1>1, <1>2 DEF RequestType, RequestRow, WithdrawPendingRequests
<1> QED BY <1>10, <1>11, <1>12, IndInvParts, IndInvPrimed

\* The sweep grants only on assignments that are live when its transaction runs.
LEMMA SweepTenantStep ==
  ASSUME IndInv, NEW at \in sweeping, SweepTenant(at)
  PROVE  IndInv'
<1> DEFINE new == IF tenant.status = "active" THEN HandoverCandidates(at) ELSE {}
<1>1. /\ sweeping' = sweeping \ {at}
      /\ grant' = [g \in DOMAIN grant \cup new |->
                     IF g \in new THEN HandoverGrant(g) ELSE grant[g]]
      /\ UNCHANGED <<today, tenant, account, membership, tenure, assignment,
                     invitation, accepting, request, seat>>
  BY DEF SweepTenant
<1>2. AssignmentType /\ GrantType /\ FauType
  BY DEF IndInv, TypeOK
<1>3. \A g \in new : /\ g \in DOMAIN assignment
                     /\ assignment[g].capability = "admin"
                     /\ ~assignment[g].revoked
                     /\ membership[assignment[g].holder] = "active"
  BY DEF HandoverCandidates, Usable
<1>4. \A g \in new : HandoverGrant(g) \in GrantRow /\ HandoverGrant(g).from < HandoverGrant(g).to
  BY <1>2, <1>3, NumberAssumption
  DEF HandoverGrant, HandoverPeriod, GrantRow, AssignmentType, AssignmentRow
<1> HIDE DEF new
<1>5. /\ DOMAIN grant' = DOMAIN grant \cup new
      /\ \A g \in new : grant'[g] = HandoverGrant(g)
      /\ \A g \in DOMAIN grant : g \notin new => grant'[g] = grant[g]
  BY <1>1
<1>6. GrantType'
  BY <1>1, <1>2, <1>3, <1>4, <1>5 DEF GrantType
<1>7. LiveGrantHasLiveSource'
  BY <1>1, <1>3, <1>5 DEF IndInv, LiveGrantHasLiveSource
<1>8. FauType' /\ AssignmentType' /\ FormerTenureIsInert'
  BY <1>1, <1>2 DEF FauType, AssignmentType, IndInv, FormerTenureIsInert
<1> QED BY <1>1, <1>6, <1>7, <1>8, IndInvParts, IndInvPrimed, OriginUnchanged, RequestUnchanged DEF RightsInv

\* Issuing an invitation adds a pending one and touches no right.
LEMMA IssueInvitationStep ==
  ASSUME IndInv, NEW at \in AtDays, NEW actor \in Person, NEW recipient \in Person,
         NEW class \in OfferedClasses, NEW period \in OfferedPeriods,
         IssueInvitation(at, actor, recipient, class, period)
  PROVE  IndInv'
<1> DEFINE row == NewInvitation(at, "normal", recipient, actor, 0, 0, class, period)
<1>1. PICK i \in Fresh(invitation, Invitation) : invitation' = Insert(invitation, i, row)
  BY DEF IssueInvitation
<1>2. UNCHANGED <<today, tenant, account, membership, tenure, assignment, grant,
                  accepting, seat, sweeping>>
  BY DEF IssueInvitation
<1>3. FauType /\ RequestType /\ at \in Nat
  BY AtIsADay DEF IndInv, TypeOK
<1>4. row \in InvitationRow
  BY <1>3, NewInvitationType, OfferedPeriodType, OfferedClassType
<1>5. row.from < row.to
  BY OfferedPeriodType DEF NewInvitation
<1>6. OriginInv'
  BY <1>1, <1>2, <1>4, <1>5, IssueKeepsOrigin, IndInvParts
<1>7. RequestType'
  BY <1>3 DEF IssueInvitation, RequestType, CloseRequest, RequestRow
<1> QED BY <1>2, <1>6, <1>7, IndInvParts, IndInvPrimed, RightsUnchanged

\* Issuing on a handover grant adds a pending invitation.
LEMMA IssueHandoverInvitationStep ==
  ASSUME IndInv, NEW at \in AtDays, NEW actor \in Person, NEW recipient \in Person,
         NEW g \in Assignment, NEW class \in OfferedClasses, NEW period \in OfferedPeriods,
         IssueHandoverInvitation(at, actor, g, recipient, class, period)
  PROVE  IndInv'
<1> DEFINE row == NewInvitation(at, "handover", recipient, actor, g, 0, class, period)
<1>1. PICK i \in Fresh(invitation, Invitation) : invitation' = Insert(invitation, i, row)
  BY DEF IssueHandoverInvitation
<1>2. UNCHANGED <<today, tenant, account, membership, tenure, assignment, grant,
                  accepting, seat, sweeping>>
  BY DEF IssueHandoverInvitation
<1>3. FauType /\ RequestType /\ at \in Nat
  BY AtIsADay DEF IndInv, TypeOK
<1>4. row \in InvitationRow
  BY <1>3, NewInvitationType, OfferedPeriodType, OfferedClassType
<1>5. row.from < row.to
  BY OfferedPeriodType DEF NewInvitation
<1>6. OriginInv'
  BY <1>1, <1>2, <1>4, <1>5, IssueKeepsOrigin, IndInvParts
<1>7. RequestType'
  BY <1>3 DEF IssueHandoverInvitation, RequestType, CloseRequest, RequestRow
<1> QED BY <1>2, <1>6, <1>7, IndInvParts, IndInvPrimed, RightsUnchanged

\* The operator's recovery adds a pending invitation.
LEMMA RecoveryGrantAdminStep ==
  ASSUME IndInv, NEW at \in AtDays, NEW recipient \in Person, NEW period \in OfferedPeriods,
         RecoveryGrantAdmin(at, recipient, period)
  PROVE  IndInv'
<1> DEFINE row == NewInvitation(at, "recovery", recipient, NoOne, 0, 0, "admin", period)
<1>1. PICK i \in Fresh(invitation, Invitation) : invitation' = Insert(invitation, i, row)
  BY DEF RecoveryGrantAdmin
<1>2. UNCHANGED <<today, tenant, account, membership, tenure, assignment, grant,
                  accepting, seat, sweeping>>
  BY DEF RecoveryGrantAdmin
<1>3. FauType /\ RequestType /\ at \in Nat
  BY AtIsADay DEF IndInv, TypeOK
<1>4. row \in InvitationRow
  BY <1>3, NewInvitationType, OfferedPeriodType, OfferedClassType
<1>5. row.from < row.to
  BY OfferedPeriodType DEF NewInvitation
<1>6. OriginInv'
  BY <1>1, <1>2, <1>4, <1>5, IssueKeepsOrigin, IndInvParts
<1>7. RequestType'
  BY <1>3 DEF RecoveryGrantAdmin, RequestType, CloseRequest, RequestRow
<1> QED BY <1>2, <1>6, <1>7, IndInvParts, IndInvPrimed, RightsUnchanged

\* Approving a request closes it and adds a pending invitation.
LEMMA ApproveRequestStep ==
  ASSUME IndInv, NEW at \in AtDays, NEW actor \in Person, NEW r \in Request,
         NEW class \in OfferedClasses, NEW period \in OfferedPeriods,
         ApproveRequest(at, actor, r, class, period)
  PROVE  IndInv'
<1> DEFINE row == NewInvitation(at, "normal", request[r].invitee, actor, 0, r, class, period)
<1>1. PICK i \in Fresh(invitation, Invitation) : invitation' = Insert(invitation, i, row)
  BY DEF ApproveRequest
<1>2. UNCHANGED <<today, tenant, account, membership, tenure, assignment, grant,
                  accepting, seat, sweeping>>
  BY DEF ApproveRequest
<1>3. FauType /\ RequestType /\ at \in Nat
  BY AtIsADay DEF IndInv, TypeOK
<1>4. row \in InvitationRow
  BY <1>3, NewInvitationType, OfferedPeriodType, OfferedClassType DEF ApproveRequest, LockPendingRequest, RequestType, RequestRow
<1>5. row.from < row.to
  BY OfferedPeriodType DEF NewInvitation
<1>6. OriginInv'
  BY <1>1, <1>2, <1>4, <1>5, IssueKeepsOrigin, IndInvParts
<1>7. RequestType'
  BY <1>3 DEF ApproveRequest, RequestType, CloseRequest, RequestRow
<1> QED BY <1>2, <1>6, <1>7, IndInvParts, IndInvPrimed, RightsUnchanged

\* Resending replaces a pending invitation by another.
LEMMA ResendInvitationStep ==
  ASSUME IndInv, NEW at \in AtDays, NEW actor \in Person, NEW i \in Invitation,
         ResendInvitation(at, actor, i)
  PROVE  IndInv'
<1> DEFINE row == [invitation[i] EXCEPT !.token = @ + 1, !.expires = at + InvitationDays]
<1>1. i \in DOMAIN invitation /\ invitation[i].status # "accepted"
  BY DEF ResendInvitation
<1>2. invitation' = [invitation EXCEPT ![i] = row]
  BY DEF ResendInvitation
<1>3. UNCHANGED <<today, tenant, account, membership, tenure, assignment, grant,
                  accepting, request, seat, sweeping>>
  BY DEF ResendInvitation
<1>4. at \in Nat /\ invitation[i] \in InvitationRow /\ invitation[i].from < invitation[i].to
  BY <1>1, AtIsADay DEF IndInv, TypeOK, InvitationType
<1>5. row \in InvitationRow /\ row.from < row.to
  <2> DEFINE token == invitation[i].token + 1
             expires == at + InvitationDays
  <2>1. token \in Nat /\ expires \in Nat
    BY <1>4, NumberAssumption DEF InvitationRow
  <2>2. row = [invitation[i] EXCEPT !.token = token, !.expires = expires]
    OBVIOUS
  <2> HIDE DEF token, expires
  <2> QED BY <1>4, <2>1, <2>2 DEF InvitationRow
<1>6. OriginInv'
  BY <1>1, <1>2, <1>3, <1>5, ChangeKeepsOrigin, IndInvParts
<1> QED BY <1>3, <1>6, IndInvParts, IndInvPrimed, RightsUnchanged, RequestUnchanged

\* Withdrawing ends a pending invitation, never a used one.
LEMMA WithdrawInvitationStep ==
  ASSUME IndInv, NEW at \in AtDays, NEW actor \in Person, NEW i \in Invitation,
         WithdrawInvitation(at, actor, i)
  PROVE  IndInv'
<1> DEFINE row == [invitation[i] EXCEPT !.status = "revoked"]
<1>1. i \in DOMAIN invitation /\ invitation[i].status # "accepted"
  BY DEF WithdrawInvitation
<1>2. invitation' = [invitation EXCEPT ![i] = row]
  BY DEF WithdrawInvitation
<1>3. UNCHANGED <<today, tenant, account, membership, tenure, assignment, grant,
                  accepting, request, seat, sweeping>>
  BY DEF WithdrawInvitation
<1>4. invitation[i] \in InvitationRow /\ invitation[i].from < invitation[i].to
  BY <1>1 DEF IndInv, TypeOK, InvitationType
<1>5. row \in InvitationRow /\ row.from < row.to
  BY <1>4 DEF InvitationRow
<1>6. OriginInv'
  BY <1>1, <1>2, <1>3, <1>5, ChangeKeepsOrigin, IndInvParts
<1> QED BY <1>3, <1>6, IndInvParts, IndInvPrimed, RightsUnchanged, RequestUnchanged

\* Opening the link remembers the token; nothing is used up.
LEMMA PrepareAcceptanceStep ==
  ASSUME IndInv, NEW i \in Invitation, PrepareAcceptance(i)
  PROVE  IndInv'
<1>1. /\ i \in DOMAIN invitation
      /\ accepting' = accepting \cup
           {[inv |-> i, token |-> invitation[i].token,
             fresh |-> membership[invitation[i].recipient] = "none"]}
      /\ UNCHANGED <<today, tenant, account, membership, tenure, assignment, grant,
                     invitation, request, seat, sweeping>>
  BY DEF PrepareAcceptance
<1>2. invitation[i].token \in Nat
  BY <1>1 DEF IndInv, TypeOK, InvitationType, InvitationRow
<1>3. InvitationType'
  <2> DEFINE fresh == membership[invitation[i].recipient] = "none"
             new == [inv |-> i, token |-> invitation[i].token, fresh |-> fresh]
  <2>1. fresh \in BOOLEAN
    BY Zenon
  <2> HIDE DEF fresh
  <2>2. new \in [inv : DOMAIN invitation, token : Nat, fresh : BOOLEAN]
    BY <1>1, <1>2, <2>1
  <2>3. accepting' = accepting \cup {new}
    BY <1>1 DEF fresh
  <2> HIDE DEF new
  <2> QED BY <1>1, <2>2, <2>3 DEF IndInv, TypeOK, InvitationType
<1>4. OriginInv'
  BY <1>1, <1>3 DEF OriginInv, IndInv, UsedInvitationIsAccepted, InvitationUsedOnce
<1> QED BY <1>1, <1>4, IndInvParts, IndInvPrimed, RightsUnchanged, RequestUnchanged

\* An acceptance that is never confirmed leaves nothing behind.
LEMMA DropAcceptanceStep ==
  ASSUME IndInv, NEW q \in accepting, DropAcceptance(q)
  PROVE  IndInv'
<1>1. /\ accepting' \subseteq accepting
      /\ UNCHANGED <<today, tenant, account, membership, tenure, assignment, grant,
                     invitation, request, seat, sweeping>>
  BY DEF DropAcceptance
<1>2. OriginInv'
  BY <1>1 DEF OriginInv, IndInv, TypeOK, InvitationType, UsedInvitationIsAccepted, InvitationUsedOnce
<1> QED BY <1>1, <1>2, IndInvParts, IndInvPrimed, RightsUnchanged, RequestUnchanged

\* Acceptance uses the invitation up and inserts its one assignment together.
LEMMA AcceptInvitationStep ==
  ASSUME IndInv, NEW at \in AtDays, NEW q \in accepting, NEW end \in Nat,
         AcceptInvitation(at, q, end)
  PROVE  IndInv'
<1> DEFINE p == invitation[q.inv].recipient
           period == AcceptedPeriod(q.inv, end)
           class == invitation[q.inv].capability
           row == [invitation[q.inv] EXCEPT !.status = "accepted"]
<1>1. /\ q.inv \in DOMAIN invitation
      /\ invitation[q.inv] \in InvitationRow
      /\ invitation[q.inv].from < invitation[q.inv].to
      /\ q.inv \in Invitation /\ q.inv # 0
  BY NoIdIsZero DEF IndInv, TypeOK, InvitationType
<1>2. /\ invitation[q.inv].status = "pending"
      /\ account' = [account EXCEPT ![p] = "usable"]
      /\ membership' = [membership EXCEPT ![p] = "active"]
      /\ invitation' = [invitation EXCEPT ![q.inv] = row]
      /\ UNCHANGED <<today, tenant, tenure, grant, accepting, request, seat, sweeping>>
  BY DEF AcceptInvitation, InvitationStands
<1>3. p \in Person /\ class \in CapabilityClass
  BY <1>1 DEF InvitationRow
<1>4. period \in [from : Nat, to : Nat]
  BY <1>1 DEF AcceptedPeriod, InvitationRow
<1>5. period.from < period.to
  BY DEF AcceptInvitation, PeriodStands
<1>6. PICK a \in Fresh(assignment, Assignment) :
        assignment' = Insert(assignment, a, NewAssignment(p, class, period, q.inv))
  BY DEF AcceptInvitation
<1> HIDE DEF p, period, class
<1>7. RightsInv'
  BY <1>1, <1>2, <1>3, <1>4, <1>5, <1>6, GrantKeepsRights, IndInvParts
<1>8. /\ DOMAIN assignment' = DOMAIN assignment \cup {a}
      /\ assignment'[a].via = q.inv
      /\ \A b \in DOMAIN assignment : b # a => assignment'[b] = assignment[b]
      /\ a \notin DOMAIN assignment
  BY <1>6 DEF Insert, NewAssignment, Fresh
<1>9. row \in InvitationRow /\ row.from < row.to /\ row.status = "accepted"
  BY <1>1 DEF InvitationRow
<1> HIDE DEF row
<1>10. /\ DOMAIN invitation' = DOMAIN invitation
       /\ invitation'[q.inv] = row
       /\ \A j \in DOMAIN invitation : j # q.inv => invitation'[j] = invitation[j]
  BY <1>1, <1>2
<1>11. InvitationType'
  BY <1>2, <1>9, <1>10 DEF IndInv, TypeOK, InvitationType
<1>12. \A b \in DOMAIN assignment : assignment[b].via # q.inv
  BY <1>1, <1>2 DEF IndInv, UsedInvitationIsAccepted
<1>13. UsedInvitationIsAccepted'
  BY <1>1, <1>8, <1>9, <1>10 DEF IndInv, UsedInvitationIsAccepted
<1>14. InvitationUsedOnce'
  BY <1>8, <1>12 DEF IndInv, InvitationUsedOnce
<1> QED BY <1>2, <1>7, <1>11, <1>13, <1>14, IndInvParts, IndInvPrimed, RequestUnchanged DEF OriginInv

\* The request transactions that only write request rows.
LEMMA RequestStepKeepsIndInv ==
  ASSUME IndInv, NEW at \in AtDays,
         \/ \E p \in Person : CreateAccessRequest(at, p)
         \/ \E p, successor \in Person, a \in Assignment :
              CreateReplacementProposal(at, p, a, successor)
         \/ \E actor \in Person, r \in Request : DeclineRequest(at, actor, r)
         \/ LapseRequests(at)
  PROVE  IndInv'
<1>1. UNCHANGED <<today, tenant, account, membership, tenure, assignment, grant,
                  invitation, accepting, seat, sweeping>>
  BY DEF CreateAccessRequest, CreateReplacementProposal, DeclineRequest, LapseRequests
<1>2. RequestType /\ at \in Nat
  BY AtIsADay DEF IndInv, TypeOK
<1>3. ASSUME NEW kind \in {"access", "replacement"}, NEW p \in Person, NEW invitee \in Person,
             InsertRequest(at, kind, p, invitee)
      PROVE  RequestType'
  <2> DEFINE row == [kind |-> kind, requester |-> p, invitee |-> invitee, created |-> at,
                     status |-> "pending"]
  <2>1. PICK r \in Fresh(request, Request) : request' = Insert(request, r, row)
    BY <1>3 DEF InsertRequest
  <2>2. row \in RequestRow
    BY <1>2 DEF RequestRow
  <2> HIDE DEF row
  <2>3. /\ r \in Request /\ DOMAIN request' = DOMAIN request \cup {r} /\ request'[r] = row
        /\ \A x \in DOMAIN request : x # r => request'[x] = request[x]
    BY <2>1 DEF Insert, Fresh
  <2> QED BY <1>2, <2>2, <2>3 DEF RequestType
<1>4. RequestType'
  <2>1. ASSUME NEW p \in Person, CreateAccessRequest(at, p) PROVE RequestType'
    BY <1>3, <2>1 DEF CreateAccessRequest
  <2>2. ASSUME NEW p \in Person, NEW successor \in Person, NEW a \in Assignment,
               CreateReplacementProposal(at, p, a, successor)
        PROVE  RequestType'
    BY <1>3, <2>2 DEF CreateReplacementProposal
  <2>3. ASSUME NEW actor \in Person, NEW r \in Request, DeclineRequest(at, actor, r)
        PROVE  RequestType'
    BY <1>2, <2>3 DEF DeclineRequest, CloseRequest, RequestType, RequestRow
  <2>4. CASE LapseRequests(at)
    BY <1>2, <2>4 DEF LapseRequests, RequestType, RequestRow
  <2> QED BY <2>1, <2>2, <2>3, <2>4
<1> QED BY <1>1, <1>4, IndInvParts, IndInvPrimed, RightsUnchanged, OriginUnchanged

\* The calendar, the sweep's bookkeeping, an archived group and what operators do.
LEMMA OutsideStepKeepsIndInv ==
  ASSUME IndInv,
         \/ OutsideStep
         \/ \E at \in AtDays, actor \in Person : ArchiveGroup(at, actor)
         \/ \E at \in AtDays : SweepScan(at)
         \/ \E at \in sweeping : SweepStops(at)
  PROVE  IndInv'
<1>1. UNCHANGED <<membership, tenure, assignment, grant, invitation, accepting, request>>
  BY DEF OutsideStep, Tick, DisableAccount, SetFrozen, CloseTenant, SeatMoves, ArchiveGroup,
         SweepScan, SweepStops
<1>2. FauType
  BY DEF IndInv, TypeOK
<1>3. today' \in Nat /\ today <= today'
  BY <1>2 DEF OutsideStep, Tick, DisableAccount, SetFrozen, CloseTenant, SeatMoves, ArchiveGroup,
              SweepScan, SweepStops, FauType
<1>4. FauType'
  <2>1. ASSUME NEW p \in Person, DisableAccount(p) PROVE FauType'
    BY <1>2, <2>1 DEF DisableAccount, FauType
  <2>2. ASSUME \/ \E frozen \in BOOLEAN : SetFrozen(frozen)
               \/ CloseTenant
               \/ \E at \in AtDays, actor \in Person : ArchiveGroup(at, actor)
        PROVE  FauType'
    BY <1>2, <2>2 DEF SetFrozen, CloseTenant, ArchiveGroup, FauType
  <2>3. CASE Tick
    <3>1. 0 .. today \subseteq 0 .. today'
      BY <1>2, <1>3 DEF FauType
    <3> QED BY <1>2, <1>3, <2>3, <3>1 DEF Tick, FauType
  <2>4. ASSUME NEW at \in AtDays, SweepScan(at) PROVE FauType'
    <3>1. at \in 0 .. today
      BY DEF AtDays
    <3> QED BY <1>2, <2>4, <3>1 DEF SweepScan, FauType
  <2>5. ASSUME NEW at \in sweeping, SweepStops(at) PROVE FauType'
    BY <1>2, <2>5 DEF SweepStops, FauType
  <2>6. ASSUME NEW holder \in Person \cup {Ewb}, SeatMoves(holder) PROVE FauType'
    BY <1>2, <2>6 DEF SeatMoves, FauType
  <2> QED BY <2>1, <2>2, <2>3, <2>4, <2>5, <2>6 DEF OutsideStep
<1>5. \A a \in DOMAIN assignment : assignment[a].to \in Nat
  BY DEF IndInv, TypeOK, AssignmentType, AssignmentRow
<1>6. FormerTenureIsInert'
  BY <1>1, <1>2, <1>3, <1>5, NumberAssumption
  DEF IndInv, FormerTenureIsInert, HasEndedBy, HandoverPeriod, FauType
<1>7. AssignmentType' /\ GrantType' /\ LiveGrantHasLiveSource'
  BY <1>1 DEF IndInv, TypeOK, AssignmentType, GrantType, LiveGrantHasLiveSource
<1> QED BY <1>1, <1>4, <1>6, <1>7, IndInvParts, IndInvPrimed, OriginUnchanged, RequestUnchanged
        DEF RightsInv

-----------------------------------------------------------------------------
(* The invariant holds throughout. *)

LEMMA InitIndInv == Init => IndInv
<1> SUFFICES ASSUME Init PROVE IndInv
  OBVIOUS
<1>1. FauType
  BY DEF Init, FauType
<1>2. AssignmentType
  BY SeedAssumption DEF Init, AssignmentType, AssignmentRow
<1>3. GrantType /\ LiveGrantHasLiveSource
  BY DEF Init, GrantType, LiveGrantHasLiveSource
<1>4. InvitationType
  <2>1. PICK leader \in Leaders, period \in OfferedPeriods :
          invitation = [i \in IF leader = NoOne THEN {} ELSE {1} |->
            NewInvitation(0, "activation", leader, NoOne, 0, 0, "admin", period)]
    BY DEF Init
  <2> DEFINE row == NewInvitation(0, "activation", leader, NoOne, 0, 0, "admin", period)
  <2>2. CASE leader = NoOne
    BY <2>1, <2>2 DEF Init, InvitationType
  <2>3. CASE leader # NoOne
    <3>1. leader \in Person /\ 1 \in Invitation
      BY <2>3, PersonAssumption, IdAssumption
    <3>2. row \in InvitationRow
      BY <1>1, <3>1, NewInvitationType, OfferedPeriodType
    <3>3. row.from < row.to
      BY OfferedPeriodType DEF NewInvitation
    <3>4. DOMAIN invitation = {1} /\ invitation[1] = row /\ accepting = {}
      BY <2>1, <2>3 DEF Init
    <3> HIDE DEF row
    <3> QED BY <3>1, <3>2, <3>3, <3>4 DEF InvitationType
  <2> QED BY <2>2, <2>3
<1>5. RequestType
  BY DEF Init, RequestType
<1>6. FormerTenureIsInert
  BY SeedAssumption DEF Init, FormerTenureIsInert
<1>7. UsedInvitationIsAccepted /\ InvitationUsedOnce
  BY DEF Init, UsedInvitationIsAccepted, InvitationUsedOnce
<1> QED BY <1>1, <1>2, <1>3, <1>4, <1>5, <1>6, <1>7 DEF IndInv, TypeOK

\* Stuttering keeps the invariant.
LEMMA StutterKeepsIndInv == IndInv /\ UNCHANGED vars => IndInv'
BY RightsUnchanged, OriginUnchanged, RequestUnchanged, IndInvParts, IndInvPrimed DEF vars

\* Every step keeps the invariant.
LEMMA NextKeepsIndInv == IndInv /\ Next => IndInv'
<1> SUFFICES ASSUME IndInv, Next PROVE IndInv'
  OBVIOUS
<1>1. ASSUME NEW at \in AtDays, RoleStep(at) PROVE IndInv'
  BY <1>1, GrantRoleStep, RevokeRoleAssignmentStep, RevokeMembershipStep DEF RoleStep
<1>2. ASSUME NEW at \in AtDays, HandoverStep(at) PROVE IndInv'
  BY <1>2, OutsideStepKeepsIndInv, RecoveryGrantAdminStep DEF HandoverStep
<1>3. ASSUME NEW at \in AtDays, InvitationStep(at) PROVE IndInv'
  <2>1. {NoOverride} \cup (at + AdminEndMin .. at + AdminEndMax) \subseteq Nat
    BY AtIsADay, NumberAssumption DEF NoOverride, IndInv, TypeOK
  <2> QED BY <1>3, <2>1, IssueInvitationStep, IssueHandoverInvitationStep,
             ResendInvitationStep, WithdrawInvitationStep, AcceptInvitationStep
          DEF InvitationStep
<1>4. ASSUME NEW at \in AtDays, RequestStep(at) PROVE IndInv'
  BY <1>4, RequestStepKeepsIndInv, ApproveRequestStep DEF RequestStep
<1>5. ASSUME NEW at \in sweeping, SweepTenant(at) \/ SweepStops(at) PROVE IndInv'
  BY <1>5, SweepTenantStep, OutsideStepKeepsIndInv
<1> QED BY <1>1, <1>2, <1>3, <1>4, <1>5, PrepareAcceptanceStep, DropAcceptanceStep,
           OutsideStepKeepsIndInv DEF Next

\* The conjunction of the type invariant, the two rights invariants and the invitation
\* invariants is inductive, so it holds in every reachable state.
THEOREM Inductive == Spec => []IndInv
<1>1. IndInv /\ [Next]_vars => IndInv'
  BY NextKeepsIndInv, StutterKeepsIndInv
<1> QED BY <1>1, InitIndInv, PTL DEF Spec

\* Every table of the FAU stays well-formed (the schema's checks in the code's terms).
THEOREM TypeCorrect == Spec => []TypeOK
<1>1. IndInv => TypeOK
  BY DEF IndInv
<1> QED BY <1>1, Inductive, PTL

\* A usable handover grant always has a live admin role and a live membership behind it,
\* whatever the sweep and the revocations interleave to.
THEOREM LiveGrants == Spec => []LiveGrantHasLiveSource
<1>1. IndInv => LiveGrantHasLiveSource
  BY DEF IndInv
<1> QED BY <1>1, Inductive, PTL

\* A member who was removed and is let in again gets none of the earlier rights back.
THEOREM FormerTenures == Spec => []FormerTenureIsInert
<1>1. IndInv => FormerTenureIsInert
  BY DEF IndInv
<1> QED BY <1>1, Inductive, PTL

\* An invitation activates its role at most once, however often its token is sent.
THEOREM InvitationsAreSpent == Spec => []InvitationUsedOnce
<1>1. IndInv => InvitationUsedOnce
  BY DEF IndInv
<1> QED BY <1>1, Inductive, PTL

-----------------------------------------------------------------------------
(* The last-admin safeguard at work in the transactions. *)

\* Rows that survive a step go on covering the days they covered.
LEMMA SurvivorsCover ==
  ASSUME NEW A, NEW G, NEW day,
         \A a \in A : a \in AdminRows' /\ assignment'[a] = assignment[a],
         \A g \in G : g \in GrantRows' /\ grant'[g] = grant[g],
         TenantHasAdmin(AssignmentViews(A), GrantViews(G), day)
  PROVE  HasAdmin(day)'
<1>1. CASE \E a \in A : assignment[a].capability = "admin" /\ ValidOn(assignment[a], day)
  BY <1>1 DEF HasAdmin, TenantHasAdmin, AssignmentViews, ValidOn, Contains
<1>2. CASE \E g \in G : ValidOn(grant[g], day)
  BY <1>2 DEF HasAdmin, TenantHasAdmin, GrantViews, ValidOn, Contains
<1> QED BY <1>1, <1>2 DEF TenantHasAdmin, AssignmentViews, GrantViews

\* A step that only adds rows and takes nobody's membership or account away.
LEMMA GrowthKeepsCover ==
  ASSUME IndInv, NEW day, HasAdmin(day),
         \A p \in Person : Usable(p) => Usable(p)',
         DOMAIN assignment \subseteq DOMAIN assignment',
         \A a \in DOMAIN assignment : assignment'[a] = assignment[a],
         DOMAIN grant \subseteq DOMAIN grant',
         \A g \in DOMAIN grant : grant'[g] = grant[g]
  PROVE  HasAdmin(day)'
<1>1. \A a \in DOMAIN assignment : assignment[a].holder \in Person
  BY DEF IndInv, TypeOK, AssignmentType, AssignmentRow
<1>2. DOMAIN grant \subseteq DOMAIN assignment
  BY DEF IndInv, TypeOK, GrantType
<1>3. \A a \in AdminRows : a \in AdminRows' /\ assignment'[a] = assignment[a]
  BY <1>1 DEF AdminRows
<1>4. \A g \in GrantRows : g \in GrantRows' /\ grant'[g] = grant[g]
  BY <1>1, <1>2 DEF GrantRows
<1> QED BY <1>3, <1>4, SurvivorsCover DEF HasAdmin

\* The rows the last-admin check reads are well-formed periods.
LEMMA ViewsOfRows ==
  ASSUME IndInv, NEW ids
  PROVE  /\ AreViews(AssignmentViews(AdminRows \ ids)) /\ AreViews(GrantViews(GrantRows \ ids))
         /\ AreViews(AssignmentViews(AdminRows \cap ids))
         /\ AreViews(GrantViews(GrantRows \cap ids))
BY DEF IndInv, TypeOK, AssignmentType, GrantType, AssignmentRow, GrantRow, AreViews,
       AssignmentViews, GrantViews, AdminRows, GrantRows

\* What an unconfirmed removal leaves covers every day from today on that was covered.
LEMMA UnconfirmedLeavesCover ==
  ASSUME IndInv, NEW at \in AtDays, NEW ids, CheckLastAdmin(at, FALSE, ids),
         NEW day \in Nat, today <= day, HasAdmin(day)
  PROVE  TenantHasAdmin(AssignmentViews(AdminRows \ ids), GrantViews(GrantRows \ ids), day)
<1> DEFINE keptA == AssignmentViews(AdminRows \ ids)
           keptG == GrantViews(GrantRows \ ids)
           goneA == AssignmentViews(AdminRows \cap ids)
           goneG == GrantViews(GrantRows \cap ids)
<1>1. at \in Nat /\ at <= day /\ today \in Nat
  BY AtIsADay DEF IndInv, TypeOK, FauType, AtDays
<1>2. AreViews(keptA) /\ AreViews(keptG) /\ AreViews(goneA) /\ AreViews(goneG)
  BY ViewsOfRows
<1>3. ~RemovalLeavesNoAdmin(keptA, keptG, goneA, goneG, at)
  BY DEF CheckLastAdmin
<1>4. TenantHasAdmin(keptA, keptG, day) \/ TenantHasAdmin(goneA, goneG, day)
  BY DEF HasAdmin, TenantHasAdmin, AssignmentViews, GrantViews
<1> HIDE DEF keptA, keptG, goneA, goneG
<1>5. ~LeavesGap(keptA, keptG, goneA, goneG, at)
  BY <1>1, <1>2, <1>3, SafeguardIsExact
<1>6. ASSUME TenantHasAdmin(goneA, goneG, day) PROVE TenantHasAdmin(keptA, keptG, day)
  <2>1. PICK r \in AdminPeriods(goneA, goneG) : Contains(r, day)
    BY <1>2, <1>6, CoveredByPeriod
  <2>2. r.from \in Nat /\ r.to \in Nat
    BY <1>2, <2>1, PeriodType
  <2>3. day \in r.from .. r.to /\ day >= at
    BY <1>1, <2>1, <2>2 DEF Contains
  <2> QED BY <1>5, <2>1, <2>3 DEF LeavesGap
<1>7. TenantHasAdmin(keptA, keptG, day)
  BY <1>4, <1>6
<1> QED BY <1>7 DEF keptA, keptG

\* An unconfirmed revocation of an assignment leaves every covered day covered.
LEMMA RevokeRoleKeepsCover ==
  ASSUME IndInv, NEW at \in AtDays, NEW actor \in Person, NEW a \in Assignment,
         RevokeRoleAssignment(at, actor, a, FALSE),
         NEW day \in Nat, today <= day, HasAdmin(day)
  PROVE  HasAdmin(day)'
<1>1. /\ CheckLastAdmin(at, FALSE, {a})
      /\ assignment' = RevokeAssignments({a}) /\ grant' = RevokeGrants({a})
      /\ UNCHANGED <<account, membership>>
  BY DEF RevokeRoleAssignment, RevokeOneAssignment
<1>2. AssignmentType /\ GrantType
  BY DEF IndInv, TypeOK
<1>3. \A b \in AdminRows \ {a} : b \in AdminRows' /\ assignment'[b] = assignment[b]
  <2> SUFFICES ASSUME NEW b \in AdminRows \ {a}
               PROVE  b \in AdminRows' /\ assignment'[b] = assignment[b]
    OBVIOUS
  <2>1. b \in DOMAIN assignment' /\ assignment'[b] = assignment[b]
    BY <1>1, <1>2, RevokeFacts DEF AdminRows
  <2> QED BY <1>1, <2>1 DEF AdminRows, Usable
<1>4. \A g \in GrantRows \ {a} : g \in GrantRows' /\ grant'[g] = grant[g]
  <2> SUFFICES ASSUME NEW g \in GrantRows \ {a}
               PROVE  g \in GrantRows' /\ grant'[g] = grant[g]
    OBVIOUS
  <2>1. /\ g \in DOMAIN assignment' /\ assignment'[g] = assignment[g]
        /\ g \in DOMAIN grant' /\ grant'[g] = grant[g]
    BY <1>1, <1>2, RevokeFacts DEF GrantRows, GrantType
  <2> QED BY <1>1, <2>1 DEF GrantRows, Usable
<1> QED BY <1>1, <1>3, <1>4, UnconfirmedLeavesCover, SurvivorsCover

\* An unconfirmed revocation of a membership leaves every covered day covered.
LEMMA RevokeMembershipKeepsCover ==
  ASSUME IndInv, NEW at \in AtDays, NEW actor \in Person, NEW p \in Person,
         RevokeMembership(at, actor, p, FALSE),
         NEW day \in Nat, today <= day, HasAdmin(day)
  PROVE  HasAdmin(day)'
<1>1. /\ CheckLastAdmin(at, FALSE, Held(p))
      /\ assignment' = RevokeAssignments(StillConferring(p, at))
      /\ grant' = RevokeGrants(Held(p))
      /\ membership' = [membership EXCEPT ![p] = "revoked"]
      /\ UNCHANGED account
  BY DEF RevokeMembership
<1>2. AssignmentType /\ GrantType /\ membership \in [Person -> {"none", "active", "revoked"}]
  BY DEF IndInv, TypeOK, FauType
<1>3. StillConferring(p, at) \subseteq Held(p)
  BY DEF StillConferring
<1>4. \A q \in Person : q # p /\ Usable(q) => Usable(q)'
  BY <1>1, <1>2 DEF Usable
<1>5. \A b \in AdminRows \ Held(p) : b \in AdminRows' /\ assignment'[b] = assignment[b]
  <2> SUFFICES ASSUME NEW b \in AdminRows \ Held(p)
               PROVE  b \in AdminRows' /\ assignment'[b] = assignment[b]
    OBVIOUS
  <2>1. b \in DOMAIN assignment' /\ assignment'[b] = assignment[b]
    BY <1>1, <1>2, <1>3, RevokeFacts DEF AdminRows
  <2>2. assignment[b].holder \in Person /\ assignment[b].holder # p
    BY <1>2 DEF AdminRows, Held, AssignmentType, AssignmentRow
  <2> QED BY <1>4, <2>1, <2>2 DEF AdminRows
<1>6. \A g \in GrantRows \ Held(p) : g \in GrantRows' /\ grant'[g] = grant[g]
  <2> SUFFICES ASSUME NEW g \in GrantRows \ Held(p)
               PROVE  g \in GrantRows' /\ grant'[g] = grant[g]
    OBVIOUS
  <2>1. /\ g \in DOMAIN assignment' /\ assignment'[g] = assignment[g]
        /\ g \in DOMAIN grant' /\ grant'[g] = grant[g]
    BY <1>1, <1>2, <1>3, RevokeFacts DEF GrantRows, GrantType
  <2>2. assignment[g].holder \in Person /\ assignment[g].holder # p
    BY <1>2 DEF GrantRows, GrantType, Held, AssignmentType, AssignmentRow
  <2> QED BY <1>4, <2>1, <2>2 DEF GrantRows
<1> QED BY <1>1, <1>5, <1>6, UnconfirmedLeavesCover, SurvivorsCover

\* An acceptance adds an assignment and may open an account and a membership.
LEMMA AcceptanceGrows ==
  ASSUME IndInv, NEW at \in AtDays, NEW q \in accepting, NEW end,
         AcceptInvitation(at, q, end), NEW day, HasAdmin(day)
  PROVE  HasAdmin(day)'
<1> DEFINE p == invitation[q.inv].recipient
<1>1. /\ account' = [account EXCEPT ![p] = "usable"]
      /\ membership' = [membership EXCEPT ![p] = "active"]
      /\ UNCHANGED grant
      /\ \E a, row : a \notin DOMAIN assignment /\ assignment' = Insert(assignment, a, row)
  BY DEF AcceptInvitation, Fresh
<1> HIDE DEF p
<1>2. \A x \in Person : Usable(x) => Usable(x)'
  BY <1>1 DEF IndInv, TypeOK, FauType, Usable
<1>3. /\ DOMAIN assignment \subseteq DOMAIN assignment'
      /\ \A a \in DOMAIN assignment : assignment'[a] = assignment[a]
  BY <1>1 DEF Insert
<1> QED BY <1>1, <1>2, <1>3, GrowthKeepsCover

\* Granting a role takes no admin away.
LEMMA GrantRoleGrows ==
  ASSUME IndInv, NEW at \in AtDays, NEW actor \in Person, NEW p \in Person,
         NEW class, NEW period, GrantRole(at, actor, p, class, period),
         NEW day, HasAdmin(day)
  PROVE  HasAdmin(day)'
<1>1. /\ UNCHANGED <<account, membership, grant>>
      /\ \E a, row : a \notin DOMAIN assignment /\ assignment' = Insert(assignment, a, row)
  BY DEF GrantRole, Fresh
<1>2. \A x \in Person : Usable(x) => Usable(x)'
  BY <1>1 DEF Usable
<1>3. /\ DOMAIN assignment \subseteq DOMAIN assignment'
      /\ \A a \in DOMAIN assignment : assignment'[a] = assignment[a]
  BY <1>1 DEF Insert
<1> QED BY <1>1, <1>2, <1>3, GrowthKeepsCover

\* The sweep takes no admin away.
LEMMA SweepGrows ==
  ASSUME IndInv, NEW at \in sweeping, SweepTenant(at), NEW day, HasAdmin(day)
  PROVE  HasAdmin(day)'
<1>1. /\ UNCHANGED <<account, membership, assignment>>
      /\ \E new : /\ new \cap DOMAIN grant = {}
                  /\ grant' = [g \in DOMAIN grant \cup new |->
                                 IF g \in new THEN HandoverGrant(g) ELSE grant[g]]
  <2> DEFINE new == IF tenant.status = "active" THEN HandoverCandidates(at) ELSE {}
  <2>1. new \cap DOMAIN grant = {}
    BY DEF HandoverCandidates
  <2>2. /\ UNCHANGED <<account, membership, assignment>>
        /\ grant' = [g \in DOMAIN grant \cup new |->
                       IF g \in new THEN HandoverGrant(g) ELSE grant[g]]
    BY DEF SweepTenant
  <2> HIDE DEF new
  <2> QED BY <2>1, <2>2
<1>2. \A x \in Person : Usable(x) => Usable(x)'
  BY <1>1 DEF Usable
<1>3. /\ DOMAIN grant \subseteq DOMAIN grant'
      /\ \A g \in DOMAIN grant : grant'[g] = grant[g]
  BY <1>1
<1> QED BY <1>1, <1>2, <1>3, GrowthKeepsCover

\* A step that leaves accounts, memberships and rights alone takes no admin away.
LEMMA OthersKeepCover ==
  ASSUME IndInv, UNCHANGED <<account, membership, assignment, grant>>, NEW day, HasAdmin(day)
  PROVE  HasAdmin(day)'
<1>1. \A x \in Person : Usable(x) => Usable(x)'
  BY DEF Usable
<1> QED BY <1>1, GrowthKeepsCover

\* Any step that a revocation without confirmation may take.
LEMMA UnconfirmedKeepsCover ==
  ASSUME IndInv, Revocation(FALSE), NEW day \in Nat, today <= day, HasAdmin(day)
  PROVE  HasAdmin(day)'
BY RevokeRoleKeepsCover, RevokeMembershipKeepsCover DEF Revocation

\* Step by step: who can take the last admin of a day away.
LEMMA NextLosesCoverKnowingly == IndInv /\ Next => LosesCoverKnowingly
<1> DEFINE Known == \/ Revocation(TRUE) /\ ~Revocation(FALSE)
                    \/ \E p \in Person : DisableAccount(p)
<1> SUFFICES ASSUME IndInv, Next,
                    NEW day \in today .. LastDay + HandoverDays,
                    HasAdmin(day), ~HasAdmin(day)'
             PROVE  Known
  BY DEF LosesCoverKnowingly
<1>1. day \in Nat /\ today <= day
  BY NumberAssumption DEF IndInv, TypeOK, FauType
<1>2. ~UNCHANGED <<account, membership, assignment, grant>>
  BY OthersKeepCover
<1>3. ASSUME NEW at \in AtDays, RoleStep(at) PROVE Known
  <2>1. ~Revocation(FALSE)
    BY <1>1, UnconfirmedKeepsCover
  <2>2. ASSUME NEW actor \in Person, NEW a \in Assignment, NEW confirm \in BOOLEAN,
               RevokeRoleAssignment(at, actor, a, confirm)
        PROVE  Revocation(TRUE) \/ Revocation(FALSE)
    BY <2>2 DEF Revocation
  <2>3. ASSUME NEW actor \in Person, NEW p \in Person, NEW confirm \in BOOLEAN,
               RevokeMembership(at, actor, p, confirm)
        PROVE  Revocation(TRUE) \/ Revocation(FALSE)
    BY <2>3 DEF Revocation
  <2> QED BY <1>3, <2>1, <2>2, <2>3, GrantRoleGrows DEF RoleStep
<1>4. ASSUME NEW at \in AtDays, HandoverStep(at) PROVE FALSE
  BY <1>2, <1>4 DEF HandoverStep, SweepScan, RecoveryGrantAdmin
<1>5. ASSUME NEW at \in AtDays, InvitationStep(at) PROVE FALSE
  <2>1. \A q \in accepting : \A end : ~AcceptInvitation(at, q, end)
    BY AcceptanceGrows
  <2> QED BY ZenonT(30), <1>2, <1>5, <2>1
          DEF InvitationStep, IssueInvitation, IssueHandoverInvitation, ResendInvitation,
              WithdrawInvitation
<1>6. ASSUME NEW at \in AtDays, RequestStep(at) PROVE FALSE
  BY <1>2, <1>6 DEF RequestStep, CreateAccessRequest, CreateReplacementProposal,
                    ApproveRequest, DeclineRequest, LapseRequests
<1>7. ASSUME NEW at \in sweeping, SweepTenant(at) \/ SweepStops(at) PROVE FALSE
  BY <1>2, <1>7, SweepGrows DEF SweepStops
<1>8. ASSUME NEW i \in Invitation, PrepareAcceptance(i) PROVE FALSE
  BY <1>2, <1>8 DEF PrepareAcceptance
<1>9. ASSUME NEW q \in accepting, DropAcceptance(q) PROVE FALSE
  BY <1>2, <1>9 DEF DropAcceptance
<1>10. ASSUME OutsideStep PROVE Known
  BY <1>2, <1>10 DEF OutsideStep, Tick, SetFrozen, CloseTenant, SeatMoves
<1> HIDE DEF Known
<1>11. ASSUME NEW at \in AtDays, NEW actor \in Person, ArchiveGroup(at, actor) PROVE FALSE
  BY <1>2, <1>11 DEF ArchiveGroup
<1> QED BY <1>3, <1>4, <1>5, <1>6, <1>7, <1>8, <1>9, <1>10, <1>11 DEF Next

\* A day that has an admin loses its last one only through a confirmed removal or a
\* disabled account, for every set of people and roles and however stale the caller's date.
THEOREM CoverIsKept == Spec => CoverLostOnlyKnowingly
<1>1. IndInv /\ [Next]_vars => [LosesCoverKnowingly]_vars
  BY NextLosesCoverKnowingly
<1> QED BY <1>1, Inductive, PTL DEF Spec, CoverLostOnlyKnowingly

-----------------------------------------------------------------------------
(* Requests, and the invitations they lead to. *)

\* The invitations a request has led to.
Issued(r) == {i \in DOMAIN invitation : invitation[i].request = r}

OneOutcome(r) ==
  IF request[r].status = "approved" THEN \E i \in DOMAIN invitation : Issued(r) = {i}
  ELSE Issued(r) = {}

\* An invitation names no request that is not there, or a fresh request might find one of its
\* own; without this ApprovalIssuesOneInvitation is not inductive.
AgreeInv ==
  /\ \A i \in DOMAIN invitation :
       invitation[i].request = 0 \/ invitation[i].request \in DOMAIN request
  /\ \A r \in DOMAIN request : OneOutcome(r)
  /\ ProposerIsMember

\* The old invitations name what they named.
SameOrigins ==
  /\ DOMAIN invitation \subseteq DOMAIN invitation'
  /\ \A i \in DOMAIN invitation : invitation'[i].request = invitation[i].request

\* Requests that are closed without approval, or keep their status, keep the agreement.
LEMMA OutcomesKept ==
  ASSUME IndInv, AgreeInv, SameOrigins,
         \A i \in DOMAIN invitation' \ DOMAIN invitation : invitation'[i].request = 0,
         DOMAIN request \subseteq DOMAIN request',
         \A r \in DOMAIN request :
           (request'[r].status = "approved") <=> (request[r].status = "approved"),
         \A r \in DOMAIN request' \ DOMAIN request : request'[r].status = "pending",
         DOMAIN request' \subseteq Request,
         ProposerIsMember'
  PROVE  AgreeInv'
<1>1. 0 \notin Request
  BY NoIdIsZero
<1>2. \A i \in DOMAIN invitation' :
        invitation'[i].request = 0 \/ invitation'[i].request \in DOMAIN request'
  BY DEF AgreeInv, SameOrigins
<1>3. \A r \in DOMAIN request' : Issued(r)' = Issued(r)
  BY <1>1 DEF SameOrigins, Issued
<1>4. ASSUME NEW r \in DOMAIN request' PROVE OneOutcome(r)'
  <2>1. CASE r \in DOMAIN request
    <3>1. OneOutcome(r)
      BY <2>1 DEF AgreeInv
    <3> QED BY <1>3, <2>1, <3>1 DEF OneOutcome, SameOrigins
  <2>2. CASE r \notin DOMAIN request
    <3>1. Issued(r) = {}
      BY <1>1, <2>2 DEF AgreeInv, Issued
    <3> QED BY <1>3, <2>2, <3>1 DEF OneOutcome
  <2> QED BY <2>1, <2>2
<1> QED BY <1>2, <1>4 DEF AgreeInv

\* Requests that stay pending keep their proposer if no active membership ends.
LEMMA ProposersKept ==
  ASSUME ProposerIsMember,
         \A r \in DOMAIN request' :
           request'[r].status = "pending" =>
             r \in DOMAIN request /\ request'[r] = request[r],
         \A p : membership[p] = "active" => membership'[p] = "active"
  PROVE  ProposerIsMember'
BY DEF ProposerIsMember

\* A step that touches neither the requests, nor what invitations name, nor a membership.
LEMMA AgreementKept ==
  ASSUME IndInv, AgreeInv, SameOrigins, UNCHANGED <<request, membership>>,
         \A i \in DOMAIN invitation' \ DOMAIN invitation : invitation'[i].request = 0
  PROVE  AgreeInv'
<1>1. ProposerIsMember'
  BY ProposersKept DEF AgreeInv
<1>2. DOMAIN request \subseteq Request
  BY DEF IndInv, TypeOK, RequestType
<1> QED BY <1>1, <1>2, OutcomesKept

\* An invitation issued for no request.
LEMMA IssueKeepsAgreement ==
  ASSUME IndInv, AgreeInv, NEW i \in Fresh(invitation, Invitation), NEW row, row.request = 0,
         invitation' = Insert(invitation, i, row), UNCHANGED <<request, membership>>
  PROVE  AgreeInv'
<1>1. i \notin DOMAIN invitation
  BY DEF Fresh
<1>2. /\ DOMAIN invitation' = DOMAIN invitation \cup {i} /\ invitation'[i] = row
      /\ \A j \in DOMAIN invitation : j # i => invitation'[j] = invitation[j]
  BY DEF Insert
<1>3. SameOrigins
  BY <1>1, <1>2 DEF SameOrigins
<1> QED BY <1>2, <1>3, AgreementKept

\* The transactions on invitations other than an approval.
LEMMA InvitationStepAgrees ==
  ASSUME IndInv, AgreeInv, NEW at \in AtDays,
         \/ InvitationStep(at)
         \/ \E recipient \in Person, period \in OfferedPeriods :
              RecoveryGrantAdmin(at, recipient, period)
  PROVE  AgreeInv'
<1>1. ASSUME NEW actor \in Person, NEW recipient \in Person,
             NEW class \in OfferedClasses, NEW period \in OfferedPeriods,
             IssueInvitation(at, actor, recipient, class, period)
      PROVE  AgreeInv'
  <2> DEFINE row == NewInvitation(at, "normal", recipient, actor, 0, 0, class, period)
  <2>1. PICK i \in Fresh(invitation, Invitation) : invitation' = Insert(invitation, i, row)
    BY <1>1 DEF IssueInvitation
  <2>2. row.request = 0 /\ UNCHANGED <<request, membership>>
    BY <1>1 DEF NewInvitation, IssueInvitation
  <2> HIDE DEF row
  <2> QED BY <2>1, <2>2, IssueKeepsAgreement
<1>2. ASSUME NEW actor \in Person, NEW recipient \in Person, NEW g \in Assignment,
             NEW class \in OfferedClasses, NEW period \in OfferedPeriods,
             IssueHandoverInvitation(at, actor, g, recipient, class, period)
      PROVE  AgreeInv'
  <2> DEFINE row == NewInvitation(at, "handover", recipient, actor, g, 0, class, period)
  <2>1. PICK i \in Fresh(invitation, Invitation) : invitation' = Insert(invitation, i, row)
    BY <1>2 DEF IssueHandoverInvitation
  <2>2. row.request = 0 /\ UNCHANGED <<request, membership>>
    BY <1>2 DEF NewInvitation, IssueHandoverInvitation
  <2> HIDE DEF row
  <2> QED BY <2>1, <2>2, IssueKeepsAgreement
<1>3. ASSUME NEW recipient \in Person, NEW period \in OfferedPeriods,
             RecoveryGrantAdmin(at, recipient, period)
      PROVE  AgreeInv'
  <2> DEFINE row == NewInvitation(at, "recovery", recipient, NoOne, 0, 0, "admin", period)
  <2>1. PICK i \in Fresh(invitation, Invitation) : invitation' = Insert(invitation, i, row)
    BY <1>3 DEF RecoveryGrantAdmin
  <2>2. row.request = 0 /\ UNCHANGED <<request, membership>>
    BY <1>3 DEF NewInvitation, RecoveryGrantAdmin
  <2> HIDE DEF row
  <2> QED BY <2>1, <2>2, IssueKeepsAgreement
<1>4. ASSUME NEW actor \in Person, NEW i \in Invitation,
             ResendInvitation(at, actor, i) \/ WithdrawInvitation(at, actor, i)
      PROVE  AgreeInv'
  <2>1. UNCHANGED <<request, membership>>
    BY <1>4 DEF ResendInvitation, WithdrawInvitation
  <2>2. DOMAIN invitation' = DOMAIN invitation
    BY <1>4 DEF ResendInvitation, WithdrawInvitation
  <2>3. \A j \in DOMAIN invitation : invitation'[j].request = invitation[j].request
    <3>1. \A j \in DOMAIN invitation : invitation[j] \in InvitationRow
      BY DEF IndInv, TypeOK, InvitationType
    <3>2. CASE ResendInvitation(at, actor, i)
      BY <3>1, <3>2 DEF ResendInvitation, InvitationRow
    <3>3. CASE WithdrawInvitation(at, actor, i)
      BY <3>1, <3>3 DEF WithdrawInvitation, InvitationRow
    <3> QED BY <1>4, <3>2, <3>3
  <2>4. SameOrigins
    BY <2>2, <2>3 DEF SameOrigins
  <2> QED BY <2>1, <2>2, <2>4, AgreementKept
<1>5. ASSUME NEW q \in accepting, NEW end, AcceptInvitation(at, q, end)
      PROVE  AgreeInv'
  <2> DEFINE p == invitation[q.inv].recipient
  <2>1. /\ UNCHANGED request /\ membership' = [membership EXCEPT ![p] = "active"]
        /\ invitation' = [invitation EXCEPT ![q.inv] =
                            [invitation[q.inv] EXCEPT !.status = "accepted"]]
    BY <1>5 DEF AcceptInvitation
  <2> HIDE DEF p
  <2>2. \A j \in DOMAIN invitation : invitation[j] \in InvitationRow
    BY DEF IndInv, TypeOK, InvitationType
  <2>3. SameOrigins /\ DOMAIN invitation' = DOMAIN invitation
    BY <2>1, <2>2 DEF SameOrigins, InvitationRow
  <2>4. \A r \in DOMAIN request : request[r].requester \in Person
    BY DEF IndInv, TypeOK, RequestType, RequestRow
  <2>5. ProposerIsMember'
    <3>1. membership \in [Person -> {"none", "active", "revoked"}]
      BY DEF IndInv, TypeOK, FauType
    <3> QED BY <2>1, <2>4, <3>1 DEF AgreeInv, ProposerIsMember
  <2>6. DOMAIN request \subseteq Request
    BY DEF IndInv, TypeOK, RequestType
  <2> QED BY <2>1, <2>3, <2>5, <2>6, OutcomesKept
<1> QED BY <1>1, <1>2, <1>3, <1>4, <1>5 DEF InvitationStep

\* An approval closes its request and issues the one invitation together.
LEMMA ApprovalAgrees ==
  ASSUME IndInv, AgreeInv, NEW at \in AtDays, NEW actor \in Person, NEW r \in Request,
         NEW class \in OfferedClasses, NEW period \in OfferedPeriods,
         ApproveRequest(at, actor, r, class, period)
  PROVE  AgreeInv'
<1> DEFINE row == NewInvitation(at, "normal", request[r].invitee, actor, 0, r, class, period)
<1>1. PICK i \in Fresh(invitation, Invitation) : invitation' = Insert(invitation, i, row)
  BY DEF ApproveRequest
<1>2. /\ row.request = r /\ r \in DOMAIN request /\ request[r].status = "pending"
      /\ request' = [request EXCEPT ![r] = [request[r] EXCEPT !.status = "approved"]]
      /\ UNCHANGED membership
  BY DEF NewInvitation, ApproveRequest, LockPendingRequest, CloseRequest
<1> HIDE DEF row
<1>3. /\ i \notin DOMAIN invitation
      /\ DOMAIN invitation' = DOMAIN invitation \cup {i} /\ invitation'[i] = row
      /\ \A j \in DOMAIN invitation : invitation'[j] = invitation[j]
  BY <1>1 DEF Fresh, Insert
<1>4. /\ DOMAIN request' = DOMAIN request
      /\ request'[r].status = "approved"
      /\ \A x \in DOMAIN request : x # r => request'[x] = request[x]
  BY <1>2 DEF IndInv, TypeOK, RequestType, RequestRow
<1>5. Issued(r) = {}
  BY <1>2 DEF AgreeInv, OneOutcome
<1>6. \A x \in DOMAIN request : Issued(x)' = IF x = r THEN {i} ELSE Issued(x)
  BY <1>2, <1>3, <1>5 DEF Issued
<1>7. \A x \in DOMAIN request' : OneOutcome(x)'
  <2> SUFFICES ASSUME NEW x \in DOMAIN request PROVE OneOutcome(x)'
    BY <1>4
  <2>1. CASE x = r
    BY <1>3, <1>4, <1>6, <2>1 DEF OneOutcome
  <2>2. CASE x # r
    <3>1. OneOutcome(x)
      BY DEF AgreeInv
    <3> QED BY <1>3, <1>4, <1>6, <2>2, <3>1 DEF OneOutcome
  <2> QED BY <2>1, <2>2
<1>8. ProposerIsMember'
  BY <1>2, <1>4 DEF AgreeInv, ProposerIsMember
<1>9. \A j \in DOMAIN invitation' :
        invitation'[j].request = 0 \/ invitation'[j].request \in DOMAIN request'
  BY <1>2, <1>3, <1>4 DEF AgreeInv
<1> QED BY <1>7, <1>8, <1>9 DEF AgreeInv

\* The other transactions on requests, a removed member's cascade among them.
LEMMA RequestStepAgrees ==
  ASSUME IndInv, AgreeInv, NEW at \in AtDays, RequestStep(at) \/ RoleStep(at)
  PROVE  AgreeInv'
<1>1. IndInv'
  BY NextKeepsIndInv DEF Next
<1>2. DOMAIN request' \subseteq Request /\ \A r \in DOMAIN request : request[r] \in RequestRow
  BY <1>1 DEF IndInv, TypeOK, RequestType
<1>3. ASSUME UNCHANGED invitation,
             DOMAIN request \subseteq DOMAIN request',
             \A r \in DOMAIN request :
               (request'[r].status = "approved") <=> (request[r].status = "approved"),
             \A r \in DOMAIN request' \ DOMAIN request : request'[r].status = "pending",
             ProposerIsMember'
      PROVE  AgreeInv'
  <2>1. SameOrigins /\ \A i \in DOMAIN invitation' \ DOMAIN invitation : FALSE
    BY <1>3 DEF SameOrigins
  <2> QED BY <1>2, <1>3, <2>1, OutcomesKept
<1>4. ASSUME NEW kind \in {"access", "replacement"}, NEW p \in Person, NEW invitee \in Person,
             InsertRequest(at, kind, p, invitee), UNCHANGED <<invitation, membership>>,
             kind = "replacement" => membership[p] = "active"
      PROVE  AgreeInv'
  <2> DEFINE row == [kind |-> kind, requester |-> p, invitee |-> invitee, created |-> at,
                     status |-> "pending"]
  <2>1. PICK r \in Fresh(request, Request) : request' = Insert(request, r, row)
    BY <1>4 DEF InsertRequest
  <2>2. row.kind = kind /\ row.requester = p /\ row.status = "pending"
    OBVIOUS
  <2> HIDE DEF row
  <2>3. /\ r \notin DOMAIN request
        /\ DOMAIN request' = DOMAIN request \cup {r} /\ request'[r] = row
        /\ \A x \in DOMAIN request : request'[x] = request[x]
    BY <2>1 DEF Insert, Fresh
  <2>4. ProposerIsMember'
    BY <1>4, <2>2, <2>3 DEF AgreeInv, ProposerIsMember
  <2> QED BY <1>3, <1>4, <2>2, <2>3, <2>4
<1>5. ASSUME NEW p \in Person, CreateAccessRequest(at, p) PROVE AgreeInv'
  BY <1>4, <1>5 DEF CreateAccessRequest
<1>6. ASSUME NEW p \in Person, NEW successor \in Person, NEW a \in Assignment,
             CreateReplacementProposal(at, p, a, successor)
      PROVE  AgreeInv'
  BY <1>4, <1>6 DEF CreateReplacementProposal, Usable
<1>7. ASSUME NEW closed, NEW status \in {"declined", "withdrawn", "lapsed"},
             \A r \in closed : r \in DOMAIN request /\ request[r].status = "pending",
             request' = [r \in DOMAIN request |->
                           IF r \in closed THEN [request[r] EXCEPT !.status = status]
                           ELSE request[r]],
             UNCHANGED invitation,
             \A r \in DOMAIN request \ closed :
               membership[request[r].requester] = "active"
               /\ request[r].kind = "replacement" /\ request[r].status = "pending"
               => membership'[request[r].requester] = "active"
      PROVE  AgreeInv'
  <2>1. /\ DOMAIN request' = DOMAIN request
        /\ \A r \in DOMAIN request :
             /\ r \in closed => request'[r].status = status
             /\ r \notin closed => request'[r] = request[r]
    BY <1>2, <1>7 DEF RequestRow
  <2>2. ProposerIsMember'
    BY <1>7, <2>1 DEF AgreeInv, ProposerIsMember
  <2> QED BY <1>3, <1>7, <2>1, <2>2
<1>8. ASSUME NEW actor \in Person, NEW r \in Request, DeclineRequest(at, actor, r)
      PROVE  AgreeInv'
  <2>1. /\ r \in DOMAIN request /\ request[r].status = "pending"
        /\ request' = [request EXCEPT ![r] = [request[r] EXCEPT !.status = "declined"]]
        /\ UNCHANGED <<invitation, membership>>
    BY <1>8 DEF DeclineRequest, LockPendingRequest, CloseRequest
  <2>2. request' = [x \in DOMAIN request |->
                      IF x \in {r} THEN [request[x] EXCEPT !.status = "declined"] ELSE request[x]]
    BY <2>1
  <2> QED BY <1>7, <2>1, <2>2
<1>9. CASE LapseRequests(at)
  <2>1. /\ request' = [r \in DOMAIN request |->
                         IF r \in DueRequests(at) THEN [request[r] EXCEPT !.status = "lapsed"]
                         ELSE request[r]]
        /\ UNCHANGED <<invitation, membership>>
    BY <1>9 DEF LapseRequests
  <2>2. \A r \in DueRequests(at) : r \in DOMAIN request /\ request[r].status = "pending"
    BY DEF DueRequests
  <2> QED BY <1>7, <2>1, <2>2
<1>10. ASSUME NEW actor \in Person, NEW p \in Person, NEW confirm \in BOOLEAN,
              RevokeMembership(at, actor, p, confirm)
       PROVE  AgreeInv'
  <2> DEFINE closed == {r \in DOMAIN request :
                          request[r].requester = p /\ request[r].status = "pending"}
  <2>1. /\ membership' = [membership EXCEPT ![p] = "revoked"] /\ UNCHANGED invitation
        /\ request' = WithdrawPendingRequests(p)
    BY <1>10 DEF RevokeMembership
  <2>2. request' = [r \in DOMAIN request |->
                      IF r \in closed THEN [request[r] EXCEPT !.status = "withdrawn"]
                      ELSE request[r]]
    BY <2>1 DEF WithdrawPendingRequests
  <2>3. \A x : x # p /\ membership[x] = "active" => membership'[x] = "active"
    BY <2>1
  <2>4. \A r \in DOMAIN request \ closed :
          request[r].status = "pending" => request[r].requester # p
    OBVIOUS
  <2>5. \A r \in closed : r \in DOMAIN request /\ request[r].status = "pending"
    OBVIOUS
  <2> HIDE DEF closed
  <2> QED BY <1>7, <2>1, <2>2, <2>3, <2>4, <2>5
<1>11. ASSUME UNCHANGED <<invitation, request, membership>> PROVE AgreeInv'
  BY <1>11 DEF AgreeInv, OneOutcome, Issued, ProposerIsMember
<1>12. CASE RequestStep(at)
  BY <1>5, <1>6, <1>8, <1>9, <1>12, ApprovalAgrees DEF RequestStep
<1>13. CASE RoleStep(at)
  BY <1>10, <1>11, <1>13 DEF RoleStep, GrantRole, RevokeRoleAssignment
<1> QED BY <1>12, <1>13

\* Every step keeps the agreement.
LEMMA NextKeepsAgreement ==
  ASSUME IndInv, AgreeInv, [Next]_vars
  PROVE  AgreeInv'
<1>1. ASSUME UNCHANGED <<invitation, request, membership>> PROVE AgreeInv'
  BY <1>1 DEF AgreeInv, OneOutcome, Issued, ProposerIsMember
<1>2. ASSUME NEW at \in AtDays,
             RoleStep(at) \/ HandoverStep(at) \/ InvitationStep(at) \/ RequestStep(at)
      PROVE  AgreeInv'
  <2>1. CASE SweepScan(at)
    BY <1>1, <2>1 DEF SweepScan
  <2> QED BY <1>2, <2>1, InvitationStepAgrees, RequestStepAgrees DEF HandoverStep
<1>3. ASSUME NEW at \in sweeping, SweepTenant(at) \/ SweepStops(at) PROVE AgreeInv'
  BY <1>1, <1>3 DEF SweepTenant, SweepStops
<1>4. ASSUME NEW at \in AtDays, NEW actor \in Person, ArchiveGroup(at, actor) PROVE AgreeInv'
  BY <1>1, <1>4 DEF ArchiveGroup
<1>5. ASSUME NEW i \in Invitation, PrepareAcceptance(i) PROVE AgreeInv'
  BY <1>1, <1>5 DEF PrepareAcceptance
<1>6. ASSUME NEW q \in accepting, DropAcceptance(q) PROVE AgreeInv'
  BY <1>1, <1>6 DEF DropAcceptance
<1>7. CASE OutsideStep
  BY <1>1, <1>7 DEF OutsideStep, Tick, DisableAccount, SetFrozen, CloseTenant, SeatMoves
<1>8. CASE UNCHANGED vars
  BY <1>1, <1>8 DEF vars
<1> QED BY <1>2, <1>3, <1>4, <1>5, <1>6, <1>7, <1>8 DEF Next

\* A new FAU has no requests, and its activation invitation answers none.
LEMMA InitAgreement == Init => AgreeInv
<1> SUFFICES ASSUME Init PROVE AgreeInv
  OBVIOUS
<1>1. DOMAIN request = {}
  BY DEF Init
<1>2. \A i \in DOMAIN invitation : invitation[i].request = 0
  BY DEF Init, NewInvitation
<1> QED BY <1>1, <1>2 DEF AgreeInv, ProposerIsMember

\* Whatever approve, decline, lapse, withdraw and a removal do in whichever order, an approved
\* request has led to exactly one invitation, any other to none, and no proposal waits for
\* somebody who is no longer a member.
THEOREM RequestsDoAgree == Spec => []RequestsAgree
<1>1. IndInv /\ AgreeInv => RequestsAgree
  <2> SUFFICES ASSUME AgreeInv PROVE RequestsAgree
    OBVIOUS
  <2>1. ASSUME NEW r \in DOMAIN request
        PROVE  Cardinality(Issued(r)) = IF request[r].status = "approved" THEN 1 ELSE 0
    <3>1. OneOutcome(r)
      BY DEF AgreeInv
    <3>2. Cardinality({}) = 0 /\ \A i \in DOMAIN invitation : Cardinality({i}) = 1
      BY FS_EmptySet, FS_Singleton
    <3> HIDE DEF Issued
    <3> QED BY <3>1, <3>2 DEF OneOutcome
  <2>2. ApprovalIssuesOneInvitation
    BY <2>1 DEF ApprovalIssuesOneInvitation, Issued
  <2> QED BY <2>2 DEF RequestsAgree, AgreeInv
<1>2. Init => AgreeInv
  BY InitAgreement
<1>3. IndInv /\ AgreeInv /\ [Next]_vars => AgreeInv'
  BY NextKeepsAgreement
<1> QED BY <1>1, <1>2, <1>3, Inductive, PTL DEF Spec

\* Only a pending request changes its status.
LEMMA ClosedStaysClosed ==
  ASSUME IndInv, [Next]_vars, NEW r \in DOMAIN request, request[r].status # "pending"
  PROVE  request'[r].status = request[r].status
<1>1. CASE UNCHANGED request
  BY <1>1
<1>2. ASSUME NEW at, NEW kind, NEW p, NEW invitee, InsertRequest(at, kind, p, invitee)
      PROVE  request'[r] = request[r]
  BY <1>2 DEF InsertRequest, Fresh, Insert
<1>3. ASSUME NEW x, LockPendingRequest(x), NEW status, CloseRequest(x, status)
      PROVE  request'[r] = request[r]
  BY <1>3 DEF LockPendingRequest, CloseRequest
<1>4. ASSUME NEW at, LapseRequests(at) PROVE request'[r] = request[r]
  BY <1>4 DEF LapseRequests, DueRequests
<1>5. ASSUME NEW p, request' = WithdrawPendingRequests(p) PROVE request'[r] = request[r]
  BY <1>5 DEF WithdrawPendingRequests
<1>6. ASSUME NEW at \in AtDays, RequestStep(at) PROVE request'[r] = request[r]
  BY <1>2, <1>3, <1>4, <1>6 DEF RequestStep, CreateAccessRequest, CreateReplacementProposal,
                                 ApproveRequest, DeclineRequest
<1>7. ASSUME NEW at \in AtDays, RoleStep(at) PROVE request'[r] = request[r]
  BY <1>5, <1>7 DEF RoleStep, GrantRole, RevokeRoleAssignment, RevokeMembership
<1>8. ASSUME NEW at \in AtDays, HandoverStep(at) \/ InvitationStep(at) PROVE UNCHANGED request
  BY <1>8 DEF HandoverStep, SweepScan, RecoveryGrantAdmin, InvitationStep, IssueInvitation,
              IssueHandoverInvitation, ResendInvitation, WithdrawInvitation, AcceptInvitation
<1>9. ASSUME NEW at \in sweeping, SweepTenant(at) \/ SweepStops(at) PROVE UNCHANGED request
  BY <1>9 DEF SweepTenant, SweepStops
<1>10. ASSUME NEW at \in AtDays, NEW actor \in Person, ArchiveGroup(at, actor)
       PROVE  UNCHANGED request
  BY <1>10 DEF ArchiveGroup
<1>11. ASSUME NEW i \in Invitation, PrepareAcceptance(i) PROVE UNCHANGED request
  BY <1>11 DEF PrepareAcceptance
<1>12. ASSUME NEW q \in accepting, DropAcceptance(q) PROVE UNCHANGED request
  BY <1>12 DEF DropAcceptance
<1>13. CASE OutsideStep
  BY <1>1, <1>13 DEF OutsideStep, Tick, DisableAccount, SetFrozen, CloseTenant, SeatMoves
<1>14. CASE UNCHANGED vars
  BY <1>1, <1>14 DEF vars
<1> QED BY <1>1, <1>6, <1>7, <1>8, <1>9, <1>10, <1>11, <1>12, <1>13, <1>14 DEF Next

\* The outcome of a closed request is final, although the lapse sweep holds no tenant lock.
THEOREM OutcomesAreFinal == Spec => ClosedRequestStaysClosed
<1>1. IndInv /\ [Next]_vars =>
        [\A r \in DOMAIN request :
           request[r].status # "pending" => request'[r].status = request[r].status]_vars
  BY ClosedStaysClosed
<1> QED BY <1>1, Inductive, PTL DEF Spec, ClosedRequestStaysClosed

-----------------------------------------------------------------------------
(* What an acceptance rests on. *)

\* An invitation bears the kind of the seat of its day, and a recovery invitation is for
\* somebody else than who wrote it.
SeatInv ==
  \A i \in DOMAIN invitation :
    /\ invitation[i].holder = SeatKind(invitation[i].author)
    /\ invitation[i].mode = "recovery" => invitation[i].recipient # invitation[i].author

\* Who invitations are from and for stays.
LEMMA SeatKept ==
  ASSUME SeatInv,
         \A i \in DOMAIN invitation' :
           \/ /\ i \in DOMAIN invitation
              /\ invitation'[i].mode = invitation[i].mode
              /\ invitation'[i].holder = invitation[i].holder
              /\ invitation'[i].author = invitation[i].author
              /\ invitation'[i].recipient = invitation[i].recipient
           \/ /\ invitation'[i].holder = SeatKind(invitation'[i].author)
              /\ invitation'[i].mode = "recovery" => invitation'[i].recipient # invitation'[i].author
  PROVE  SeatInv'
BY DEF SeatInv, SeatKind

\* A new invitation carries the seat of its day, and a recovery one is for somebody else.
LEMMA IssueKeepsSeat ==
  ASSUME SeatInv, NEW i \in Fresh(invitation, Invitation),
         NEW at, NEW mode, NEW recipient, NEW issuer, NEW g, NEW r, NEW class, NEW period,
         mode = "recovery" => recipient # seat,
         invitation' = Insert(invitation, i,
           NewInvitation(at, mode, recipient, issuer, g, r, class, period))
  PROVE  SeatInv'
<1> DEFINE row == NewInvitation(at, mode, recipient, issuer, g, r, class, period)
<1>1. /\ row.mode = mode /\ row.author = seat /\ row.holder = SeatKind(seat)
      /\ row.recipient = recipient
  BY DEF NewInvitation
<1> HIDE DEF row
<1>2. /\ DOMAIN invitation' = DOMAIN invitation \cup {i} /\ invitation'[i] = row
      /\ \A j \in DOMAIN invitation : j # i => invitation'[j] = invitation[j]
  BY DEF Insert, row
<1> QED BY <1>1, <1>2, SeatKept

\* Resending, withdrawing and accepting change other things of an invitation.
LEMMA ChangeKeepsSeat ==
  ASSUME IndInv, SeatInv, NEW at \in AtDays,
         \/ \E actor \in Person, i \in Invitation : \/ ResendInvitation(at, actor, i)
                                                    \/ WithdrawInvitation(at, actor, i)
         \/ \E q \in accepting : \E end : AcceptInvitation(at, q, end)
  PROVE  SeatInv'
<1>1. \A j \in DOMAIN invitation : invitation[j] \in InvitationRow
  BY DEF IndInv, TypeOK, InvitationType
<1>2. ASSUME NEW j \in DOMAIN invitation
      PROVE  \A token, expires :
               LET row == [invitation[j] EXCEPT !.token = token, !.expires = expires]
               IN  /\ row.mode = invitation[j].mode /\ row.holder = invitation[j].holder
                   /\ row.author = invitation[j].author /\ row.recipient = invitation[j].recipient
  BY <1>1 DEF InvitationRow
<1>3. ASSUME NEW j \in DOMAIN invitation
      PROVE  \A status :
               LET row == [invitation[j] EXCEPT !.status = status]
               IN  /\ row.mode = invitation[j].mode /\ row.holder = invitation[j].holder
                   /\ row.author = invitation[j].author /\ row.recipient = invitation[j].recipient
  BY <1>1 DEF InvitationRow
<1>4. ASSUME NEW actor \in Person, NEW i \in Invitation, ResendInvitation(at, actor, i)
      PROVE  SeatInv'
  <2>1. /\ invitation' = [invitation EXCEPT ![i] =
             [invitation[i] EXCEPT !.token = invitation[i].token + 1,
                                   !.expires = at + InvitationDays]]
        /\ i \in DOMAIN invitation
    BY <1>4 DEF ResendInvitation
  <2> QED BY <1>2, <2>1, SeatKept
<1>5. ASSUME NEW i \in DOMAIN invitation, NEW status,
             invitation' = [invitation EXCEPT ![i] = [invitation[i] EXCEPT !.status = status]]
      PROVE  SeatInv'
  BY <1>3, <1>5, SeatKept
<1>6. ASSUME NEW actor \in Person, NEW i \in Invitation, WithdrawInvitation(at, actor, i)
      PROVE  SeatInv'
  BY <1>5, <1>6 DEF WithdrawInvitation
<1>7. ASSUME NEW q \in accepting, NEW end, AcceptInvitation(at, q, end)
      PROVE  SeatInv'
  <2>1. q.inv \in DOMAIN invitation
    BY DEF IndInv, TypeOK, InvitationType
  <2>2. invitation' = [invitation EXCEPT ![q.inv] =
                        [invitation[q.inv] EXCEPT !.status = "accepted"]]
    BY <1>7 DEF AcceptInvitation
  <2> QED BY <1>5, <2>1, <2>2
<1> QED BY <1>4, <1>6, <1>7

\* Every step keeps it, whoever takes the seat over.
LEMMA NextKeepsSeat ==
  ASSUME IndInv, SeatInv, [Next]_vars
  PROVE  SeatInv'
<1>1. ASSUME UNCHANGED invitation PROVE SeatInv'
  BY <1>1 DEF SeatInv
<1>2. ASSUME NEW at \in AtDays, RoleStep(at) PROVE SeatInv'
  BY <1>1, <1>2 DEF RoleStep, GrantRole, RevokeRoleAssignment, RevokeMembership
<1>3. ASSUME NEW at \in AtDays, HandoverStep(at) PROVE SeatInv'
  BY <1>1, <1>3, IssueKeepsSeat DEF HandoverStep, SweepScan, RecoveryGrantAdmin
<1>4. ASSUME NEW at \in AtDays, InvitationStep(at) PROVE SeatInv'
  BY <1>4, ChangeKeepsSeat, IssueKeepsSeat
     DEF InvitationStep, IssueInvitation, IssueHandoverInvitation
<1>5. ASSUME NEW at \in AtDays, RequestStep(at) PROVE SeatInv'
  BY <1>1, <1>5, IssueKeepsSeat DEF RequestStep, CreateAccessRequest, CreateReplacementProposal,
     ApproveRequest, DeclineRequest, LapseRequests
<1>6. ASSUME NEW at \in sweeping, SweepTenant(at) \/ SweepStops(at) PROVE SeatInv'
  BY <1>1, <1>6 DEF SweepTenant, SweepStops
<1>7. ASSUME NEW at \in AtDays, NEW actor \in Person, ArchiveGroup(at, actor) PROVE SeatInv'
  BY <1>1, <1>7 DEF ArchiveGroup
<1>8. ASSUME NEW i \in Invitation, PrepareAcceptance(i) PROVE SeatInv'
  BY <1>1, <1>8 DEF PrepareAcceptance
<1>9. ASSUME NEW q \in accepting, DropAcceptance(q) PROVE SeatInv'
  BY <1>1, <1>9 DEF DropAcceptance
<1>10. CASE OutsideStep
  BY <1>1, <1>10 DEF OutsideStep, Tick, DisableAccount, SetFrozen, CloseTenant, SeatMoves
<1>11. CASE UNCHANGED vars
  BY <1>1, <1>11 DEF vars
<1> QED BY <1>2, <1>3, <1>4, <1>5, <1>6, <1>7, <1>8, <1>9, <1>10, <1>11 DEF Next

\* Every reachable state has it.
LEMMA SeatsAreKept == Spec => []SeatInv
<1>1. Init => SeatInv
  BY DEF Init, SeatInv, NewInvitation, SeatKind
<1>2. IndInv /\ SeatInv /\ [Next]_vars => SeatInv'
  BY NextKeepsSeat
<1> QED BY <1>1, <1>2, Inductive, PTL DEF Spec

\* The step that accepts an invitation.
Accepted(i) == invitation[i].status = "pending" /\ invitation'[i].status = "accepted"

\* It is an acceptance of that invitation, and of no other.
LEMMA AcceptedByAcceptance ==
  ASSUME IndInv, [Next]_vars, NEW i \in DOMAIN invitation, Accepted(i)
  PROVE  \E at \in AtDays, q \in accepting : q.inv = i /\ \E end : AcceptInvitation(at, q, end)
<1> DEFINE Goal == \E at \in AtDays, q \in accepting :
                     q.inv = i /\ \E end : AcceptInvitation(at, q, end)
<1> SUFFICES Goal
  OBVIOUS
<1> HIDE DEF Goal
<1>1. invitation'[i] # invitation[i]
  BY DEF Accepted
<1>2. ASSUME NEW j \in Fresh(invitation, Invitation), NEW row, invitation' = Insert(invitation, j, row)
      PROVE  FALSE
  BY <1>1, <1>2 DEF Fresh, Insert
<1>3. ASSUME NEW at \in AtDays, RoleStep(at) \/ HandoverStep(at) \/ RequestStep(at) PROVE FALSE
  BY <1>1, <1>2, <1>3 DEF RoleStep, GrantRole, RevokeRoleAssignment, RevokeMembership,
     HandoverStep, SweepScan, RecoveryGrantAdmin, RequestStep, CreateAccessRequest,
     CreateReplacementProposal, ApproveRequest, DeclineRequest, LapseRequests
<1>4. ASSUME NEW at \in AtDays, InvitationStep(at) PROVE Goal
  <2>1. ASSUME NEW actor \in Person, NEW j \in Invitation, ResendInvitation(at, actor, j)
        PROVE  FALSE
    <3>1. invitation[i] \in InvitationRow
      BY DEF IndInv, TypeOK, InvitationType
    <3>2. invitation'[i].status = invitation[i].status
      BY <2>1, <3>1 DEF ResendInvitation, InvitationRow
    <3> QED BY <3>2 DEF Accepted
  <2>2. ASSUME NEW actor \in Person, NEW j \in Invitation, WithdrawInvitation(at, actor, j)
        PROVE  FALSE
    <3>1. invitation[i] \in InvitationRow
      BY DEF IndInv, TypeOK, InvitationType
    <3>2. invitation'[i].status # "accepted"
      BY <1>1, <2>2, <3>1 DEF WithdrawInvitation, InvitationRow
    <3> QED BY <3>2 DEF Accepted
  <2>3. ASSUME NEW q \in accepting, NEW end, AcceptInvitation(at, q, end) PROVE Goal
    <3>1. q.inv = i
      BY <1>1, <2>3 DEF AcceptInvitation
    <3> QED BY <2>3, <3>1 DEF Goal
  <2> QED BY <1>2, <1>4, <2>1, <2>2, <2>3
          DEF InvitationStep, IssueInvitation, IssueHandoverInvitation
<1>5. ASSUME NEW at \in sweeping, SweepTenant(at) \/ SweepStops(at) PROVE FALSE
  BY <1>1, <1>5 DEF SweepTenant, SweepStops
<1>6. ASSUME NEW at \in AtDays, NEW actor \in Person, ArchiveGroup(at, actor) PROVE FALSE
  BY <1>1, <1>6 DEF ArchiveGroup
<1>7. ASSUME NEW j \in Invitation, PrepareAcceptance(j) PROVE FALSE
  BY <1>1, <1>7 DEF PrepareAcceptance
<1>8. ASSUME NEW q \in accepting, DropAcceptance(q) PROVE FALSE
  BY <1>1, <1>8 DEF DropAcceptance
<1>9. CASE OutsideStep
  BY <1>1, <1>9 DEF OutsideStep, Tick, DisableAccount, SetFrozen, CloseTenant, SeatMoves
<1>10. CASE UNCHANGED vars
  BY <1>1, <1>10 DEF vars
<1> QED BY <1>3, <1>4, <1>5, <1>6, <1>7, <1>8, <1>9, <1>10 DEF Next

\* What check_acceptance has found under the lock when an invitation becomes accepted.
LEMMA AcceptanceWasChecked ==
  ASSUME IndInv, [Next]_vars, NEW i \in DOMAIN invitation, Accepted(i)
  PROVE  /\ \E q \in accepting : q.inv = i /\ q.token = invitation[i].token
         /\ \E at \in AtDays : IssuerAuthorised(i, at)
<1>1. PICK at \in AtDays, q \in accepting : q.inv = i /\ \E end : AcceptInvitation(at, q, end)
  BY AcceptedByAcceptance
<1>2. PICK end : AcceptInvitation(at, q, end)
  BY <1>1
<1>3. InvitationStands(q) /\ IssuerAuthorised(q.inv, at)
  BY <1>2 DEF AcceptInvitation
<1>4. q.inv = i
  BY <1>1
<1>5. q.token = invitation[i].token
  BY <1>3, <1>4 DEF InvitationStands
<1>6. IssuerAuthorised(i, at)
  BY <1>3, <1>4
<1> QED BY <1>4, <1>5, <1>6

\* An acceptance goes through only on the token in force at that moment.
THEOREM OnlyTheTokenInForce == Spec => ResentTokenAdmitsNobody
<1>1. IndInv /\ [Next]_vars =>
        [\A i \in DOMAIN invitation :
           invitation[i].status = "pending" /\ invitation'[i].status = "accepted" =>
             \E q \in accepting : q.inv = i /\ q.token = invitation[i].token]_vars
  BY AcceptanceWasChecked DEF Accepted
<1> QED BY <1>1, Inductive, PTL DEF Spec, ResentTokenAdmitsNobody

\* A removed or disabled issuer's invitation admits nobody, whenever the acceptance was begun.
THEOREM IssuersStillStand == Spec => InvitationDiesWithItsIssuer
<1>1. ASSUME IndInv, [Next]_vars, NEW i \in DOMAIN invitation, Accepted(i),
             invitation[i].mode \in {"normal", "handover"}
      PROVE  Usable(invitation[i].issuer)
  <2>1. PICK at \in AtDays : IssuerAuthorised(i, at)
    BY <1>1, AcceptanceWasChecked
  <2>2. CASE invitation[i].mode = "normal"
    BY <2>1, <2>2 DEF IssuerAuthorised, IsAdminToday
  <2>3. CASE invitation[i].mode = "handover"
    BY <2>1, <2>3 DEF IssuerAuthorised, HandoverGrantValid
  <2> QED BY <1>1, <2>2, <2>3
<1>2. IndInv /\ [Next]_vars =>
        [\A i \in DOMAIN invitation :
           /\ invitation[i].status = "pending" /\ invitation'[i].status = "accepted"
           /\ invitation[i].mode \in {"normal", "handover"}
           => Usable(invitation[i].issuer)]_vars
  BY <1>1 DEF Accepted
<1> QED BY <1>2, Inductive, PTL DEF Spec, InvitationDiesWithItsIssuer

\* Through whatever hands the seat goes, its holder becomes an admin by a recovery invitation
\* only if another representative wrote it (recovery_grant_admin, recovery_seat_matches).
THEOREM NoSelfSeating == Spec => SelfSeatingNeedsAnotherRepresentative
<1>1. ASSUME IndInv, SeatInv, [Next]_vars, NEW i \in DOMAIN invitation, Accepted(i),
             invitation[i].mode = "recovery", invitation[i].recipient = seat
      PROVE  invitation[i].author \in Person \ {seat}
  <2>1. PICK at \in AtDays : IssuerAuthorised(i, at)
    BY <1>1, AcceptanceWasChecked
  <2>2. invitation[i].holder = SeatKind(seat)
    BY <1>1, <2>1 DEF IssuerAuthorised
  <2>3. invitation[i].author # seat /\ SeatKind(invitation[i].author) = SeatKind(seat)
    BY <1>1, <2>2 DEF SeatInv
  <2>4. invitation[i].author # Ewb
    BY <2>3 DEF SeatKind
  <2>5. invitation[i].author \in Person \cup {Ewb}
    BY <1>1 DEF IndInv, TypeOK, InvitationType, InvitationRow
  <2> QED BY <2>3, <2>4, <2>5
<1>2. IndInv /\ SeatInv /\ [Next]_vars =>
        [\A i \in DOMAIN invitation :
           /\ invitation[i].status = "pending" /\ invitation'[i].status = "accepted"
           /\ invitation[i].mode = "recovery"
           /\ invitation[i].recipient = seat
           => invitation[i].author \in Person \ {seat}]_vars
  BY <1>1 DEF Accepted
<1> QED BY <1>2, Inductive, SeatsAreKept, PTL DEF Spec, SelfSeatingNeedsAnotherRepresentative
=============================================================================
