---------------------------- MODULE AccessRules ----------------------------
(***************************************************************************)
(* The pure access rules of crates/domain/src/membership/{access,period}.rs *)
(* that the membership transactions share.  A day is a natural number, a    *)
(* period is half open: it contains `from` and excludes `to`.               *)
(*                                                                         *)
(* The rules take the rows they judge as sets of views: an AssignmentView   *)
(* is [capability, from, to, revoked], a GrantView is [from, to, revoked].  *)
(* The code passes slices; no rule depends on their order or on duplicates. *)
(***************************************************************************)
EXTENDS Naturals

CapabilityClass == {"guest", "member", "admin"}

Contains(period, day) == period.from <= day /\ day < period.to

HasEndedBy(period, day) == period.to <= day

ValidOn(view, day) == ~view.revoked /\ Contains(view, day)

\* The negation of the no-admin state: an admin role or a handover grant valid that day.
TenantHasAdmin(assignments, grants, day) ==
  \/ \E a \in assignments : a.capability = "admin" /\ ValidOn(a, day)
  \/ \E g \in grants : ValidOn(g, day)

-----------------------------------------------------------------------------
(***************************************************************************)
(* The last-admin safeguard.  The code does not look at every day: it tries *)
(* the first remaining day of each removed row and every end of a remaining *)
(* row inside it.                                                          *)
(***************************************************************************)

\* The unrevoked rows that confer admin authority, roles and grants alike.
AdminPeriods(assignments, grants) ==
  {a \in assignments : ~a.revoked /\ a.capability = "admin"}
    \cup {g \in grants : ~g.revoked}

FirstRemainingDay(period, today) ==
  IF period.from >= today THEN period.from ELSE today

RemovalLeavesNoAdmin(keptA, keptG, goneA, goneG, today) ==
  \E p \in AdminPeriods(goneA, goneG) :
    LET first == FirstRemainingDay(p, today)
    IN  /\ ~HasEndedBy(p, today)
        /\ \/ ~TenantHasAdmin(keptA, keptG, first)
           \/ \E r \in AdminPeriods(keptA, keptG) :
                /\ first < r.to
                /\ r.to < p.to
                /\ ~TenantHasAdmin(keptA, keptG, r.to)

\* What the safeguard is for, stated day by day: some day from today on has an admin
\* only through the rows being removed.
LeavesGap(keptA, keptG, goneA, goneG, today) ==
  \E p \in AdminPeriods(goneA, goneG) :
    \E day \in p.from .. p.to :
      /\ day >= today
      /\ Contains(p, day)
      /\ ~TenantHasAdmin(keptA, keptG, day)
=============================================================================
