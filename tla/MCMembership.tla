---------------------------- MODULE MCMembership ----------------------------
(***************************************************************************)
(* Small FAUs for TLC.  Terms are a few days long, so that a role, its      *)
(* handover window, an invitation and a request all begin and end within    *)
(* the LastDay a configuration sets.                                       *)
(***************************************************************************)
EXTENDS Membership, TLC

CONSTANTS ann, bo

Row(p, class, first, last) ==
  [holder |-> p, capability |-> class, from |-> first, to |-> last]

Term(first, last) == [from |-> first, to |-> last]

\* One admin and one plain member.
AdminAndMember == 1 :> Row(ann, "admin", 0, 2) @@ 2 :> Row(bo, "member", 0, 4)
\* Two admins whose terms end at different times.
TwoAdmins == 1 :> Row(ann, "admin", 0, 2) @@ 2 :> Row(bo, "admin", 0, 3)
\* One admin only.
OneAdmin == 1 :> Row(ann, "admin", 0, 2)

ShortTerm == {Term(0, 2)}
NextTerm == {Term(1, 3)}
AdminOnly == {"admin"}
MemberOnly == {"member"}
GuestOnly == {"guest"}
=============================================================================
