----------------------------- MODULE MCEventHub -----------------------------
(***************************************************************************)
(* A small FAU with an admin, a second person and one group.               *)
(***************************************************************************)
EXTENDS Disclosure, TLC

CONSTANTS ann, bo, g1

\* ann is an admin and bo a member; a guest role would follow the group.
AdminAndMember == ann :> {"admin"} @@ bo :> {"member"}
WithOrWithoutGroup == {g1 :> "closed", g1 :> "absent"}
OpenGroup == {g1 :> "open"}
GuestsFollow == {<<"guest", g1>>}
Roles == {<<"member", "later">>, <<"guest", "now">>}
=============================================================================
