---------------------------- MODULE SchoolClaim ----------------------------
(***************************************************************************)
(* What signup promises each school (docs/fau-creation-and-membership-flow  *)
(* .md 3.2 to 3.4, and the index tenants_one_live_per_school): at most one  *)
(* FAU holds it at a time.  A free school, or one whose pending FAU has run *)
(* out, is claimed by a new FAU; a pending FAU that has run out is deleted; *)
(* a pending FAU becomes active; an active FAU keeps the school until it is *)
(* closed.  Every change is one atomic step.                               *)
(***************************************************************************)
EXTENDS Naturals

CONSTANTS School, Tenant, Deadline, NoTenant

VARIABLES
  today,
  claim      \* per school: the FAU that holds it, its status and its deadline

vars == <<today, claim>>

Free == [tenant |-> NoTenant, status |-> "free", expires |-> 0]

RunOut(s) == claim[s].status = "pending" /\ claim[s].expires <= today

Init == today = 0 /\ claim = [s \in School |-> Free]

Claim(s) ==
  /\ claim[s] = Free \/ RunOut(s)
  /\ \E t \in Tenant, expires \in Deadline :
       /\ t # claim[s].tenant
       /\ claim' = [claim EXCEPT ![s] = [tenant |-> t, status |-> "pending", expires |-> expires]]
  /\ UNCHANGED today

Release(schools) ==
  /\ \A s \in schools : RunOut(s)
  /\ claim' = [s \in School |-> IF s \in schools THEN Free ELSE claim[s]]
  /\ UNCHANGED today

Activate(s) ==
  /\ claim[s].status = "pending"
  /\ claim' = [claim EXCEPT ![s].status = "active"]
  /\ UNCHANGED today

Close(s) ==
  /\ claim[s].status = "active"
  /\ claim' = [claim EXCEPT ![s] = Free]
  /\ UNCHANGED today

Tick == today' = today + 1 /\ UNCHANGED claim

Next ==
  \/ \E s \in School : Claim(s) \/ Activate(s) \/ Close(s)
  \/ \E schools \in SUBSET School : Release(schools)
  \/ Tick

Spec == Init /\ [][Next]_vars
=============================================================================
