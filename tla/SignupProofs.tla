---------------------------- MODULE SignupProofs ----------------------------
(***************************************************************************)
(* Signup keeps its tables in order, a school never has two live FAUs nor   *)
(* an address too many signups, an expired signup stands in nobody's way,   *)
(* and the whole implements SchoolClaim, for any number of schools,         *)
(* addresses and overlapping transactions.                                 *)
(*                                                                         *)
(* The inductive invariant adds what the open transactions may rely on:     *)
(* row locks exclude each other, a deleted row has run out, a signup's id   *)
(* is its own, and a signup that has inserted its FAU is the only one in    *)
(* its school and sees nobody else there.                                  *)
(***************************************************************************)
EXTENDS Signup, FiniteSetTheorems, TLAPS

BoundInv ==
  /\ today <= LastDay
  /\ made <= MaxSignups

\* Only signups carry an address; a signup has a school and an id nobody else uses.
SignupInv ==
  \A r \in Transaction :
    /\ task[r].address # NoAddress =>
         /\ task[r].pc \notin {"idle", "activate"}
         /\ task[r].school \in School
         /\ task[r].target \in 1 .. made
         /\ task[r].target \notin DOMAIN tenant
         /\ \A q \in Transaction \ {r} :
              task[q].address # NoAddress => task[q].target # task[r].target
         /\ \A q \in Transaction : task[r].target \notin task[q].due
    /\ task[r].pc \in {"lock", "count", "insert", "reread", "collide", "commit"} =>
         task[r].address # NoAddress
    /\ task[r].school # AnySchool => task[r].address # NoAddress

\* A row a delete has chosen has run out; one it has deleted is still pending, and nobody
\* else has deleted or locked it.
LockInv ==
  \A r \in Transaction :
    /\ \A t \in task[r].due \cup task[r].deleted :
         t \in DOMAIN tenant =>
           /\ tenant[t].expires <= task[r].at
           /\ task[r].school # AnySchool => tenant[t].school = task[r].school
    /\ \A t \in task[r].deleted : tenant[t].status = "pending"
    /\ task[r].pc = "activate" => tenant[task[r].target].status = "pending"
    /\ \A q \in Transaction \ {r} : \A t \in DOMAIN tenant : ~(Locks(r, t) /\ Locks(q, t))

\* A signup that has inserted its FAU is alone in its school.
InsertInv ==
  \A r \in Transaction :
    task[r].pc = "commit" =>
      /\ LiveTenantForSchool(r) = {}
      /\ \A q \in Transaction \ {r} : task[q].pc = "commit" => task[q].school # task[r].school

IndInv == TypeOK /\ BoundInv /\ SignupInv /\ LockInv /\ InsertInv /\ OneLivePerSchool

-----------------------------------------------------------------------------
(* Steps of one transaction that leave the tables alone. *)

\* The facts about the constants that the steps use.
LEMMA Constants ==
  /\ AnySchool \notin School
  /\ NoAddress \notin Address
  /\ NoTenant \notin Nat
  /\ PendingDays \in Nat
  /\ LastDay \in Nat
  /\ MaxSignups \in Nat
BY NameAssumption, NumberAssumption

\* The empty transaction is well formed.
LEMMA NoTaskType ==
  ASSUME TypeOK PROVE NoTask \in TaskRow
BY DEF NoTask, TaskRow, TypeOK

\* The initial state satisfies the invariant.
LEMMA InitInd ==
  ASSUME Init PROVE IndInv
<1>1. TypeOK
  BY DEF Init, TypeOK, NoTask, TaskRow
<1>2. BoundInv
  BY Constants DEF Init, BoundInv
<1>3. SignupInv /\ LockInv /\ InsertInv
  BY DEF Init, SignupInv, LockInv, InsertInv, NoTask, Locks
<1>4. OneLivePerSchool
  BY DEF Init, OneLivePerSchool
<1> QED
  BY <1>1, <1>2, <1>3, <1>4 DEF IndInv

\* A transaction that ends with nothing done leaves the invariant standing.
LEMMA EndInd ==
  ASSUME IndInv, NEW r \in Transaction, End(r), UNCHANGED <<today, tenant, made>>
  PROVE  IndInv'
<1> USE DEF IndInv, End
<1>1. TypeOK'
  BY NoTaskType DEF TypeOK, TenantRow, TaskRow, NoTask
<1>2. BoundInv'
  BY DEF BoundInv
<1>3. task' \in [Transaction -> TaskRow] /\ task'[r] = NoTask
      /\ \A q \in Transaction \ {r} : task'[q] = task[q]
  BY NoTaskType DEF TypeOK, TaskRow
<1>4. SignupInv'
  BY <1>3 DEF SignupInv, NoTask
<1>5. LockInv'
  BY <1>3 DEF LockInv, NoTask, Locks
<1>6. InsertInv'
  BY <1>3 DEF InsertInv, NoTask, LiveTenantForSchool, IsLive
<1>7. OneLivePerSchool'
  BY DEF OneLivePerSchool, IsLive
<1> QED
  BY <1>1, <1>2, <1>4, <1>5, <1>6, <1>7

\* So does a statement of a signup or of the sweep that changes no row and inserts none: the
\* transaction keeps its school, id and locks, and chooses only rows that have run out.
LEMMA MoveInd ==
  ASSUME IndInv, NEW r \in Transaction, NEW x \in TaskRow,
         task' = [task EXCEPT ![r] = x], UNCHANGED <<today, tenant, made>>,
         task[r].pc # "activate",
         x.pc \notin {"idle", "activate", "commit"},
         x.pc \in {"lock", "count", "insert", "reread", "collide"} => x.address # NoAddress,
         x.at = task[r].at, x.school = task[r].school, x.address = task[r].address,
         x.target = task[r].target, x.deleted = task[r].deleted,
         \A t \in x.due :
           t \in DOMAIN tenant =>
             /\ tenant[t].expires <= x.at
             /\ x.school # AnySchool => tenant[t].school = x.school,
         x.due \subseteq task[r].due \cup DOMAIN tenant
  PROVE  IndInv'
<1> USE DEF IndInv
<1>1. /\ task' \in [Transaction -> TaskRow] /\ task'[r] = x
      /\ \A q \in Transaction \ {r} : task'[q] = task[q]
  BY DEF TypeOK, TaskRow
<1>2. TypeOK'
  BY <1>1 DEF TypeOK, TenantRow, TaskRow
<1>3. BoundInv'
  BY DEF BoundInv
<1>4. SignupInv'
  BY <1>1 DEF SignupInv
<1>5. \A q \in Transaction : \A t \in DOMAIN tenant : Locks(q, t)' <=> Locks(q, t)
  BY <1>1 DEF Locks
<1>6. LockInv'
  <2>1. \A q \in Transaction : \A t \in task'[q].due \cup task'[q].deleted :
          t \in DOMAIN tenant =>
            /\ tenant[t].expires <= task'[q].at
            /\ task'[q].school # AnySchool => tenant[t].school = task'[q].school
    BY <1>1 DEF LockInv
  <2>2. \A q \in Transaction :
          /\ \A t \in task'[q].deleted : tenant[t].status = "pending"
          /\ task'[q].pc = "activate" => tenant[task'[q].target].status = "pending"
    BY <1>1 DEF LockInv
  <2> QED
    BY <2>1, <2>2, <1>5 DEF LockInv
<1>7. InsertInv'
  BY <1>1 DEF InsertInv, LiveTenantForSchool, IsLive
<1>8. OneLivePerSchool'
  BY DEF OneLivePerSchool, IsLive
<1> QED
  BY <1>2, <1>3, <1>4, <1>6, <1>7, <1>8

-----------------------------------------------------------------------------
(* One lemma per statement. *)

\* A signup begins with an id of its own.
LEMMA BeginSignupInd ==
  ASSUME IndInv, NEW r \in Transaction, NEW at \in AtDays, NEW s \in School, NEW p \in Address,
         NEW ends \in Nat, BeginSignup(r, at, s, p, ends)
  PROVE  IndInv'
<1> USE DEF IndInv, BeginSignup
<1> DEFINE x == [NoTask EXCEPT !.pc = "lock", !.at = at, !.school = s,
                               !.address = p, !.ends = ends, !.target = made + 1]
<1>1. /\ made' = made + 1 /\ made' \in Nat /\ UNCHANGED <<today, tenant>>
      /\ made' <= MaxSignups
  BY Constants DEF TypeOK
<1>2. TaskRow \subseteq TaskRow' /\ x \in TaskRow'
  <2>1. at \in 0 .. today /\ today' = today
    BY <1>1 DEF AtDays
  <2>2. 1 .. made \subseteq 1 .. made' /\ 0 .. made \subseteq 0 .. made' /\ made + 1 \in 0 .. made'
    BY <1>1 DEF TypeOK
  <2>3. TaskRow \subseteq TaskRow'
    BY <2>1, <2>2 DEF TaskRow
  <2>4. x \in TaskRow'
    BY ZenonT(30), <2>1, <2>2, <2>3, NoTaskType DEF TaskRow, NoTask
  <2> QED
    BY <2>3, <2>4
<1>3. /\ task' \in [Transaction -> TaskRow'] /\ task'[r] = x
      /\ \A q \in Transaction \ {r} : task'[q] = task[q]
  BY <1>2 DEF TypeOK
<1>4. TypeOK'
  BY <1>1, <1>3 DEF TypeOK, TenantRow, NoTask
<1>5. BoundInv'
  BY <1>1 DEF BoundInv
<1>6. \A q \in Transaction : task[q].target <= made /\ task[q].target \in Nat
  BY DEF TypeOK, TaskRow
<1>7. SignupInv'
  <2>1. /\ x.target \in 1 .. made' /\ x.target \notin DOMAIN tenant
        /\ \A q \in Transaction : task[q].target # x.target
    BY <1>1, <1>6 DEF TypeOK, NoTask
  <2>2. /\ x.pc = "lock" /\ x.school = s /\ x.address = p
    BY DEF NoTask
  <2>3. \A q \in Transaction : task[q].target \in 1 .. made => task[q].target \in 1 .. made'
    BY <1>1 DEF TypeOK
  <2>8. x.due = {} /\ \A q \in Transaction : x.target \notin task[q].due
    BY <2>1 DEF NoTask, TypeOK, TaskRow
  <2> HIDE DEF x
  <2>4. /\ x.address # NoAddress /\ x.pc \notin {"idle", "activate"} /\ x.school \in School
    BY <2>2, Constants
  <2>5. \A q \in Transaction :
          task'[q].address # NoAddress =>
            /\ task'[q].pc \notin {"idle", "activate"}
            /\ task'[q].school \in School
            /\ task'[q].target \in 1 .. made'
            /\ task'[q].target \notin DOMAIN tenant
            /\ \A v \in Transaction : task'[q].target \notin task'[v].due
    BY <1>3, <2>1, <2>3, <2>4, <2>8 DEF SignupInv
  <2>6. \A q, v \in Transaction :
          q # v /\ task'[q].address # NoAddress /\ task'[v].address # NoAddress =>
            task'[q].target # task'[v].target
    BY ZenonT(30), <1>3, <2>1 DEF SignupInv
  <2>7. \A q \in Transaction :
          /\ task'[q].pc \in {"lock", "count", "insert", "reread", "collide", "commit"} =>
               task'[q].address # NoAddress
          /\ task'[q].school # AnySchool => task'[q].address # NoAddress
    BY <1>3, <2>4 DEF SignupInv
  <2> QED
    BY <1>1, <2>5, <2>6, <2>7 DEF SignupInv
<1>8. LockInv'
  BY <1>1, <1>3 DEF LockInv, NoTask, Locks
<1>9. InsertInv'
  BY <1>1, <1>3 DEF InsertInv, LiveTenantForSchool, IsLive, NoTask
<1>10. OneLivePerSchool'
  BY <1>1 DEF OneLivePerSchool, IsLive
<1> QED
  BY <1>4, <1>5, <1>7, <1>8, <1>9, <1>10

\* A sweep begins.
LEMMA BeginSweepInd ==
  ASSUME IndInv, NEW r \in Transaction, NEW at \in AtDays, BeginSweep(r, at)
  PROVE  IndInv'
<1> DEFINE x == [NoTask EXCEPT !.pc = "scan", !.at = at]
<1>1. x \in TaskRow
  <2>1. at \in 0 .. today
    BY DEF AtDays
  <2>2. NoTask \in TaskRow
    BY NoTaskType DEF IndInv
  <2> QED
    BY <2>1, <2>2 DEF TaskRow, NoTask
<1>2. /\ task' = [task EXCEPT ![r] = x] /\ UNCHANGED <<today, tenant, made>>
      /\ task' \in [Transaction -> TaskRow] /\ task'[r] = x
      /\ \A q \in Transaction \ {r} : task'[q] = task[q]
  BY <1>1 DEF BeginSweep, IndInv, TypeOK
<1> USE DEF IndInv
<1>3. TypeOK' /\ BoundInv'
  BY <1>2 DEF TypeOK, TenantRow, TaskRow, NoTask, BoundInv
<1>4. SignupInv'
  BY <1>2 DEF SignupInv, NoTask
<1>5. LockInv'
  BY <1>2 DEF LockInv, NoTask, Locks
<1>6. InsertInv' /\ OneLivePerSchool'
  BY <1>2 DEF InsertInv, LiveTenantForSchool, IsLive, NoTask, OneLivePerSchool
<1> QED
  BY <1>3, <1>4, <1>5, <1>6

\* The statements before the insert.
LEMMA ReadInd ==
  ASSUME IndInv, NEW r \in Transaction,
         \/ LockAddress(r)
         \/ ExpireScan(r)
         \/ CheckSchool(r)
         \/ CheckPendingLimit(r)
         \/ Reread(r)
  PROVE  IndInv'
<1>1. task[r] \in TaskRow
  BY DEF IndInv, TypeOK
<1>2. \A t \in task[r].due :
        t \in DOMAIN tenant =>
          /\ tenant[t].expires <= task[r].at
          /\ task[r].school # AnySchool => tenant[t].school = task[r].school
  BY DEF IndInv, LockInv
<1>3. /\ task[r].pc \in {"lock", "count", "reread"} => task[r].address # NoAddress
      /\ task[r].school # AnySchool => task[r].address # NoAddress
  BY DEF IndInv, SignupInv
<1>a. ASSUME task[r].pc \in {"delete", "reread"}, Collide(r), task[r].address # NoAddress,
             UNCHANGED <<today, tenant, made>>
      PROVE  IndInv'
  <2>1. PICK t \in LiveTenantForSchool(r) :
          task' = [task EXCEPT ![r].pc = "collide",
                     ![r].taken = [status |-> tenant[t].status, expires |-> tenant[t].expires]]
    BY <1>a DEF Collide
  <2> DEFINE x == [task[r] EXCEPT !.pc = "collide",
                     !.taken = [status |-> tenant[t].status, expires |-> tenant[t].expires]]
  <2>2. x \in TaskRow
    BY <1>1 DEF TaskRow, LiveTenantForSchool, IsLive, IndInv, TypeOK, TenantRow
  <2>3. task' = [task EXCEPT ![r] = x]
    BY <2>1 DEF IndInv, TypeOK
  <2>4. /\ x.pc = "collide" /\ x.at = task[r].at /\ x.school = task[r].school
        /\ x.address = task[r].address /\ x.target = task[r].target
        /\ x.deleted = task[r].deleted /\ x.due = task[r].due
    BY <1>1 DEF TaskRow
  <2> HIDE DEF x
  <2> QED
    BY <2>2, <2>3, <2>4, <1>2, <1>a, MoveInd
<1>b. ASSUME NEW pc \in {"scan", "count", "insert"}, NEW n \in {1, 2},
             task[r].pc \in {"lock", "delete", "count", "reread"}, task[r].address # NoAddress,
             task' = [task EXCEPT ![r] = [task[r] EXCEPT !.pc = pc, !.attempt = n]],
             UNCHANGED <<today, tenant, made>>
      PROVE  IndInv'
  <2> DEFINE x == [task[r] EXCEPT !.pc = pc, !.attempt = n]
  <2>1. x \in TaskRow
    BY <1>1 DEF TaskRow
  <2>2. /\ x.pc = pc /\ x.at = task[r].at /\ x.school = task[r].school
        /\ x.address = task[r].address /\ x.target = task[r].target
        /\ x.deleted = task[r].deleted /\ x.due = task[r].due
    BY <1>1 DEF TaskRow
  <2>3. task' = [task EXCEPT ![r] = x]
    BY <1>b
  <2>4. /\ x.pc \notin {"idle", "activate", "commit"} /\ task[r].pc # "activate"
        /\ x.address # NoAddress /\ UNCHANGED <<today, tenant, made>>
    BY <2>2, <1>b
  <2> HIDE DEF x
  <2> QED
    BY <2>1, <2>2, <2>3, <2>4, <1>2, MoveInd
<1>5. CASE LockAddress(r)
  <2>1. task' = [task EXCEPT ![r] = [task[r] EXCEPT !.pc = "scan", !.attempt = task[r].attempt]]
    BY <1>1, <1>5 DEF LockAddress, TaskRow, IndInv, TypeOK
  <2>2. task[r].attempt \in {1, 2}
    BY <1>1 DEF TaskRow
  <2> QED
    BY <2>1, <2>2, <1>3, <1>5, <1>b DEF LockAddress
<1>6. CASE ExpireScan(r)
  <2> DEFINE x == [task[r] EXCEPT !.pc = "delete", !.due = DueTenants(r)]
  <2>1. DueTenants(r) \subseteq 1 .. made
    BY DEF DueTenants, IndInv, TypeOK
  <2>2. x \in TaskRow
    BY <1>1, <2>1 DEF TaskRow
  <2>3. task' = [task EXCEPT ![r] = x] /\ task[r].pc = "scan" /\ UNCHANGED <<today, tenant, made>>
    BY <1>6 DEF ExpireScan, IndInv, TypeOK
  <2>4. /\ x.pc = "delete" /\ x.at = task[r].at /\ x.school = task[r].school
        /\ x.address = task[r].address /\ x.target = task[r].target
        /\ x.deleted = task[r].deleted /\ x.due = DueTenants(r)
    BY <1>1 DEF TaskRow
  <2>5. \A t \in DueTenants(r) :
          /\ t \in DOMAIN tenant
          /\ tenant[t].expires <= task[r].at
          /\ task[r].school # AnySchool => tenant[t].school = task[r].school
    BY DEF DueTenants
  <2> HIDE DEF x
  <2> QED
    BY <2>2, <2>3, <2>4, <2>5, MoveInd
<1>7. CASE CheckSchool(r)
  <2>1. task[r].pc = "delete" /\ task[r].address # NoAddress /\ UNCHANGED <<today, tenant, made>>
    BY <1>7, <1>3 DEF CheckSchool
  <2>2. CASE Collide(r)
    BY <2>1, <2>2, <1>a
  <2>3. CASE task' = [task EXCEPT ![r].pc = "count"]
    <3>1. task' = [task EXCEPT ![r] = [task[r] EXCEPT !.pc = "count", !.attempt = task[r].attempt]]
      BY <2>3, <1>1 DEF TaskRow, IndInv, TypeOK
    <3>2. task[r].attempt \in {1, 2}
      BY <1>1 DEF TaskRow
    <3> QED
      BY <3>1, <3>2, <2>1, <1>b
  <2> QED
    BY <1>7, <2>2, <2>3 DEF CheckSchool
<1>8. CASE CheckPendingLimit(r)
  <2>1. task[r].pc = "count" /\ task[r].address # NoAddress /\ UNCHANGED <<today, tenant, made>>
    BY <1>8, <1>3 DEF CheckPendingLimit
  <2>2. CASE End(r)
    BY <2>1, <2>2, EndInd
  <2>3. CASE task' = [task EXCEPT ![r].pc = "insert"]
    <3>1. task' = [task EXCEPT ![r] = [task[r] EXCEPT !.pc = "insert", !.attempt = task[r].attempt]]
      BY <2>3, <1>1 DEF TaskRow, IndInv, TypeOK
    <3>2. task[r].attempt \in {1, 2}
      BY <1>1 DEF TaskRow
    <3> QED
      BY <3>1, <3>2, <2>1, <1>b
  <2> QED
    BY <1>8, <2>2, <2>3 DEF CheckPendingLimit
<1>9. CASE Reread(r)
  <2>1. task[r].pc = "reread" /\ task[r].address # NoAddress /\ UNCHANGED <<today, tenant, made>>
    BY <1>9, <1>3 DEF Reread
  <2>2. CASE Collide(r)
    BY <2>1, <2>2, <1>a
  <2>3. CASE task' = [task EXCEPT ![r].pc = "insert", ![r].attempt = 2]
    <3>1. task' = [task EXCEPT ![r] = [task[r] EXCEPT !.pc = "insert", !.attempt = 2]]
      BY <2>3 DEF IndInv, TypeOK
    <3> QED
      BY <3>1, <2>1, <1>b
  <2>4. CASE End(r)
    BY <2>1, <2>4, EndInd
  <2> QED
    BY <1>9, <2>2, <2>3, <2>4 DEF Reread
<1> QED
  BY <1>5, <1>6, <1>7, <1>8, <1>9

\* A delete gets to one of its rows: it locks the row only if nobody else has.
LEMMA ExpireDeleteInd ==
  ASSUME IndInv, NEW r \in Transaction, NEW t \in task[r].due, ExpireDelete(r, t)
  PROVE  IndInv'
<1> DEFINE d == IF StillPending(t) THEN task[r].deleted \cup {t} ELSE task[r].deleted
           x == [task[r] EXCEPT !.due = task[r].due \ {t}, !.deleted = d]
<1>1. task[r] \in TaskRow /\ t \in 1 .. made /\ d \subseteq 1 .. made /\ task[r].deleted \subseteq d
      /\ \A u \in d : u \in task[r].deleted \/ (u = t /\ StillPending(t))
  BY DEF IndInv, TypeOK, TaskRow
<1>a. task' = [task EXCEPT ![r] = x]
  BY DEF ExpireDelete, IndInv, TypeOK
<1> HIDE DEF d
<1>2. x \in TaskRow
  BY <1>1 DEF TaskRow
<1>3. /\ UNCHANGED <<today, tenant, made>> /\ task[r].pc = "delete" /\ RowFree(r, t)
      /\ task' \in [Transaction -> TaskRow] /\ task'[r] = x
      /\ \A q \in Transaction \ {r} : task'[q] = task[q]
  BY <1>2, <1>a DEF ExpireDelete, IndInv, TypeOK
<1>4. /\ x.pc = "delete" /\ x.at = task[r].at /\ x.school = task[r].school
      /\ x.address = task[r].address /\ x.target = task[r].target /\ x.due = task[r].due \ {t}
      /\ x.deleted = d
  BY <1>1, <1>3 DEF TaskRow
<1> HIDE DEF x
<1> USE DEF IndInv
<1>5. TypeOK' /\ BoundInv'
  BY <1>1, <1>3, <1>4 DEF TypeOK, TenantRow, TaskRow, BoundInv, StillPending
<1>6. SignupInv'
  BY <1>1, <1>3, <1>4 DEF SignupInv
<1>7. LockInv'
  <2>1. \A q \in Transaction : \A u \in task'[q].due \cup task'[q].deleted :
          u \in DOMAIN tenant =>
            /\ tenant[u].expires <= task'[q].at
            /\ task'[q].school # AnySchool => tenant[u].school = task'[q].school
    <3>1. \A q \in Transaction : /\ task'[q].at = task[q].at /\ task'[q].school = task[q].school
                                 /\ task'[q].due \subseteq task[q].due
                                 /\ task'[q].deleted \subseteq task[q].deleted \cup task[q].due
      BY <1>1, <1>3, <1>4
    <3>2. \A q \in Transaction : \A u \in task[q].due \cup task[q].deleted :
            u \in DOMAIN tenant =>
              /\ tenant[u].expires <= task[q].at
              /\ task[q].school # AnySchool => tenant[u].school = task[q].school
      BY DEF LockInv
    <3> HIDE DEF IndInv
    <3> QED BY <3>1, <3>2
  <2>2. \A q \in Transaction :
          /\ \A u \in task'[q].deleted : tenant[u].status = "pending"
          /\ task'[q].pc = "activate" => tenant[task'[q].target].status = "pending"
    BY ZenonT(30), <1>1, <1>3, <1>4 DEF LockInv, StillPending
  <2>3. \A q \in Transaction \ {r} : \A u \in DOMAIN tenant :
          /\ Locks(q, u)' <=> Locks(q, u)
          /\ Locks(r, u)' => Locks(r, u) \/ u = t
    BY <1>1, <1>3, <1>4 DEF Locks
  <2>4. \A q \in Transaction \ {r} : ~Locks(q, t)
    BY <1>3 DEF RowFree
  <2>5. \A q, v \in Transaction : \A u \in DOMAIN tenant :
          q # v => ~(Locks(q, u)' /\ Locks(v, u)')
    BY <2>3, <2>4 DEF LockInv
  <2> QED
    BY <1>3, <2>1, <2>2, <2>5 DEF LockInv
<1>8. InsertInv'
  BY <1>1, <1>3, <1>4 DEF InsertInv, LiveTenantForSchool, IsLive
<1>9. OneLivePerSchool'
  BY <1>3 DEF OneLivePerSchool, IsLive
<1> QED
  BY <1>5, <1>6, <1>7, <1>8, <1>9

\* The insert succeeds only where the index lets it.
LEMMA TryInsertTenantInd ==
  ASSUME IndInv, NEW r \in Transaction, TryInsertTenant(r)
  PROVE  IndInv'
<1>1. task[r] \in TaskRow /\ task[r].address # NoAddress /\ task[r].pc = "insert"
      /\ UNCHANGED <<today, tenant, made>>
  BY DEF TryInsertTenant, IndInv, TypeOK, SignupInv
<1>2. CASE task' = [task EXCEPT ![r].pc = "reread"]
  <2> DEFINE x == [task[r] EXCEPT !.pc = "reread"]
  <2>1. x \in TaskRow /\ task' = [task EXCEPT ![r] = x]
    BY <1>1, <1>2 DEF TaskRow, IndInv, TypeOK
  <2>2. /\ x.pc = "reread" /\ x.at = task[r].at /\ x.school = task[r].school
        /\ x.address = task[r].address /\ x.target = task[r].target
        /\ x.deleted = task[r].deleted /\ x.due = task[r].due
    BY <1>1 DEF TaskRow
  <2>3. \A t \in task[r].due :
          t \in DOMAIN tenant =>
            /\ tenant[t].expires <= task[r].at
            /\ task[r].school # AnySchool => tenant[t].school = task[r].school
    BY DEF IndInv, LockInv
  <2> HIDE DEF x
  <2> QED
    BY <1>1, <2>1, <2>2, <2>3, MoveInd
<1>3. CASE LiveTenantForSchool(r) = {} /\ task' = [task EXCEPT ![r].pc = "commit"]
  <2> DEFINE x == [task[r] EXCEPT !.pc = "commit"]
  <2>1. x \in TaskRow
    BY <1>1 DEF TaskRow
  <2>2. /\ task' \in [Transaction -> TaskRow] /\ task'[r] = x
        /\ \A q \in Transaction \ {r} : task'[q] = task[q]
    BY <2>1, <1>3 DEF IndInv, TypeOK
  <2>3. /\ x.pc = "commit" /\ x.at = task[r].at /\ x.school = task[r].school
        /\ x.address = task[r].address /\ x.target = task[r].target
        /\ x.deleted = task[r].deleted /\ x.due = task[r].due
    BY <1>1 DEF TaskRow
  <2>4. \A q \in Transaction \ {r} : task[q].pc = "commit" => task[q].school # task[r].school
    BY DEF TryInsertTenant, IndexFree, HoldsSchool
  <2> HIDE DEF x
  <2> USE DEF IndInv
  <2>5. TypeOK' /\ BoundInv'
    BY <1>1, <2>2, <2>3 DEF TypeOK, TenantRow, TaskRow, BoundInv
  <2>6. SignupInv'
    BY <1>1, <2>2, <2>3 DEF SignupInv
  <2>7. LockInv'
    BY <1>1, <2>2, <2>3 DEF LockInv, Locks
  <2>8. InsertInv'
    <3>1. \A q \in Transaction : LiveTenantForSchool(q)' = LiveTenantForSchool(q)
      BY <1>1, <2>2, <2>3 DEF LiveTenantForSchool, IsLive
    <3> QED
      BY <1>3, <2>2, <2>3, <2>4, <3>1 DEF InsertInv
  <2>9. OneLivePerSchool'
    BY <1>1 DEF OneLivePerSchool, IsLive
  <2> QED
    BY <2>5, <2>6, <2>7, <2>8, <2>9
<1> QED
  BY <1>2, <1>3 DEF TryInsertTenant

\* A transaction commits its deletions and ends.
LEMMA DropInd ==
  ASSUME IndInv, NEW r \in Transaction, tenant' = WithoutDeleted(r), End(r),
         UNCHANGED <<today, made>>
  PROVE  IndInv'
<1> USE DEF IndInv
<1>1. /\ DOMAIN tenant' = DOMAIN tenant \ task[r].deleted
      /\ \A t \in DOMAIN tenant' : tenant'[t] = tenant[t]
  BY DEF WithoutDeleted
<1>2. /\ task' \in [Transaction -> TaskRow] /\ task'[r] = NoTask
      /\ \A q \in Transaction \ {r} : task'[q] = task[q]
  BY NoTaskType DEF End, TypeOK
<1>3. \A q \in Transaction \ {r} : \A t \in DOMAIN tenant : Locks(q, t) => t \in DOMAIN tenant'
  BY <1>1 DEF LockInv, Locks
<1>4. TypeOK'
  <2>1. \A q \in Transaction :
          /\ task'[q].deleted \subseteq DOMAIN tenant'
          /\ task'[q].pc = "activate" => task'[q].target \in DOMAIN tenant'
    BY <1>2, <1>3 DEF TypeOK, Locks, NoTask
  <2> QED
    BY <1>1, <1>2, <2>1 DEF TypeOK, TenantRow, TaskRow
<1>5. BoundInv'
  BY DEF BoundInv
<1>6. SignupInv'
  BY <1>1, <1>2 DEF SignupInv, NoTask
<1>7. LockInv'
  <2>1. \A q \in Transaction : \A u \in task'[q].due \cup task'[q].deleted :
          u \in DOMAIN tenant' =>
            /\ tenant'[u].expires <= task'[q].at
            /\ task'[q].school # AnySchool => tenant'[u].school = task'[q].school
    BY <1>1, <1>2 DEF LockInv, NoTask
  <2>2. \A q \in Transaction :
          /\ \A u \in task'[q].deleted : tenant'[u].status = "pending"
          /\ task'[q].pc = "activate" => tenant'[task'[q].target].status = "pending"
    BY <1>1, <1>2, <1>4 DEF LockInv, NoTask, TypeOK
  <2>3. \A q, v \in Transaction : \A u \in DOMAIN tenant' :
          q # v => ~(Locks(q, u)' /\ Locks(v, u)')
    BY <1>1, <1>2 DEF LockInv, Locks, NoTask
  <2> QED
    BY <2>1, <2>2, <2>3 DEF LockInv
<1>8. InsertInv'
  BY <1>1, <1>2 DEF InsertInv, LiveTenantForSchool, IsLive, NoTask
<1>9. OneLivePerSchool'
  BY <1>1 DEF OneLivePerSchool, IsLive
<1> QED
  BY <1>4, <1>5, <1>6, <1>7, <1>8, <1>9

\* A signup commits: the school was its own since the insert.
LEMMA CommitSignupInd ==
  ASSUME IndInv, NEW r \in Transaction, CommitSignup(r)
  PROVE  IndInv'
<1> USE DEF IndInv
<1> DEFINE n == task[r].target
           s == task[r].school
           row == [school |-> s, status |-> "pending", registrant |-> task[r].address,
                   ends |-> task[r].ends, expires |-> task[r].at + PendingDays, frozen |-> FALSE]
<1>1. /\ task[r] \in TaskRow /\ task[r].pc = "commit" /\ task[r].address # NoAddress
      /\ s \in School /\ n \in 1 .. made /\ n \notin DOMAIN tenant
      /\ UNCHANGED <<today, made>>
  BY DEF CommitSignup, TypeOK, SignupInv
<1>2. /\ DOMAIN tenant' = (DOMAIN tenant \ task[r].deleted) \cup {n}
      /\ tenant'[n] = row
      /\ \A t \in DOMAIN tenant' : t # n => t \in DOMAIN tenant /\ tenant'[t] = tenant[t]
  BY <1>1 DEF CommitSignup
<1>3. row \in TenantRow
  BY <1>1, Constants DEF TaskRow, TenantRow, TypeOK
<1>4. /\ task' \in [Transaction -> TaskRow] /\ task'[r] = NoTask
      /\ \A q \in Transaction \ {r} : task'[q] = task[q]
  BY NoTaskType DEF CommitSignup, End, TypeOK
<1>5. row.school = s /\ row.status = "pending"
  OBVIOUS
<1>a. \A q \in Transaction : task[q].deleted \subseteq DOMAIN tenant /\ task[q].due \subseteq 1 .. made
  BY DEF TypeOK, TaskRow
<1> HIDE DEF row, n, s
<1>6. \A q \in Transaction \ {r} : \A t \in DOMAIN tenant : Locks(q, t) => t \in DOMAIN tenant'
  BY <1>2 DEF LockInv, Locks
<1>7. TypeOK'
  <2>1. \A q \in Transaction :
          /\ task'[q].deleted \subseteq DOMAIN tenant'
          /\ task'[q].pc = "activate" => task'[q].target \in DOMAIN tenant'
    BY <1>4, <1>6 DEF TypeOK, Locks, NoTask
  <2>2. \A t \in DOMAIN tenant' : tenant'[t] \in TenantRow /\ t \in 1 .. made
    BY <1>1, <1>2, <1>3 DEF TypeOK
  <2> QED
    BY <1>1, <1>4, <2>1, <2>2 DEF TypeOK, TenantRow, TaskRow
<1>8. BoundInv'
  BY <1>1 DEF BoundInv
<1>9. SignupInv'
  <2>1. \A q \in Transaction \ {r} : task[q].address # NoAddress => task[q].target # n
    BY <1>1 DEF SignupInv, n
  <2> QED
    BY <1>1, <1>2, <1>4, <2>1 DEF SignupInv, NoTask
<1>10. \A q \in Transaction \ {r} : n \notin task[q].deleted
  BY <1>1, <1>a
<1>11. LockInv'
  <2>1. \A q \in Transaction \ {r} : n \notin task[q].due
    BY <1>1 DEF SignupInv, n
  <2>2. \A q \in Transaction : \A u \in task'[q].due \cup task'[q].deleted :
          u \in DOMAIN tenant' =>
            /\ tenant'[u].expires <= task'[q].at
            /\ task'[q].school # AnySchool => tenant'[u].school = task'[q].school
    BY <1>2, <1>4, <1>10, <2>1 DEF LockInv, NoTask
  <2>3. \A q \in Transaction :
          /\ \A u \in task'[q].deleted : tenant'[u].status = "pending"
          /\ task'[q].pc = "activate" => tenant'[task'[q].target].status = "pending"
    BY <1>2, <1>4, <1>5, <1>7 DEF LockInv, NoTask, TypeOK
  <2>4. \A q \in Transaction \ {r} : ~Locks(q, n)
    BY <1>1, <1>10 DEF Locks, TypeOK
  <2>5. \A q, v \in Transaction : \A u \in DOMAIN tenant' :
          q # v => ~(Locks(q, u)' /\ Locks(v, u)')
    <3>1. \A q \in Transaction \ {r} : \A u \in DOMAIN tenant' : Locks(q, u)' <=> Locks(q, u)
      BY <1>4 DEF Locks
    <3>2. \A u \in DOMAIN tenant' : ~Locks(r, u)'
      BY <1>4 DEF Locks, NoTask
    <3> QED
      BY <1>2, <2>4, <3>1, <3>2 DEF LockInv
  <2> QED
    BY <2>2, <2>3, <2>5 DEF LockInv
<1>12. InsertInv'
  <2>1. SUFFICES ASSUME NEW q \in Transaction, task'[q].pc = "commit"
                 PROVE  /\ LiveTenantForSchool(q)' = {}
                        /\ \A v \in Transaction \ {q} :
                             task'[v].pc = "commit" => task'[v].school # task'[q].school
    BY DEF InsertInv
  <2>2. q # r /\ task'[q] = task[q] /\ task[q].school # s
    BY <1>1, <1>4, <2>1 DEF NoTask, InsertInv, s
  <2>3. LiveTenantForSchool(q) = {}
    BY <2>1, <2>2 DEF InsertInv
  <2>4. LiveTenantForSchool(q)' = {}
    BY <1>2, <1>5, <2>2, <2>3 DEF LiveTenantForSchool, IsLive
  <2> QED
    BY <1>4, <2>1, <2>2, <2>4 DEF InsertInv, NoTask
<1>13. OneLivePerSchool'
  <2>1. \A t \in DOMAIN tenant' : t # n /\ tenant'[t].school = s => ~IsLive(t)'
    BY <1>1, <1>2 DEF InsertInv, LiveTenantForSchool, IsLive, s
  <2> QED
    BY <1>2, <1>5, <2>1 DEF OneLivePerSchool, IsLive
<1> QED
  BY <1>7, <1>8, <1>9, <1>11, <1>12, <1>13

\* An activation takes the row's lock, which nobody else has.
LEMMA LockForActivationInd ==
  ASSUME IndInv, NEW r \in Transaction, NEW at \in AtDays, NEW t \in DOMAIN tenant,
         NEW p \in Address, LockForActivation(r, at, t, p)
  PROVE  IndInv'
<1> DEFINE x == [NoTask EXCEPT !.pc = "activate", !.at = at, !.target = t]
<1>1. x \in TaskRow
  <2>1. at \in 0 .. today /\ t \in 0 .. made
    BY DEF AtDays, IndInv, TypeOK
  <2>2. NoTask \in TaskRow
    BY NoTaskType DEF IndInv
  <2> QED
    BY <2>1, <2>2 DEF TaskRow, NoTask
<1>2. /\ UNCHANGED <<today, tenant, made>> /\ RowFree(r, t) /\ tenant[t].status = "pending"
      /\ task' \in [Transaction -> TaskRow] /\ task'[r] = x
      /\ \A q \in Transaction \ {r} : task'[q] = task[q]
  BY <1>1 DEF LockForActivation, IndInv, TypeOK
<1>3. /\ x.pc = "activate" /\ x.target = t /\ x.address = NoAddress /\ x.school = AnySchool
      /\ x.due = {} /\ x.deleted = {}
  BY DEF NoTask
<1> HIDE DEF x
<1> USE DEF IndInv
<1>4. TypeOK' /\ BoundInv'
  BY <1>2, <1>3 DEF TypeOK, TenantRow, TaskRow, BoundInv
<1>5. SignupInv'
  BY <1>2, <1>3 DEF SignupInv
<1>6. LockInv'
  <2>1. \A q \in Transaction \ {r} : ~Locks(q, t)
    BY <1>2 DEF RowFree
  <2>2. \A q \in Transaction \ {r} : \A u \in DOMAIN tenant :
          /\ Locks(q, u)' <=> Locks(q, u)
          /\ Locks(r, u)' => u = t
    BY <1>2, <1>3 DEF Locks
  <2>3. \A q, v \in Transaction : \A u \in DOMAIN tenant' :
          q # v => ~(Locks(q, u)' /\ Locks(v, u)')
    BY <1>2, <2>1, <2>2 DEF LockInv
  <2> QED
    BY <1>2, <1>3, <2>3 DEF LockInv
<1>7. InsertInv' /\ OneLivePerSchool'
  BY <1>2, <1>3 DEF InsertInv, LiveTenantForSchool, IsLive, OneLivePerSchool
<1> QED
  BY <1>4, <1>5, <1>6, <1>7

\* A row changes and keeps its school, deadline and life, or loses its life while nobody
\* has locked it.
LEMMA RowInd ==
  ASSUME IndInv, NEW t \in DOMAIN tenant, NEW row \in TenantRow,
         tenant' = [tenant EXCEPT ![t] = row], UNCHANGED <<today, made, task>>,
         row.school = tenant[t].school, row.expires = tenant[t].expires,
         row.status \in {"pending", "active"} => IsLive(t),
         row.status # "pending" => \A q \in Transaction : ~Locks(q, t)
  PROVE  IndInv'
<1> USE DEF IndInv
<1>1. /\ DOMAIN tenant' = DOMAIN tenant /\ tenant'[t] = row
      /\ \A u \in DOMAIN tenant \ {t} : tenant'[u] = tenant[u]
  OBVIOUS
<1>2. TypeOK' /\ BoundInv'
  BY <1>1 DEF TypeOK, TenantRow, TaskRow, BoundInv
<1>3. SignupInv'
  BY <1>1 DEF SignupInv
<1>4. LockInv'
  <2>1. \A q \in Transaction :
          /\ \A u \in task[q].deleted : tenant'[u].status = "pending"
          /\ task[q].pc = "activate" => tenant'[task[q].target].status = "pending"
    BY <1>1 DEF LockInv, Locks, TypeOK
  <2> QED
    BY <1>1, <2>1 DEF LockInv, Locks
<1>5. InsertInv'
  BY <1>1 DEF InsertInv, LiveTenantForSchool, IsLive
<1>6. OneLivePerSchool'
  BY <1>1 DEF OneLivePerSchool, IsLive
<1> QED
  BY <1>2, <1>3, <1>4, <1>5, <1>6

\* An activation commits.
LEMMA CommitActivationInd ==
  ASSUME IndInv, NEW r \in Transaction, CommitActivation(r)
  PROVE  IndInv'
<1> USE DEF IndInv
<1> DEFINE n == task[r].target
<1>1. /\ UNCHANGED <<today, made>> /\ n \in DOMAIN tenant /\ tenant[n].status = "pending"
      /\ Locks(r, n)
  BY DEF CommitActivation, TypeOK, LockInv, Locks
<1>2. /\ DOMAIN tenant' = DOMAIN tenant /\ tenant'[n] = [tenant[n] EXCEPT !.status = "active"]
      /\ \A u \in DOMAIN tenant \ {n} : tenant'[u] = tenant[u]
  BY <1>1 DEF CommitActivation
<1>3. /\ DOMAIN tenant' = DOMAIN tenant
      /\ \A u \in DOMAIN tenant \ {n} : tenant'[u] = tenant[u]
      /\ tenant'[n] \in TenantRow /\ tenant'[n].status = "active"
      /\ tenant'[n].school = tenant[n].school /\ tenant'[n].expires = tenant[n].expires
  BY <1>1, <1>2 DEF TypeOK, TenantRow
<1>4. /\ task' \in [Transaction -> TaskRow] /\ task'[r] = NoTask
      /\ \A q \in Transaction \ {r} : task'[q] = task[q]
  BY NoTaskType DEF CommitActivation, End, TypeOK
<1> HIDE DEF n
<1>5. \A q \in Transaction \ {r} : ~Locks(q, n)
  BY <1>1 DEF LockInv
<1>6. TypeOK' /\ BoundInv'
  BY <1>1, <1>3, <1>4 DEF TypeOK, TenantRow, TaskRow, BoundInv, NoTask
<1>7. SignupInv'
  BY <1>1, <1>3, <1>4 DEF SignupInv, NoTask
<1>8. LockInv'
  <2>1. \A q \in Transaction :
          /\ \A u \in task'[q].deleted : tenant'[u].status = "pending"
          /\ task'[q].pc = "activate" => tenant'[task'[q].target].status = "pending"
    BY <1>3, <1>4, <1>5 DEF LockInv, Locks, NoTask, TypeOK
  <2>2. \A q, v \in Transaction : \A u \in DOMAIN tenant' :
          q # v => ~(Locks(q, u)' /\ Locks(v, u)')
    BY <1>3, <1>4 DEF LockInv, Locks, NoTask
  <2> QED
    BY <1>3, <1>4, <2>1, <2>2 DEF LockInv, NoTask
<1>9. InsertInv'
  BY <1>1, <1>3, <1>4 DEF InsertInv, LiveTenantForSchool, IsLive, NoTask
<1>10. OneLivePerSchool'
  BY <1>1, <1>3 DEF OneLivePerSchool, IsLive
<1> QED
  BY <1>6, <1>7, <1>8, <1>9, <1>10

\* What outsiders do.
LEMMA OutsideInd ==
  ASSUME IndInv, NEW t \in DOMAIN tenant, FreezeTenant(t) \/ CloseTenant(t)
  PROVE  IndInv'
<1>1. tenant[t] \in TenantRow
  BY DEF IndInv, TypeOK
<1>2. CASE FreezeTenant(t)
  <2> DEFINE row == [tenant[t] EXCEPT !.frozen = TRUE]
  <2>1. /\ row \in TenantRow /\ row.school = tenant[t].school
        /\ row.expires = tenant[t].expires /\ row.status = tenant[t].status
    BY <1>1 DEF TenantRow
  <2>2. tenant' = [tenant EXCEPT ![t] = row] /\ UNCHANGED <<today, made, task>>
    BY <1>2 DEF FreezeTenant
  <2>3. IsLive(t) /\ \A q \in Transaction : ~Locks(q, t)
    BY <1>2 DEF FreezeTenant
  <2> HIDE DEF row
  <2> QED
    BY <2>1, <2>2, <2>3, RowInd
<1>3. CASE CloseTenant(t)
  <2> DEFINE row == [tenant[t] EXCEPT !.status = "closed"]
  <2>1. /\ row \in TenantRow /\ row.school = tenant[t].school
        /\ row.expires = tenant[t].expires /\ row.status = "closed"
    BY <1>1 DEF TenantRow
  <2>2. tenant' = [tenant EXCEPT ![t] = row] /\ UNCHANGED <<today, made, task>>
    BY <1>3 DEF CloseTenant
  <2>3. \A q \in Transaction : ~Locks(q, t)
    BY <1>3 DEF CloseTenant, IndInv, LockInv, Locks
  <2> HIDE DEF row
  <2> QED
    BY <2>1, <2>2, <2>3, RowInd
<1> QED
  BY <1>2, <1>3

\* A day passes.
LEMMA TickInd ==
  ASSUME IndInv, Tick
  PROVE  IndInv'
<1> USE DEF IndInv, Tick
<1>1. /\ today' \in Nat /\ today' <= LastDay /\ 0 .. today \subseteq 0 .. today'
      /\ UNCHANGED <<tenant, made, task>>
  BY Constants DEF TypeOK
<1>2. TaskRow \subseteq TaskRow'
  BY <1>1 DEF TaskRow
<1>3. TypeOK' /\ BoundInv'
  BY <1>1, <1>2 DEF TypeOK, TenantRow, BoundInv
<1>4. SignupInv' /\ LockInv' /\ InsertInv' /\ OneLivePerSchool'
  BY <1>1 DEF SignupInv, LockInv, Locks, InsertInv, LiveTenantForSchool, IsLive, OneLivePerSchool
<1> QED
  BY <1>3, <1>4

\* Every step of the system keeps the invariant.
LEMMA NextInd ==
  ASSUME IndInv, [Next]_vars
  PROVE  IndInv'
<1>1. CASE \E r \in Transaction : Step(r) \/ DeadlockDetected(r) \/ Abandon(r)
  <2>1. PICK r \in Transaction : Step(r) \/ DeadlockDetected(r) \/ Abandon(r)
    BY <1>1
  <2>2. CASE LockAddress(r) \/ ExpireScan(r) \/ CheckSchool(r) \/ CheckPendingLimit(r) \/ Reread(r)
    BY <2>2, ReadInd
  <2>3. CASE \E t \in task[r].due : ExpireDelete(r, t)
    BY <2>3, ExpireDeleteInd
  <2>4. CASE TryInsertTenant(r)
    BY <2>4, TryInsertTenantInd
  <2>5. CASE RecordCollision(r) \/ CommitSweep(r)
    BY <2>5, DropInd DEF RecordCollision, CommitSweep
  <2>6. CASE CommitSignup(r)
    BY <2>6, CommitSignupInd
  <2>7. CASE CommitActivation(r)
    BY <2>7, CommitActivationInd
  <2>8. CASE RefuseDisabledAccount(r) \/ DeadlockDetected(r) \/ Abandon(r)
    BY <2>8, EndInd DEF RefuseDisabledAccount, DeadlockDetected, Abandon
  <2> QED
    BY <2>1, <2>2, <2>3, <2>4, <2>5, <2>6, <2>7, <2>8 DEF Step
<1>2. CASE \E r \in Transaction, at \in AtDays, s \in School, p \in Address :
             \E ends \in at + AdminEndMin .. at + AdminEndMax : BeginSignup(r, at, s, p, ends)
  <2>1. PICK r \in Transaction, at \in AtDays, s \in School, p \in Address :
             \E ends \in at + AdminEndMin .. at + AdminEndMax : BeginSignup(r, at, s, p, ends)
    BY <1>2
  <2>2. at \in Nat
    BY DEF AtDays
  <2>3. PICK ends \in at + AdminEndMin .. at + AdminEndMax : BeginSignup(r, at, s, p, ends)
    BY <2>1
  <2>4. ends \in Nat
    BY <2>2, NumberAssumption
  <2> QED
    BY <2>3, <2>4, BeginSignupInd
<1>3. CASE \E r \in Transaction, at \in AtDays : BeginSweep(r, at)
  BY <1>3, BeginSweepInd
<1>4. CASE \E r \in Transaction, at \in AtDays, p \in Address, t \in DOMAIN tenant :
             LockForActivation(r, at, t, p)
  BY <1>4, LockForActivationInd
<1>5. CASE \E t \in DOMAIN tenant : FreezeTenant(t) \/ CloseTenant(t)
  BY <1>5, OutsideInd
<1>6. CASE Tick
  BY <1>6, TickInd
<1>7. CASE UNCHANGED vars
  BY <1>7 DEF vars, IndInv, TypeOK, TaskRow, TenantRow, BoundInv, SignupInv, LockInv, Locks,
              InsertInv, LiveTenantForSchool, IsLive, OneLivePerSchool
<1> QED
  BY <1>1, <1>2, <1>3, <1>4, <1>5, <1>6, <1>7 DEF Next

\* The inductive invariant holds of every reachable state.
THEOREM Inductive == Spec => []IndInv
<1>1. Init => IndInv
  BY InitInd
<1>2. IndInv /\ [Next]_vars => IndInv'
  BY NextInd
<1> QED
  BY <1>1, <1>2, PTL DEF Spec

\* Rows and transactions stay well formed, and no transaction loses a row it has locked
\* (expire_due and activate_tenant in signup.rs).
THEOREM TypeCorrect == Spec => []TypeOK
BY Inductive, PTL DEF IndInv

\* A school has at most one live FAU however signups, sweeps and activations overlap.
THEOREM SchoolsAreUnique == Spec => []OneLivePerSchool
BY Inductive, PTL DEF IndInv

-----------------------------------------------------------------------------
(* Who waits for whom. *)

\* A signup that waits for its address's lock holds no row.
EarlyInv == \A r \in Transaction : task[r].pc = "lock" => task[r].deleted = {}

\* A step that moves one transaction, and not to its address's lock with rows in hand.
LEMMA MoveEarly ==
  ASSUME IndInv, EarlyInv, NEW r \in Transaction, NEW x, task' = [task EXCEPT ![r] = x],
         x.pc = "lock" => x.deleted = {}
  PROVE  EarlyInv'
BY DEF EarlyInv, IndInv, TypeOK

\* No statement takes a signup back to its first one.
LEMMA StepEarly ==
  ASSUME IndInv, EarlyInv, NEW r \in Transaction, Step(r) \/ DeadlockDetected(r) \/ Abandon(r)
  PROVE  EarlyInv'
<1>1. task[r] \in TaskRow /\ task \in [Transaction -> TaskRow]
  BY DEF IndInv, TypeOK
<1>2. NoTask.pc = "idle"
  BY DEF NoTask
<1>3. CASE End(r)
  BY <1>2, <1>3, MoveEarly DEF End
<1>4. CASE LockAddress(r) \/ ExpireScan(r) \/ CheckPendingLimit(r) \/ TryInsertTenant(r)
  <2>1. \A q \in Transaction : task'[q].pc = "lock" => task'[q] = task[q]
    BY <1>1, <1>2, <1>4
       DEF LockAddress, ExpireScan, CheckPendingLimit, TryInsertTenant, End, TaskRow
  <2> QED BY <2>1 DEF EarlyInv
<1>5. CASE CheckSchool(r) \/ Reread(r)
  <2>1. \A q \in Transaction : task'[q].pc = "lock" => task'[q] = task[q]
    BY <1>1, <1>2, <1>5 DEF CheckSchool, Reread, Collide, End, TaskRow
  <2> QED BY <2>1 DEF EarlyInv
<1>6. CASE \E t \in task[r].due : ExpireDelete(r, t)
  <2>1. \A q \in Transaction : task'[q].pc = "lock" => task'[q] = task[q]
    BY <1>1, <1>6 DEF ExpireDelete, TaskRow
  <2> QED BY <2>1 DEF EarlyInv
<1> QED
  BY <1>3, <1>4, <1>5, <1>6
     DEF Step, RecordCollision, CommitSignup, CommitSweep, CommitActivation,
         RefuseDisabledAccount, DeadlockDetected, Abandon

\* Nor does any other step.
LEMMA NextEarly ==
  ASSUME IndInv, EarlyInv, [Next]_vars
  PROVE  EarlyInv'
<1>1. CASE \E r \in Transaction : Step(r) \/ DeadlockDetected(r) \/ Abandon(r)
  BY <1>1, StepEarly
<1>2. ASSUME NEW r \in Transaction, NEW at, NEW s, NEW p, NEW ends, BeginSignup(r, at, s, p, ends)
      PROVE  EarlyInv'
  BY <1>2 DEF BeginSignup, EarlyInv, IndInv, TypeOK, NoTask
<1>3. ASSUME NEW r \in Transaction, NEW at, BeginSweep(r, at) PROVE EarlyInv'
  BY <1>3 DEF BeginSweep, EarlyInv, IndInv, TypeOK, NoTask
<1>4. ASSUME NEW r \in Transaction, NEW at, NEW t, NEW p, LockForActivation(r, at, t, p)
      PROVE  EarlyInv'
  BY <1>4 DEF LockForActivation, EarlyInv, IndInv, TypeOK, NoTask
<1>5. CASE UNCHANGED task
  BY <1>5 DEF EarlyInv
<1> QED
  BY <1>1, <1>2, <1>3, <1>4, <1>5 DEF Next, FreezeTenant, CloseTenant, Tick, vars

\* Whoever is waited for in a circle waits too, so it holds rows it has deleted.
LEMMA CircleHoldsRows ==
  ASSUME IndInv, EarlyInv, NEW p \in Transaction, NEW r \in WaitsFor(p),
         WaitsFor(r) # {}, task[p].pc # "lock"
  PROVE  task[r].deleted # {} /\ task[r].pc \in {"delete", "insert"}
<1>1. task[r].pc \in {"lock", "delete", "insert"}
  BY DEF WaitsFor
<1>2. task[r].deleted # {}
  BY <1>1 DEF WaitsFor, Locks, HoldsSchool
<1> QED BY <1>1, <1>2 DEF EarlyInv, WaitsFor

\* Nobody in a circle waits for an address: the first to do so would be waited for by nobody.
LEMMA LockIsNotWaitedFor ==
  ASSUME IndInv, EarlyInv, NEW p \in Transaction, NEW r \in WaitsFor(p)
  PROVE  task[r].pc # "lock"
BY DEF WaitsFor, HoldsAddress, Locks, HoldsSchool, EarlyInv

\* A signup that has deleted its school's expired FAU waits for nobody.
LEMMA SignupWithRowsWaitsForNobody ==
  ASSUME IndInv, NEW r \in Transaction, task[r].deleted # {}, task[r].school # AnySchool,
         task[r].pc \in {"delete", "insert"}
  PROVE  WaitsFor(r) = {}
<1> SUFFICES ASSUME NEW q \in WaitsFor(r) PROVE FALSE
  OBVIOUS
<1>1. PICK u \in task[r].deleted : u \in DOMAIN tenant
  BY DEF IndInv, TypeOK
<1>2. /\ tenant[u].school = task[r].school /\ IsLive(u) /\ Locks(r, u)
      /\ q \in Transaction \ {r} /\ ~Locks(q, u) /\ u \notin task[q].deleted
  BY <1>1 DEF IndInv, LockInv, IsLive, Locks, WaitsFor
<1>3. ASSUME NEW t \in DOMAIN tenant, Locks(q, t), tenant[t].school = task[r].school PROVE FALSE
  <2>1. IsLive(t)
    BY <1>2, <1>3 DEF IndInv, LockInv, Locks, IsLive
  <2>2. t = u
    BY <1>1, <1>2, <1>3, <2>1 DEF IndInv, OneLivePerSchool
  <2> QED BY <1>2, <1>3, <2>2
<1>4. CASE task[r].pc = "delete"
  <2>1. PICK t \in task[r].due : Locks(q, t)
    BY <1>4 DEF WaitsFor
  <2>2. t \in DOMAIN tenant
    BY <1>2, <2>1 DEF IndInv, TypeOK, Locks
  <2>3. tenant[t].school = task[r].school
    BY <2>2 DEF IndInv, LockInv
  <2> QED BY <1>3, <2>1, <2>2, <2>3
<1>5. CASE task[r].pc = "insert"
  <2>1. CASE task[q].pc = "commit" /\ task[q].school = task[r].school
    <3>1. LiveTenantForSchool(q) = {}
      BY <1>2, <2>1 DEF IndInv, InsertInv
    <3> QED BY <1>1, <1>2, <2>1, <3>1 DEF LiveTenantForSchool
  <2>2. CASE \E t \in task[q].deleted : tenant[t].school = task[r].school
    <3>1. PICK t \in task[q].deleted : tenant[t].school = task[r].school
      BY <2>2
    <3>2. t \in DOMAIN tenant /\ Locks(q, t)
      BY <1>2, <3>1 DEF IndInv, TypeOK, Locks
    <3> QED BY <1>3, <3>1, <3>2
  <2> QED BY <1>5, <2>1, <2>2 DEF WaitsFor, HoldsSchool
<1> QED BY <1>4, <1>5

\* Every state: a circle holds sweeps only.
LEMMA CirclesAreOfSweeps == IndInv /\ EarlyInv => OnlySweepsWaitInACircle
<1> SUFFICES ASSUME IndInv, EarlyInv, NEW r \in Transaction, InCircle(r)
             PROVE  task[r].school = AnySchool
  BY DEF OnlySweepsWaitInACircle
<1>1. PICK circle \in SUBSET {q \in Transaction : WaitsFor(q) # {}} :
        /\ r \in circle
        /\ \E next \in [circle -> circle] :
             /\ \A q \in circle : next[q] \in WaitsFor(q)
             /\ \A q \in circle : \E p \in circle : next[p] = q
  BY DEF InCircle
<1>2. \A q \in circle : \E p \in circle : q \in WaitsFor(p)
  BY <1>1
<1>3. \A q \in circle : q \in Transaction /\ WaitsFor(q) # {}
  BY <1>1
<1>4. \A q \in circle : task[q].pc # "lock"
  BY <1>2, <1>3, LockIsNotWaitedFor
<1>5. PICK p \in circle : r \in WaitsFor(p)
  BY <1>1, <1>2
<1>6. task[r].deleted # {} /\ task[r].pc \in {"delete", "insert"} /\ WaitsFor(r) # {}
  BY <1>1, <1>3, <1>4, <1>5, CircleHoldsRows
<1> QED BY <1>6, SignupWithRowsWaitsForNobody

\* However many signups, sweeps and activations overlap, no signup and no activation ever
\* waits in a circle: create_pending_tenant takes its locks in an order that only sweeps,
\* which lock the rows of several schools, can turn into one.
THEOREM SignupsNeverDeadlock == Spec => []OnlySweepsWaitInACircle
<1>1. Init => IndInv /\ EarlyInv
  BY InitInd DEF Init, EarlyInv, NoTask
<1>2. IndInv /\ EarlyInv /\ [Next]_vars => IndInv' /\ EarlyInv'
  BY NextInd, NextEarly
<1> QED
  BY <1>1, <1>2, CirclesAreOfSweeps, PTL DEF Spec

-----------------------------------------------------------------------------
(* What a signup has read stays good until it commits. *)

\* No transaction is open for longer than MaxLag days, so an FAU that is committed meanwhile
\* has not run out at any open transaction's clock.
LagInv == \A r \in Transaction : task[r].pc # "idle" => today <= task[r].at + MaxLag

\* A signup has dealt with every expired FAU of its school.
Cleared(r) ==
  /\ task[r].pc \in {"count", "insert", "reread"} => task[r].due = {}
  /\ task[r].school # AnySchool /\ task[r].pc \in {"delete", "count", "insert", "reread"} =>
       \A t \in DOMAIN tenant :
         /\ tenant[t].school = task[r].school
         /\ tenant[t].status = "pending"
         /\ tenant[t].expires <= task[r].at
         => t \in task[r].due \cup task[r].deleted
  /\ task[r].pc = "collide" /\ task[r].taken.status = "pending" =>
       task[r].at < task[r].taken.expires

\* The address lock excludes the other signups of the address.
AddressInv ==
  \A r, q \in Transaction :
    /\ r # q
    /\ task[r].address = task[q].address
    /\ task[r].address # NoAddress
    => task[r].pc = "lock" \/ task[q].pc = "lock"

BelowLimit(r) ==
  Cardinality(PendingSignups(task[r].address, task[r].at, DOMAIN tenant \ task[r].deleted))
    < MaxPending

\* The count a signup has taken has not grown since.
Counted(r) == task[r].pc \in {"insert", "reread", "commit"} => BelowLimit(r)

LimitInv ==
  /\ LagInv
  /\ AddressInv
  /\ \A r \in Transaction : Cleared(r) /\ Counted(r)
  /\ PendingLimitHolds

\* The row was pending before the step, with the same school, address and deadline.
WasPending(t) ==
  /\ t \in DOMAIN tenant
  /\ tenant[t].status = "pending"
  /\ tenant'[t].school = tenant[t].school
  /\ tenant'[t].registrant = tenant[t].registrant
  /\ tenant'[t].expires = tenant[t].expires

\* No address gains a pending signup in the step.
NoneAdded(p) ==
  \A t \in DOMAIN tenant' :
    tenant'[t].status = "pending" /\ tenant'[t].registrant = p => WasPending(t)

\* The pending signups are finitely many.
LEMMA PendingFinite ==
  ASSUME IndInv, NEW p, NEW at, NEW d
  PROVE  /\ IsFiniteSet(PendingSignups(p, at, DOMAIN tenant \ d))
         /\ Cardinality(PendingSignups(p, at, DOMAIN tenant \ d)) \in Nat
         /\ \A T : T \subseteq PendingSignups(p, at, DOMAIN tenant \ d) =>
              /\ Cardinality(T) \in Nat
              /\ Cardinality(T) <= Cardinality(PendingSignups(p, at, DOMAIN tenant \ d))
<1> DEFINE S == PendingSignups(p, at, DOMAIN tenant \ d)
<1>1. S \subseteq 1 .. made /\ made \in Nat
  BY DEF IndInv, TypeOK, PendingSignups
<1>2. IsFiniteSet(1 .. made)
  BY <1>1, FS_Interval
<1> HIDE DEF S
<1>3. IsFiniteSet(S)
  BY <1>1, <1>2, FS_Subset
<1>4. \A T : T \subseteq S => IsFiniteSet(T) /\ Cardinality(T) <= Cardinality(S)
  BY <1>3, FS_Subset
<1>5. \A T : IsFiniteSet(T) => Cardinality(T) \in Nat
  BY FS_CardinalityType
<1> QED BY <1>3, <1>4, <1>5 DEF S

\* A signup's count does not grow while its address gains no pending signup.
LEMMA CountKept ==
  ASSUME IndInv, NEW q \in Transaction, BelowLimit(q), NoneAdded(task[q].address),
         task'[q].address = task[q].address, task'[q].at = task[q].at,
         task[q].deleted \subseteq task'[q].deleted
  PROVE  BelowLimit(q)'
<1> DEFINE A == PendingSignups(task[q].address, task[q].at, DOMAIN tenant \ task[q].deleted)
           B == {t \in DOMAIN tenant' \ task'[q].deleted :
                   /\ tenant'[t].status = "pending"
                   /\ tenant'[t].registrant = task'[q].address
                   /\ task'[q].at < tenant'[t].expires}
<1>1. B \subseteq A
  BY DEF PendingSignups, NoneAdded, WasPending
<1>2. Cardinality(A) \in Nat /\ Cardinality(B) \in Nat /\ Cardinality(B) <= Cardinality(A)
  BY <1>1, PendingFinite
<1>3. Cardinality(A) < MaxPending
  BY DEF BelowLimit
<1>4. Cardinality(B) < MaxPending
  <2> HIDE DEF A, B
  <2> QED BY <1>2, <1>3, NumberAssumption
<1> QED BY <1>4 DEF BelowLimit, PendingSignups

\* Nor does what an address has pending today.
LEMMA AddressKept ==
  ASSUME IndInv, PendingLimitHolds, NEW p \in Address, NoneAdded(p), today' \in Nat, today <= today'
  PROVE  (Cardinality(PendingSignups(p, today, DOMAIN tenant)) <= MaxPending)'
<1> DEFINE A == PendingSignups(p, today, DOMAIN tenant \ {})
           B == {t \in DOMAIN tenant' :
                   /\ tenant'[t].status = "pending"
                   /\ tenant'[t].registrant = p
                   /\ today' < tenant'[t].expires}
<1>1. \A t \in DOMAIN tenant : tenant[t].expires \in Nat
  BY DEF IndInv, TypeOK, TenantRow
<1>2. B \subseteq A
  BY <1>1 DEF PendingSignups, NoneAdded, WasPending, IndInv, TypeOK
<1>3. Cardinality(A) \in Nat /\ Cardinality(B) \in Nat /\ Cardinality(B) <= Cardinality(A)
  BY <1>2, PendingFinite
<1>4. A = PendingSignups(p, today, DOMAIN tenant)
  BY DEF PendingSignups
<1>5. Cardinality(A) <= MaxPending
  <2> HIDE DEF A, B
  <2> QED BY <1>4 DEF PendingLimitHolds
<1>6. Cardinality(B) <= MaxPending
  <2> HIDE DEF A, B
  <2> QED BY <1>3, <1>5, NumberAssumption
<1> QED BY <1>6 DEF PendingSignups

\* A step of one transaction that adds no pending FAU keeps LimitInv if it keeps what the
\* transaction itself relies on.
LEMMA MoveLimit ==
  ASSUME IndInv, LimitInv, NEW r \in Transaction, UNCHANGED today,
         \A q \in Transaction \ {r} : task'[q] = task[q],
         \A t \in DOMAIN tenant' : tenant'[t].status = "pending" => WasPending(t),
         Cleared(r)', Counted(r)',
         task'[r].pc # "idle" => today <= task'[r].at + MaxLag,
         task'[r].address # NoAddress /\ task'[r].pc # "lock" =>
           \A q \in Transaction \ {r} : task[q].address = task'[r].address => task[q].pc = "lock"
  PROVE  LimitInv'
<1> USE DEF LimitInv
<1>1. LagInv'
  BY DEF LagInv
<1>2. AddressInv'
  BY DEF AddressInv
<1>3. ASSUME NEW q \in Transaction \ {r} PROVE Cleared(q)' /\ Counted(q)'
  <2>1. Cleared(q)'
    BY <1>3 DEF Cleared, WasPending
  <2>2. Counted(q)'
    <3>1. NoneAdded(task[q].address)
      BY DEF NoneAdded
    <3> QED BY <1>3, <3>1, CountKept DEF Counted
  <2> QED BY <2>1, <2>2
<1>4. PendingLimitHolds'
  <2>1. today \in Nat
    BY DEF IndInv, TypeOK
  <2>2. \A a \in Address : NoneAdded(a)
    BY DEF NoneAdded
  <2> QED BY <2>1, <2>2, AddressKept DEF PendingLimitHolds
<1> QED BY <1>1, <1>2, <1>3, <1>4

\* A transaction that ends relies on nothing.
LEMMA EndLimit ==
  ASSUME IndInv, LimitInv, NEW r \in Transaction, UNCHANGED today, End(r),
         \A t \in DOMAIN tenant' : tenant'[t].status = "pending" => WasPending(t)
  PROVE  LimitInv'
<1>1. /\ task'[r] = NoTask
      /\ \A q \in Transaction \ {r} : task'[q] = task[q]
  BY DEF End, IndInv, TypeOK
<1>2. Cleared(r)' /\ Counted(r)'
  BY <1>1 DEF Cleared, Counted, NoTask
<1> QED BY <1>1, <1>2, MoveLimit DEF NoTask

\* The rows a transaction leaves are those that were there.
LEMMA TablesStand ==
  ASSUME UNCHANGED tenant
  PROVE  \A t \in DOMAIN tenant' : tenant'[t].status = "pending" => WasPending(t)
BY DEF WasPending

\* A request begins: what it has read so far is nothing.
LEMMA BeginLimit ==
  ASSUME IndInv, LimitInv, NEW r \in Transaction, NEW at \in AtDays,
         \/ \E s \in School, p \in Address, ends \in Nat : BeginSignup(r, at, s, p, ends)
         \/ BeginSweep(r, at)
         \/ \E t \in DOMAIN tenant, p \in Address : LockForActivation(r, at, t, p)
  PROVE  LimitInv'
<1> DEFINE Begins == /\ UNCHANGED <<today, tenant>>
                     /\ \A q \in Transaction \ {r} : task'[q] = task[q]
                     /\ task'[r].at = at
                     /\ \/ task'[r].pc = "lock"
                        \/ task'[r].pc \in {"scan", "activate"} /\ task'[r].address = NoAddress
<1>a. task \in [Transaction -> TaskRow]
  BY DEF IndInv, TypeOK
<1>b. ASSUME NEW s \in School, NEW p \in Address, NEW ends \in Nat, BeginSignup(r, at, s, p, ends)
      PROVE  Begins
  BY <1>a, <1>b DEF BeginSignup, NoTask
<1>c. ASSUME BeginSweep(r, at) PROVE Begins
  BY <1>a, <1>c DEF BeginSweep, NoTask
<1>d. ASSUME NEW t \in DOMAIN tenant, NEW p \in Address, LockForActivation(r, at, t, p)
      PROVE  Begins
  BY <1>a, <1>d DEF LockForActivation, NoTask
<1>1. Begins
  BY <1>b, <1>c, <1>d
<1>2. Cleared(r)' /\ Counted(r)'
  BY <1>1 DEF Cleared, Counted
<1>3. today <= at + MaxLag
  BY DEF AtDays
<1> QED BY <1>1, <1>2, <1>3, TablesStand, MoveLimit

\* A signup gets its address's lock only when it is alone with it.
LEMMA LockLimit ==
  ASSUME IndInv, LimitInv, NEW r \in Transaction, LockAddress(r)
  PROVE  LimitInv'
<1>1. /\ UNCHANGED <<today, tenant>>
      /\ \A q \in Transaction \ {r} : task'[q] = task[q]
      /\ task[r].pc = "lock" /\ task'[r].pc = "scan"
      /\ task'[r].at = task[r].at /\ task'[r].address = task[r].address
  BY DEF LockAddress, IndInv, TypeOK, TaskRow
<1>2. Cleared(r)' /\ Counted(r)'
  BY <1>1 DEF Cleared, Counted
<1>3. today <= task'[r].at + MaxLag
  BY <1>1 DEF LimitInv, LagInv
<1>4. \A q \in Transaction \ {r} : task[q].address = task[r].address => task[q].pc = "lock"
  BY DEF LockAddress, AddressFree, HoldsAddress
<1> QED BY <1>1, <1>2, <1>3, <1>4, TablesStand, MoveLimit

\* A transaction past the address lock moves on with its clock and its address.
LEMMA StatementLimit ==
  ASSUME IndInv, LimitInv, NEW r \in Transaction, NEW x \in TaskRow,
         UNCHANGED <<today, tenant>>, task' = [task EXCEPT ![r] = x],
         task[r].pc \notin {"idle", "lock"}, x.at = task[r].at, x.address = task[r].address,
         Cleared(r)', Counted(r)'
  PROVE  LimitInv'
<1>1. task'[r] = x /\ \A q \in Transaction \ {r} : task'[q] = task[q]
  BY DEF IndInv, TypeOK
<1>2. today <= task'[r].at + MaxLag
  BY <1>1 DEF LimitInv, LagInv
<1>3. task'[r].address # NoAddress =>
        \A q \in Transaction \ {r} : task[q].address = task'[r].address => task[q].pc = "lock"
  BY <1>1 DEF LimitInv, AddressInv
<1> QED BY <1>1, <1>2, <1>3, TablesStand, MoveLimit

\* The delete chooses every expired FAU of the school.
LEMMA ScanLimit ==
  ASSUME IndInv, LimitInv, NEW r \in Transaction, ExpireScan(r)
  PROVE  LimitInv'
<1> DEFINE x == [task[r] EXCEPT !.pc = "delete", !.due = DueTenants(r)]
<1>1. task[r] \in TaskRow /\ task \in [Transaction -> TaskRow]
  BY DEF IndInv, TypeOK
<1>2. task' = [task EXCEPT ![r] = x] /\ task[r].pc = "scan" /\ UNCHANGED <<today, tenant>>
  BY <1>1 DEF ExpireScan
<1>3. x \in TaskRow
  BY <1>1 DEF TaskRow, DueTenants, IndInv, TypeOK
<1>4. /\ x.pc = "delete" /\ x.at = task[r].at /\ x.address = task[r].address
      /\ x.school = task[r].school /\ x.due = DueTenants(r)
  BY <1>1 DEF TaskRow
<1> HIDE DEF x
<1>5. Cleared(r)' /\ Counted(r)'
  BY <1>1, <1>2, <1>4 DEF Cleared, Counted, DueTenants
<1> QED BY <1>2, <1>3, <1>4, <1>5, StatementLimit

\* A row the delete passes by is deleted, or no longer pending.
LEMMA DeleteLimit ==
  ASSUME IndInv, LimitInv, NEW r \in Transaction, NEW t \in task[r].due, ExpireDelete(r, t)
  PROVE  LimitInv'
<1> DEFINE d == IF StillPending(t) THEN task[r].deleted \cup {t} ELSE task[r].deleted
           x == [task[r] EXCEPT !.due = task[r].due \ {t}, !.deleted = d]
<1>1. task[r] \in TaskRow /\ task \in [Transaction -> TaskRow]
  BY DEF IndInv, TypeOK
<1>2. task' = [task EXCEPT ![r] = x] /\ task[r].pc = "delete" /\ UNCHANGED <<today, tenant>>
  BY <1>1 DEF ExpireDelete
<1>3. x \in TaskRow
  BY <1>1 DEF TaskRow
<1>4. /\ x.pc = "delete" /\ x.at = task[r].at /\ x.address = task[r].address
      /\ x.school = task[r].school /\ x.due = task[r].due \ {t} /\ x.deleted = d
  BY <1>1, <1>2 DEF TaskRow
<1>5. /\ task[r].deleted \subseteq d
      /\ StillPending(t) => t \in d
  OBVIOUS
<1> HIDE DEF x, d
<1>6. Cleared(r)' /\ Counted(r)'
  <2>1. Cleared(r)
    BY DEF LimitInv
  <2> QED BY <1>1, <1>2, <1>4, <1>5, <2>1 DEF Cleared, Counted, StillPending
<1> QED BY <1>2, <1>3, <1>4, <1>6, StatementLimit

\* A collision tells of an FAU that had not run out when the form was sent.
LEMMA CollideLimit ==
  ASSUME IndInv, LimitInv, NEW r \in Transaction, Collide(r), UNCHANGED <<today, tenant>>,
         task[r].pc \in {"delete", "reread"}, task[r].due = {}, task[r].school # AnySchool
  PROVE  LimitInv'
<1>1. task[r] \in TaskRow /\ task \in [Transaction -> TaskRow]
  BY DEF IndInv, TypeOK
<1>2. PICK t \in LiveTenantForSchool(r) :
        task' = [task EXCEPT ![r].pc = "collide",
                   ![r].taken = [status |-> tenant[t].status, expires |-> tenant[t].expires]]
  BY DEF Collide
<1> DEFINE x == [task[r] EXCEPT !.pc = "collide",
                   !.taken = [status |-> tenant[t].status, expires |-> tenant[t].expires]]
<1>3. x \in TaskRow
  BY <1>1 DEF TaskRow, LiveTenantForSchool, IsLive, IndInv, TypeOK, TenantRow
<1>4. task' = [task EXCEPT ![r] = x]
  BY <1>1, <1>2
<1>5. /\ x.pc = "collide" /\ x.at = task[r].at /\ x.address = task[r].address
      /\ x.taken.status = tenant[t].status /\ x.taken.expires = tenant[t].expires
  BY <1>1 DEF TaskRow
<1> HIDE DEF x
<1>6. tenant[t].status = "pending" => task[r].at < tenant[t].expires
  <2>1. tenant[t].expires \in Nat /\ task[r].at \in Nat
    BY <1>1 DEF LiveTenantForSchool, IndInv, TypeOK, TenantRow, TaskRow
  <2>2. Cleared(r)
    BY DEF LimitInv
  <2> QED BY <2>1, <2>2 DEF Cleared, LiveTenantForSchool
<1>7. Cleared(r)' /\ Counted(r)'
  BY <1>1, <1>4, <1>5, <1>6 DEF Cleared, Counted
<1> QED BY <1>3, <1>4, <1>5, <1>7, StatementLimit

\* A signup that has found its school free moves on with what it has read.
LEMMA OnwardLimit ==
  ASSUME IndInv, LimitInv, NEW r \in Transaction, UNCHANGED <<today, tenant>>,
         NEW pc \in {"count", "insert", "reread", "commit"}, NEW n \in {1, 2},
         task' = [task EXCEPT ![r] = [task[r] EXCEPT !.pc = pc, !.attempt = n]],
         task[r].pc \in {"delete", "count", "insert", "reread"},
         task[r].due = {},
         pc # "count" => BelowLimit(r)
  PROVE  LimitInv'
<1> DEFINE x == [task[r] EXCEPT !.pc = pc, !.attempt = n]
<1>1. task[r] \in TaskRow /\ task \in [Transaction -> TaskRow]
  BY DEF IndInv, TypeOK
<1>2. x \in TaskRow /\ task' = [task EXCEPT ![r] = x]
  BY <1>1 DEF TaskRow
<1>3. /\ x.pc = pc /\ x.at = task[r].at /\ x.address = task[r].address
      /\ x.school = task[r].school /\ x.due = task[r].due /\ x.deleted = task[r].deleted
  BY <1>1 DEF TaskRow
<1> HIDE DEF x
<1>4. task'[r] = x
  BY <1>1, <1>2
<1>5. Cleared(r)'
  <2>1. Cleared(r)
    BY DEF LimitInv
  <2> QED BY <1>3, <1>4, <2>1 DEF Cleared
<1>6. Counted(r)'
  <2>1. NoneAdded(task[r].address)
    BY TablesStand DEF NoneAdded
  <2> QED BY <1>3, <1>4, <2>1, CountKept DEF Counted
<1> QED BY <1>2, <1>3, <1>5, <1>6, StatementLimit

\* The reads between the delete and the insert: the school, the limit, the index, and the
\* reread after a lost race.
LEMMA ReadLimit ==
  ASSUME IndInv, LimitInv, NEW r \in Transaction,
         CheckSchool(r) \/ CheckPendingLimit(r) \/ TryInsertTenant(r) \/ Reread(r)
  PROVE  LimitInv'
<1>1. task[r] \in TaskRow /\ task \in [Transaction -> TaskRow]
  BY DEF IndInv, TypeOK
<1>2. task[r].attempt \in {1, 2}
  BY <1>1 DEF TaskRow
<1>3. /\ task[r].pc \in {"count", "insert", "reread"} => task[r].due = {}
      /\ task[r].pc \in {"insert", "reread", "commit"} => BelowLimit(r)
  BY DEF LimitInv, Cleared, Counted
<1>4. task[r].pc = "reread" => task[r].school # AnySchool
  BY NameAssumption DEF IndInv, SignupInv
<1>a. ASSUME NEW pc \in STRING, task' = [task EXCEPT ![r].pc = pc]
      PROVE  task' = [task EXCEPT ![r] = [task[r] EXCEPT !.pc = pc, !.attempt = task[r].attempt]]
  BY <1>1, <1>a DEF TaskRow
<1>5. CASE CheckSchool(r)
  <2>1. /\ task[r].pc = "delete" /\ task[r].due = {} /\ task[r].school # AnySchool
        /\ UNCHANGED <<today, tenant>>
    BY <1>5 DEF CheckSchool
  <2>2. CASE Collide(r)
    BY <2>1, <2>2, CollideLimit
  <2>3. CASE task' = [task EXCEPT ![r].pc = "count"]
    BY <1>2, <2>1, <1>a, <2>3, OnwardLimit
  <2> QED BY <1>5, <2>2, <2>3 DEF CheckSchool
<1>6. CASE CheckPendingLimit(r)
  <2>1. task[r].pc = "count" /\ task[r].due = {} /\ UNCHANGED <<today, tenant>>
    BY <1>3, <1>6 DEF CheckPendingLimit
  <2>2. CASE End(r)
    BY <2>1, <2>2, TablesStand, EndLimit
  <2>3. CASE BelowLimit(r) /\ task' = [task EXCEPT ![r].pc = "insert"]
    <3>1. task' = [task EXCEPT ![r] = [task[r] EXCEPT !.pc = "insert", !.attempt = task[r].attempt]]
      BY <1>a, <2>3
    <3> QED BY <1>2, <2>1, <2>3, <3>1, OnwardLimit
  <2> QED BY <1>6, <2>2, <2>3 DEF CheckPendingLimit, BelowLimit
<1>7. CASE TryInsertTenant(r)
  <2>1. task[r].pc = "insert" /\ task[r].due = {} /\ BelowLimit(r) /\ UNCHANGED <<today, tenant>>
    BY <1>3, <1>7 DEF TryInsertTenant
  <2>2. PICK pc \in {"commit", "reread"} : task' = [task EXCEPT ![r].pc = pc]
    BY <1>7 DEF TryInsertTenant
  <2>3. task' = [task EXCEPT ![r] = [task[r] EXCEPT !.pc = pc, !.attempt = task[r].attempt]]
    BY <1>a, <2>2
  <2> QED BY <1>2, <2>1, <2>2, <2>3, OnwardLimit
<1>8. CASE Reread(r)
  <2>1. task[r].pc = "reread" /\ task[r].due = {} /\ BelowLimit(r) /\ UNCHANGED <<today, tenant>>
    BY <1>3, <1>8 DEF Reread
  <2>2. CASE Collide(r)
    BY <1>4, <2>1, <2>2, CollideLimit
  <2>3. CASE task' = [task EXCEPT ![r].pc = "insert", ![r].attempt = 2]
    <3>1. task' = [task EXCEPT ![r] = [task[r] EXCEPT !.pc = "insert", !.attempt = 2]]
      BY <1>1, <2>3
    <3> QED BY <2>1, <3>1, OnwardLimit
  <2>4. CASE End(r)
    BY <2>1, <2>4, TablesStand, EndLimit
  <2> QED BY <1>8, <2>2, <2>3, <2>4 DEF Reread
<1> QED BY <1>5, <1>6, <1>7, <1>8

\* The commit of a signup: the new FAU has not run out for anybody, and it takes the place
\* its signup has counted.
LEMMA CommitSignupLimit ==
  ASSUME IndInv, LimitInv, NEW r \in Transaction, CommitSignup(r)
  PROVE  LimitInv'
<1> DEFINE n == task[r].target
<1>1. /\ task[r] \in TaskRow /\ task[r].pc = "commit" /\ task[r].address # NoAddress
      /\ n \notin DOMAIN tenant /\ UNCHANGED <<today, made>> /\ today \in Nat
      /\ task \in [Transaction -> TaskRow]
  BY DEF CommitSignup, IndInv, TypeOK, SignupInv
<1>2. /\ DOMAIN tenant' = (DOMAIN tenant \ task[r].deleted) \cup {n}
      /\ tenant'[n].registrant = task[r].address
      /\ tenant'[n].expires = task[r].at + PendingDays
      /\ \A t \in DOMAIN tenant' : t # n => t \in DOMAIN tenant /\ tenant'[t] = tenant[t]
  BY <1>1 DEF CommitSignup
<1>3. task'[r] = NoTask /\ \A q \in Transaction \ {r} : task'[q] = task[q]
  BY <1>1 DEF CommitSignup, End
<1>4. /\ today <= task[r].at + MaxLag /\ task[r].at \in Nat
      /\ tenant'[n].expires > today
  BY <1>1, <1>2, NumberAssumption DEF LimitInv, LagInv, TaskRow
<1> HIDE DEF n
<1>5. LagInv' /\ AddressInv'
  BY <1>1, <1>3 DEF LimitInv, LagInv, AddressInv, NoTask
<1>6. ASSUME NEW p, p # task[r].address PROVE NoneAdded(p)
  BY <1>2, <1>6 DEF NoneAdded, WasPending
<1>7. ASSUME NEW q \in Transaction \ {r} PROVE Cleared(q)' /\ Counted(q)'
  <2>1. task[q] \in TaskRow /\ Cleared(q) /\ Counted(q)
    BY <1>1 DEF LimitInv
  <2>2. task[q].at <= today /\ task[q].at \in Nat
    BY <1>1, <2>1 DEF TaskRow
  <2>3. Cleared(q)'
    <3>1. ASSUME NEW t \in DOMAIN tenant', tenant'[t].expires <= task[q].at
          PROVE  t \in DOMAIN tenant /\ tenant'[t] = tenant[t]
      <4>1. ~(tenant'[n].expires <= task[q].at)
        BY <1>1, <1>2, <1>4, <2>2, NumberAssumption
      <4> QED BY <1>2, <3>1, <4>1
    <3> QED BY <1>3, <2>1, <3>1 DEF Cleared
  <2>4. task[q].pc \in {"insert", "reread", "commit"} => task[q].address # task[r].address
    BY <1>1 DEF LimitInv, AddressInv
  <2>5. Counted(q)'
    BY <1>3, <1>6, <2>1, <2>4, CountKept DEF Counted
  <2> QED BY <2>3, <2>5
<1>8. Cleared(r)' /\ Counted(r)'
  BY <1>3 DEF Cleared, Counted, NoTask
<1>9. ASSUME NEW p \in Address
      PROVE  (Cardinality(PendingSignups(p, today, DOMAIN tenant)) <= MaxPending)'
  <2>1. CASE p # task[r].address
    BY <1>1, <1>6, <2>1, AddressKept DEF LimitInv
  <2>2. CASE p = task[r].address
    <3> DEFINE A == PendingSignups(p, task[r].at, DOMAIN tenant \ task[r].deleted)
               B == {t \in DOMAIN tenant' :
                       /\ tenant'[t].status = "pending"
                       /\ tenant'[t].registrant = p
                       /\ today' < tenant'[t].expires}
    <3>1. \A t \in DOMAIN tenant : tenant[t].expires \in Nat
      BY DEF IndInv, TypeOK, TenantRow
    <3>2. task[r].at <= today
      BY <1>1 DEF TaskRow
    <3>3. B \ {n} \subseteq A
      BY <1>1, <1>2, <1>4, <3>1, <3>2 DEF PendingSignups
    <3>4. B \subseteq A \cup {n}
      BY <3>3
    <3>5. IsFiniteSet(A) /\ Cardinality(A) \in Nat
      BY PendingFinite
    <3>6. Cardinality(A) < MaxPending
      BY <1>1, <2>2 DEF LimitInv, Counted, BelowLimit
    <3> HIDE DEF A, B
    <3>7. IsFiniteSet(A \cup {n}) /\ Cardinality(A \cup {n}) <= Cardinality(A) + 1
      <4>1. /\ IsFiniteSet(A \cup {n})
            /\ Cardinality(A \cup {n}) = IF n \in A THEN Cardinality(A) ELSE Cardinality(A) + 1
        BY <3>5, FS_AddElement
      <4> QED BY <3>5, <4>1
    <3>8. Cardinality(B) <= Cardinality(A \cup {n}) /\ IsFiniteSet(B)
      BY <3>4, <3>7, FS_Subset
    <3>9. Cardinality(B) \in Nat /\ Cardinality(A \cup {n}) \in Nat
      BY <3>7, <3>8, FS_CardinalityType
    <3>10. Cardinality(B) <= MaxPending
      BY <3>5, <3>6, <3>7, <3>8, <3>9, NumberAssumption
    <3> QED BY <3>10 DEF PendingSignups, B
  <2> QED BY <2>1, <2>2
<1>10. PendingLimitHolds'
  BY <1>9 DEF PendingLimitHolds
<1> QED BY <1>5, <1>7, <1>8, <1>10 DEF LimitInv

\* The other transactions end: a refused signup, the sweep, an activation, a rollback.
LEMMA OtherEndLimit ==
  ASSUME IndInv, LimitInv, NEW r \in Transaction,
         \/ RecordCollision(r)
         \/ CommitSweep(r)
         \/ CommitActivation(r)
         \/ RefuseDisabledAccount(r)
         \/ DeadlockDetected(r)
         \/ Abandon(r)
  PROVE  LimitInv'
<1>1. CASE RecordCollision(r) \/ CommitSweep(r)
  <2>1. \A t \in DOMAIN tenant' : tenant'[t].status = "pending" => WasPending(t)
    BY <1>1 DEF RecordCollision, CommitSweep, WithoutDeleted, WasPending
  <2> QED BY <1>1, <2>1, EndLimit DEF RecordCollision, CommitSweep
<1>2. CASE CommitActivation(r)
  <2> DEFINE n == task[r].target
  <2>1. n \in DOMAIN tenant /\ tenant[n] \in TenantRow
    BY <1>2 DEF CommitActivation, IndInv, TypeOK
  <2>2. tenant' = [tenant EXCEPT ![n] = [tenant[n] EXCEPT !.status = "active"]]
    BY <1>2, <2>1 DEF CommitActivation
  <2>3. tenant'[n].status = "active"
    BY <2>1, <2>2 DEF TenantRow
  <2>4. DOMAIN tenant' = DOMAIN tenant /\ \A t \in DOMAIN tenant \ {n} : tenant'[t] = tenant[t]
    BY <2>2
  <2> HIDE DEF n
  <2>5. \A t \in DOMAIN tenant' : tenant'[t].status = "pending" => WasPending(t)
    BY <2>3, <2>4 DEF WasPending
  <2> QED BY <1>2, <2>5, EndLimit DEF CommitActivation
<1>3. CASE RefuseDisabledAccount(r) \/ DeadlockDetected(r) \/ Abandon(r)
  BY <1>3, TablesStand, EndLimit DEF RefuseDisabledAccount, DeadlockDetected, Abandon
<1> QED BY <1>1, <1>2, <1>3

\* The clock and the administrators add no pending FAU.
LEMMA OutsideLimit ==
  ASSUME IndInv, LimitInv, UNCHANGED task, today' \in Nat, today <= today',
         \A r \in Transaction : task[r].pc # "idle" => today' <= task[r].at + MaxLag,
         \A t \in DOMAIN tenant' : tenant'[t].status = "pending" => WasPending(t)
  PROVE  LimitInv'
<1> USE DEF LimitInv
<1>1. LagInv' /\ AddressInv'
  BY DEF LagInv, AddressInv
<1>2. \A p : NoneAdded(p)
  BY DEF NoneAdded
<1>3. ASSUME NEW q \in Transaction PROVE Cleared(q)' /\ Counted(q)'
  <2>1. Cleared(q)'
    BY DEF Cleared, WasPending
  <2>2. Counted(q)'
    BY <1>2, CountKept DEF Counted
  <2> QED BY <2>1, <2>2
<1>4. PendingLimitHolds'
  BY <1>2, AddressKept DEF PendingLimitHolds
<1> QED BY <1>1, <1>3, <1>4

\* Every step keeps it.
LEMMA NextLimit ==
  ASSUME IndInv, LimitInv, [Next]_vars
  PROVE  LimitInv'
<1>0. /\ today \in Nat /\ task \in [Transaction -> TaskRow]
      /\ \A r \in Transaction : task[r].pc # "idle" => today <= task[r].at + MaxLag
  BY DEF IndInv, TypeOK, LimitInv, LagInv
<1>1. ASSUME NEW r \in Transaction, Step(r) \/ DeadlockDetected(r) \/ Abandon(r) PROVE LimitInv'
  BY <1>1, LockLimit, ScanLimit, DeleteLimit, ReadLimit, CommitSignupLimit, OtherEndLimit DEF Step
<1>2. ASSUME NEW r \in Transaction, NEW at \in AtDays, NEW s \in School, NEW p \in Address,
             NEW ends \in at + AdminEndMin .. at + AdminEndMax, BeginSignup(r, at, s, p, ends)
      PROVE  LimitInv'
  <2>1. ends \in Nat
    BY NumberAssumption DEF AtDays
  <2> QED BY <1>2, <2>1, BeginLimit
<1>3. ASSUME NEW r \in Transaction, NEW at \in AtDays, BeginSweep(r, at) PROVE LimitInv'
  BY <1>3, BeginLimit
<1>4. ASSUME NEW r \in Transaction, NEW at \in AtDays, NEW p \in Address, NEW t \in DOMAIN tenant,
             LockForActivation(r, at, t, p)
      PROVE  LimitInv'
  BY <1>4, BeginLimit
<1>5. ASSUME NEW n \in DOMAIN tenant, FreezeTenant(n) \/ CloseTenant(n) PROVE LimitInv'
  <2>1. tenant[n] \in TenantRow
    BY DEF IndInv, TypeOK
  <2>2. /\ DOMAIN tenant' = DOMAIN tenant /\ UNCHANGED <<today, task>>
        /\ \A t \in DOMAIN tenant \ {n} : tenant'[t] = tenant[t]
    BY <1>5 DEF FreezeTenant, CloseTenant
  <2>3. tenant'[n].status = "pending" => WasPending(n)
    <3>1. CASE FreezeTenant(n)
      <4>1. tenant' = [tenant EXCEPT ![n] = [tenant[n] EXCEPT !.frozen = TRUE]]
        BY <3>1 DEF FreezeTenant
      <4> QED BY <2>1, <4>1 DEF WasPending, TenantRow
    <3>2. CASE CloseTenant(n)
      <4>1. tenant' = [tenant EXCEPT ![n] = [tenant[n] EXCEPT !.status = "closed"]]
        BY <3>2 DEF CloseTenant
      <4> QED BY <2>1, <4>1 DEF TenantRow
    <3> QED BY <1>5, <3>1, <3>2
  <2>4. \A t \in DOMAIN tenant' : tenant'[t].status = "pending" => WasPending(t)
    BY <2>2, <2>3 DEF WasPending
  <2> QED BY <1>0, <2>2, <2>4, OutsideLimit
<1>6. CASE Tick
  <2>1. /\ today' = today + 1 /\ UNCHANGED <<tenant, task>>
        /\ \A r \in Transaction : task[r] # NoTask => today < task[r].at + MaxLag
    BY <1>6 DEF Tick
  <2>2. \A r \in Transaction : task[r].pc # "idle" => today' <= task[r].at + MaxLag
    <3>1. ASSUME NEW r \in Transaction, task[r].pc # "idle"
          PROVE  today < task[r].at + MaxLag /\ task[r].at \in Nat
      BY <1>0, <2>1, <3>1 DEF NoTask, TaskRow
    <3> QED BY <1>0, <2>1, <3>1, NumberAssumption
  <2> QED BY <1>0, <2>1, <2>2, TablesStand, OutsideLimit
<1>7. CASE UNCHANGED vars
  BY <1>0, <1>7, TablesStand, OutsideLimit DEF vars
<1> QED BY <1>1, <1>2, <1>3, <1>4, <1>5, <1>6, <1>7 DEF Next

\* Every reachable state has it.
LEMMA LimitsAreKept == Spec => []LimitInv
<1>1. Init => LimitInv
  <2>1. ASSUME Init PROVE \A p : Cardinality(PendingSignups(p, today, DOMAIN tenant)) = 0
    <3>1. DOMAIN tenant = {}
      BY <2>1 DEF Init
    <3>2. \A p : PendingSignups(p, today, DOMAIN tenant) = {}
      BY <3>1 DEF PendingSignups
    <3> QED BY <3>2, FS_EmptySet
  <2>2. Init => PendingLimitHolds
    BY <2>1, NumberAssumption DEF PendingLimitHolds
  <2>3. Init => LagInv /\ AddressInv /\ \A r \in Transaction : Cleared(r) /\ Counted(r)
    BY DEF Init, LagInv, AddressInv, Cleared, Counted, NoTask
  <2> QED BY <2>2, <2>3 DEF LimitInv
<1>2. IndInv /\ LimitInv /\ [Next]_vars => LimitInv'
  BY NextLimit
<1> QED BY <1>1, <1>2, Inductive, PTL DEF Spec

\* One address never has more pending signups than the limit, however its forms overlap (the
\* advisory lock and the count of create_pending_tenant).
THEOREM AddressesStayWithinTheLimit == Spec => []PendingLimitHolds
BY LimitsAreKept, PTL DEF LimitInv

\* A form is never refused for the sake of a signup that had already run out, whether or not
\* the sweep has been there (expire_due in create_pending_tenant).
THEOREM ExpiredSignupsYield == Spec => []ExpiredSignupHoldsNoSchool
<1>1. LimitInv => ExpiredSignupHoldsNoSchool
  BY DEF LimitInv, Cleared, ExpiredSignupHoldsNoSchool
<1> QED BY <1>1, LimitsAreKept, PTL

-----------------------------------------------------------------------------
(* Signup implements SchoolClaim. *)

ClaimOn(t) == [tenant |-> t, status |-> tenant[t].status, expires |-> tenant[t].expires]

\* What the refinement mapping gives for a school with and without a live FAU.
LEMMA ClaimValue ==
  ASSUME OneLivePerSchool, NEW s \in School
  PROVE  /\ \A t \in Holder(s) : ClaimOf(s) = ClaimOn(t)
         /\ Holder(s) = {} => ClaimOf(s) = Claims!Free
<1>1. \A t, u \in Holder(s) : t = u
  BY DEF OneLivePerSchool, Holder
<1>2. ASSUME NEW t \in Holder(s) PROVE ClaimOf(s) = ClaimOn(t)
  <2>1. (CHOOSE u \in Holder(s) : TRUE) \in Holder(s)
    OBVIOUS
  <2>2. (CHOOSE u \in Holder(s) : TRUE) = t
    BY <1>1, <2>1
  <2> QED
    BY <2>2 DEF ClaimOf, ClaimOn
<1> QED
  BY <1>2 DEF ClaimOf, Claims!Free

\* The same after a step.
LEMMA ClaimValueNext ==
  ASSUME OneLivePerSchool', NEW s \in School
  PROVE  /\ \A t \in Holder(s)' : ClaimOf(s)' = ClaimOn(t)'
         /\ Holder(s)' = {} => ClaimOf(s)' = Claims!Free
<1>1. \A t, u \in Holder(s)' : t = u
  BY DEF OneLivePerSchool, Holder, IsLive
<1>2. ASSUME NEW t \in Holder(s)' PROVE ClaimOf(s)' = ClaimOn(t)'
  <2>1. (CHOOSE u \in Holder(s)' : TRUE) \in Holder(s)'
    OBVIOUS
  <2>2. (CHOOSE u \in Holder(s)' : TRUE) = t
    BY <1>1, <2>1
  <2> QED
    BY <2>2 DEF ClaimOf, ClaimOn
<1> QED
  BY <1>2 DEF ClaimOf, Claims!Free

\* No school is claimed at the start.
LEMMA InitClaims ==
  ASSUME Init PROVE Claims!Init
<1>1. \A s \in School : Holder(s) = {}
  BY DEF Init, Holder
<1>2. \A s \in School : ClaimOf(s) = Claims!Free
  BY <1>1 DEF ClaimOf, Claims!Free
<1>3. ClaimMap = [s \in School |-> Claims!Free]
  BY <1>2 DEF ClaimMap
<1> QED
  BY <1>3 DEF Init, Claims!Init

\* Committed deletions release their schools.
LEMMA DropClaims ==
  ASSUME IndInv, IndInv', NEW r \in Transaction, tenant' = WithoutDeleted(r),
         UNCHANGED <<today, made>>
  PROVE  Claims!Next
<1> DEFINE gone == {s \in School : \E t \in task[r].deleted : tenant[t].school = s}
<1>1. /\ DOMAIN tenant' = DOMAIN tenant \ task[r].deleted
      /\ \A t \in DOMAIN tenant' : tenant'[t] = tenant[t]
  BY DEF WithoutDeleted
<1>2. /\ OneLivePerSchool /\ OneLivePerSchool' /\ today \in Nat
      /\ \A t \in task[r].deleted :
           /\ t \in DOMAIN tenant /\ tenant[t].school \in School /\ tenant[t].expires \in Nat
           /\ tenant[t].status = "pending" /\ tenant[t].expires <= task[r].at
      /\ task[r].at <= today /\ task[r].at \in Nat
  BY DEF IndInv, TypeOK, TaskRow, TenantRow, LockInv
<1>3. ASSUME NEW s \in gone
      PROVE  ClaimMap[s].status = "pending" /\ ClaimMap[s].expires <= today
             /\ ClaimOf(s)' = Claims!Free
  <2>1. PICK t \in task[r].deleted : tenant[t].school = s
    OBVIOUS
  <2>2. t \in Holder(s) /\ s \in School
    BY <1>2, <2>1 DEF Holder, IsLive
  <2>3. ClaimMap[s] = ClaimOn(t)
    BY <1>2, <2>2, ClaimValue DEF ClaimMap
  <2>4. Holder(s)' = {}
    BY <1>1, <1>2, <2>1, <2>2 DEF Holder, IsLive, OneLivePerSchool
  <2>5. tenant[t].expires <= today
    BY <1>2
  <2> QED
    BY <1>2, <2>2, <2>3, <2>4, <2>5, ClaimValueNext DEF ClaimOn
<1>4. ASSUME NEW s \in School, s \notin gone
      PROVE  ClaimOf(s)' = ClaimOf(s)
  <2>1. Holder(s)' = Holder(s)
    BY <1>1, <1>2, <1>4 DEF Holder, IsLive
  <2>2. \A t \in Holder(s) : ClaimOn(t)' = ClaimOn(t)
    BY <1>1, <2>1 DEF Holder, ClaimOn
  <2> QED
    BY <1>2, <2>1, <2>2, ClaimValue, ClaimValueNext
<1>5. ClaimMap' = [s \in School |-> IF s \in gone THEN Claims!Free ELSE ClaimMap[s]]
  BY <1>3, <1>4 DEF ClaimMap
<1>6. Claims!Release(gone) /\ gone \in SUBSET School
  BY <1>3, <1>5 DEF Claims!Release, Claims!RunOut
<1> QED
  BY <1>6 DEF Claims!Next

\* A committed signup claims its school, free or run out.
LEMMA SignupClaims ==
  ASSUME IndInv, IndInv', NEW r \in Transaction, CommitSignup(r)
  PROVE  Claims!Next
<1>0. PICK n, s, e : n = task[r].target /\ s = task[r].school /\ e = task[r].at + PendingDays
  OBVIOUS
<1>1. /\ task[r].pc = "commit" /\ task[r].address # NoAddress
      /\ s \in School /\ n \in 1 .. MaxSignups /\ n \notin DOMAIN tenant /\ n # NoTenant
      /\ UNCHANGED <<today, made>>
  BY <1>0, Constants DEF CommitSignup, IndInv, TypeOK, SignupInv, BoundInv
<1>2. /\ DOMAIN tenant' = (DOMAIN tenant \ task[r].deleted) \cup {n}
      /\ tenant'[n].school = s /\ tenant'[n].status = "pending" /\ tenant'[n].expires = e
      /\ \A t \in DOMAIN tenant' : t # n => t \in DOMAIN tenant /\ tenant'[t] = tenant[t]
  BY <1>0, <1>1 DEF CommitSignup
<1>3. /\ OneLivePerSchool /\ OneLivePerSchool' /\ today \in Nat
      /\ \A t \in task[r].deleted :
           /\ t \in DOMAIN tenant /\ tenant[t].school = s
           /\ tenant[t].status = "pending" /\ tenant[t].expires <= task[r].at
           /\ tenant[t].expires \in Nat
      /\ task[r].at <= today /\ task[r].at \in Nat /\ today <= LastDay
      /\ \A t \in DOMAIN tenant : tenant[t].school = s /\ IsLive(t) => t \in task[r].deleted
  BY <1>0, <1>1, Constants
     DEF IndInv, TypeOK, TaskRow, TenantRow, LockInv, InsertInv, LiveTenantForSchool, BoundInv
<1>4. e \in 0 .. LastDay + PendingDays
  BY <1>0, <1>3, Constants
<1>5. ClaimOf(s)' = [tenant |-> n, status |-> "pending", expires |-> e]
  <2>1. n \in Holder(s)'
    BY <1>2 DEF Holder, IsLive
  <2> QED
    BY <1>1, <1>2, <1>3, <2>1, ClaimValueNext DEF ClaimOn
<1>6. ASSUME NEW u \in School, u # s PROVE ClaimOf(u)' = ClaimOf(u)
  <2>1. Holder(u)' = Holder(u)
    BY <1>1, <1>2, <1>3, <1>6 DEF Holder, IsLive
  <2>2. \A t \in Holder(u) : ClaimOn(t)' = ClaimOn(t)
    BY <1>1, <1>2, <1>3, <1>6, <2>1 DEF Holder, ClaimOn
  <2> QED
    BY <1>3, <2>1, <2>2, ClaimValue, ClaimValueNext
<1>7. ClaimMap' = [ClaimMap EXCEPT ![s] = [tenant |-> n, status |-> "pending", expires |-> e]]
  BY <1>1, <1>5, <1>6 DEF ClaimMap
<1>8. /\ ClaimMap[s] = Claims!Free \/ (ClaimMap[s].status = "pending" /\ ClaimMap[s].expires <= today)
      /\ n # ClaimMap[s].tenant
  <2>1. CASE Holder(s) = {}
    BY <1>1, <1>3, <2>1, ClaimValue DEF ClaimMap, Claims!Free
  <2>2. CASE Holder(s) # {}
    <3>1. PICK t \in Holder(s) : TRUE
      BY <2>2
    <3>2. t \in DOMAIN tenant /\ t \in task[r].deleted
      BY <1>3, <3>1 DEF Holder
    <3>3. ClaimMap[s] = ClaimOn(t)
      BY <1>1, <1>3, <3>1, ClaimValue DEF ClaimMap
    <3>4. tenant[t].expires <= today /\ tenant[t].status = "pending"
      BY <1>3, <3>2
    <3> QED
      BY <1>1, <3>2, <3>3, <3>4 DEF ClaimOn
  <2> QED
    BY <2>1, <2>2
<1>9. Claims!Claim(s)
  BY <1>1, <1>4, <1>7, <1>8 DEF Claims!Claim, Claims!RunOut
<1> QED
  BY <1>1, <1>9 DEF Claims!Next

\* A step that changes one row, and not its school, leaves the claims on other schools.
LEMMA OtherClaims ==
  ASSUME IndInv, IndInv', NEW n \in DOMAIN tenant, DOMAIN tenant' = DOMAIN tenant,
         \A u \in DOMAIN tenant \ {n} : tenant'[u] = tenant[u],
         tenant'[n].school = tenant[n].school,
         NEW s \in School, s # tenant[n].school
  PROVE  ClaimOf(s)' = ClaimOf(s)
<1>1. OneLivePerSchool /\ OneLivePerSchool'
  BY DEF IndInv
<1>2. Holder(s)' = Holder(s)
  BY DEF Holder, IsLive
<1>3. ASSUME NEW t \in Holder(s) PROVE ClaimOn(t)' = ClaimOn(t)
  <2>1. t \in DOMAIN tenant \ {n}
    BY DEF Holder
  <2>2. tenant'[t] = tenant[t]
    BY <2>1
  <2> QED
    BY <2>2 DEF ClaimOn
<1>4. CASE Holder(s) = {}
  BY <1>1, <1>2, <1>4, ClaimValue, ClaimValueNext
<1>5. CASE Holder(s) # {}
  <2>1. PICK t \in Holder(s) : TRUE
    BY <1>5
  <2>2. ClaimOf(s) = ClaimOn(t) /\ ClaimOf(s)' = ClaimOn(t)'
    BY <1>1, <1>2, <2>1, ClaimValue, ClaimValueNext
  <2> QED
    BY <1>3, <2>2
<1> QED
  BY <1>4, <1>5

\* What a live row gives for its own school, before and after such a step.
LEMMA OwnClaim ==
  ASSUME IndInv, IndInv', NEW n \in DOMAIN tenant, DOMAIN tenant' = DOMAIN tenant,
         tenant'[n].school = tenant[n].school, tenant'[n].expires = tenant[n].expires,
         tenant[n].status \in {"pending", "active"}
  PROVE  LET s == tenant[n].school
         IN  /\ s \in School
             /\ ClaimOf(s) = ClaimOn(n)
             /\ IsLive(n)' => ClaimOf(s)' = [tenant |-> n, status |-> tenant'[n].status,
                                             expires |-> tenant[n].expires]
<1> DEFINE s == tenant[n].school
<1>1. OneLivePerSchool /\ OneLivePerSchool' /\ s \in School
  BY DEF IndInv, TypeOK, TenantRow
<1>2. n \in Holder(s)
  BY DEF Holder, IsLive
<1>3. ClaimOf(s) = ClaimOn(n)
  BY <1>1, <1>2, ClaimValue
<1>4. ASSUME IsLive(n)'
      PROVE  ClaimOf(s)' = [tenant |-> n, status |-> tenant'[n].status,
                            expires |-> tenant[n].expires]
  <2>1. \A x \in School : x = tenant[n].school => n \in Holder(x)'
    BY <1>4 DEF Holder
  <2>2. \A x \in School : x = tenant[n].school => ClaimOf(x)' = ClaimOn(n)'
    BY <1>1, <2>1, ClaimValueNext
  <2> QED
    BY <1>1, <2>2 DEF ClaimOn
<1> QED
  BY <1>1, <1>3, <1>4

\* An activation activates the claim on its school.
LEMMA ActivationClaims ==
  ASSUME IndInv, IndInv', NEW r \in Transaction, CommitActivation(r)
  PROVE  Claims!Next
<1>1. task[r].target \in DOMAIN tenant /\ tenant[task[r].target].status = "pending"
  BY DEF CommitActivation, IndInv, TypeOK, LockInv
<1>2. PICK n \in DOMAIN tenant : n = task[r].target
  BY <1>1
<1>3. /\ DOMAIN tenant' = DOMAIN tenant
      /\ \A u \in DOMAIN tenant \ {n} : tenant'[u] = tenant[u]
      /\ tenant[n].status = "pending"
      /\ tenant'[n].status = "active" /\ tenant'[n].school = tenant[n].school
      /\ tenant'[n].expires = tenant[n].expires
      /\ UNCHANGED today
  BY <1>1, <1>2 DEF CommitActivation, IndInv, TypeOK, TenantRow
<1>4. IsLive(n)'
  BY <1>3 DEF IsLive
<1>5. PICK c \in School : c = tenant[n].school
  BY <1>3, OwnClaim
<1>6. /\ ClaimOf(c).status = "pending"
      /\ ClaimOf(c)' = [ClaimOf(c) EXCEPT !.status = "active"]
  <2>1. ClaimOf(c) = [tenant |-> n, status |-> "pending", expires |-> tenant[n].expires]
    BY <1>3, <1>5, OwnClaim DEF ClaimOn
  <2>2. ClaimOf(c)' = [tenant |-> n, status |-> "active", expires |-> tenant[n].expires]
    BY <1>3, <1>4, <1>5, OwnClaim
  <2> QED
    BY <2>1, <2>2
<1>7. \A u \in School : u # c => ClaimOf(u)' = ClaimOf(u)
  BY <1>3, <1>5, OtherClaims
<1>8. Claims!Activate(c)
  BY <1>3, <1>6, <1>7 DEF Claims!Activate, ClaimMap
<1> QED
  BY <1>8 DEF Claims!Next

\* A freeze is invisible to the claims.
LEMMA FreezeClaims ==
  ASSUME IndInv, IndInv', NEW n \in DOMAIN tenant, FreezeTenant(n)
  PROVE  UNCHANGED Claims!vars
<1>1. /\ DOMAIN tenant' = DOMAIN tenant
      /\ \A u \in DOMAIN tenant \ {n} : tenant'[u] = tenant[u]
      /\ tenant'[n].status = tenant[n].status /\ tenant'[n].school = tenant[n].school
      /\ tenant'[n].expires = tenant[n].expires
      /\ tenant[n].status \in {"pending", "active"}
      /\ UNCHANGED today
  BY DEF FreezeTenant, IsLive, IndInv, TypeOK, TenantRow
<1>2. IsLive(n)'
  BY <1>1 DEF IsLive
<1>3. ASSUME NEW u \in School, u = tenant[n].school PROVE ClaimOf(u)' = ClaimOf(u)
  BY <1>1, <1>2, <1>3, OwnClaim DEF ClaimOn
<1>4. \A u \in School : u # tenant[n].school => ClaimOf(u)' = ClaimOf(u)
  BY <1>1, OtherClaims
<1> QED
  BY <1>1, <1>3, <1>4 DEF Claims!vars, ClaimMap

\* A closed FAU gives its school up.
LEMMA CloseClaims ==
  ASSUME IndInv, IndInv', NEW n \in DOMAIN tenant, CloseTenant(n)
  PROVE  Claims!Next
<1>1. /\ DOMAIN tenant' = DOMAIN tenant
      /\ \A u \in DOMAIN tenant \ {n} : tenant'[u] = tenant[u]
      /\ tenant[n].status = "active"
      /\ tenant'[n].status = "closed" /\ tenant'[n].school = tenant[n].school
      /\ tenant'[n].expires = tenant[n].expires
      /\ UNCHANGED today
  BY DEF CloseTenant, IndInv, TypeOK, TenantRow
<1>2. tenant[n].school \in School /\ ClaimOf(tenant[n].school) = ClaimOn(n)
  BY <1>1, OwnClaim
<1>3. PICK c \in School : c = tenant[n].school
  BY <1>2
<1>4. ClaimOf(c).status = "active"
  BY <1>1, <1>2, <1>3 DEF ClaimOn
<1>5. Holder(c)' = {}
  BY <1>1, <1>3 DEF Holder, IsLive, IndInv, OneLivePerSchool
<1>6. ClaimOf(c)' = Claims!Free
  BY <1>5, ClaimValueNext DEF IndInv
<1>7. \A u \in School : u # c => ClaimOf(u)' = ClaimOf(u)
  BY <1>1, <1>3, OtherClaims
<1>8. Claims!Close(c)
  BY <1>1, <1>4, <1>6, <1>7 DEF Claims!Close, ClaimMap
<1> QED
  BY <1>8 DEF Claims!Next

\* While no tenant changes, neither does a claim.
LEMMA StillClaims ==
  ASSUME UNCHANGED tenant
  PROVE  ClaimMap' = ClaimMap
BY DEF ClaimMap, ClaimOf, Holder, IsLive

\* Every step of signup is a step of SchoolClaim, or none.
LEMMA NextClaims ==
  ASSUME IndInv, IndInv', [Next]_vars
  PROVE  [Claims!Next]_(Claims!vars)
<1>1. CASE UNCHANGED <<today, tenant>>
  BY <1>1, StillClaims DEF Claims!vars
<1>2. ASSUME NEW r \in Transaction, Step(r) \/ DeadlockDetected(r) \/ Abandon(r)
      PROVE  [Claims!Next]_(Claims!vars)
  <2>1. CASE RecordCollision(r) \/ CommitSweep(r)
    BY <2>1, DropClaims DEF RecordCollision, CommitSweep
  <2>2. CASE CommitSignup(r)
    BY <2>2, SignupClaims
  <2>3. CASE CommitActivation(r)
    BY <2>3, ActivationClaims
  <2>4. CASE UNCHANGED <<today, tenant>>
    BY <2>4, <1>1
  <2> QED
    BY <1>2, <2>1, <2>2, <2>3, <2>4
    DEF Step, LockAddress, ExpireScan, ExpireDelete, CheckSchool, CheckPendingLimit,
        TryInsertTenant, Reread, RefuseDisabledAccount, DeadlockDetected, Abandon
<1>3. CASE Tick
  BY <1>3, StillClaims DEF Tick, Claims!Next, Claims!Tick
<1>4. ASSUME NEW t \in DOMAIN tenant, FreezeTenant(t) \/ CloseTenant(t)
      PROVE  [Claims!Next]_(Claims!vars)
  BY <1>4, FreezeClaims, CloseClaims
<1>5. ASSUME NEW r \in Transaction, NEW at \in AtDays, NEW s \in School, NEW p \in Address,
             NEW ends \in at + AdminEndMin .. at + AdminEndMax, BeginSignup(r, at, s, p, ends)
      PROVE  [Claims!Next]_(Claims!vars)
  BY <1>1, <1>5 DEF BeginSignup
<1>6. ASSUME NEW r \in Transaction, NEW at \in AtDays, BeginSweep(r, at)
      PROVE  [Claims!Next]_(Claims!vars)
  BY <1>1, <1>6 DEF BeginSweep
<1>7. ASSUME NEW r \in Transaction, NEW at \in AtDays, NEW p \in Address,
             NEW t \in DOMAIN tenant, LockForActivation(r, at, t, p)
      PROVE  [Claims!Next]_(Claims!vars)
  BY <1>1, <1>7 DEF LockForActivation
<1>8. CASE UNCHANGED vars
  BY <1>1, <1>8 DEF vars
<1> QED
  BY <1>2, <1>3, <1>4, <1>5, <1>6, <1>7, <1>8 DEF Next

\* Signup keeps SchoolClaim's promise to every school, whatever the numbers of schools,
\* addresses and overlapping transactions: the statements of signup.rs amount to its atomic
\* claims, releases, activations and closures.
THEOREM ImplementsSchoolClaim == Spec => ImplementsClaim
<1>1. Init => Claims!Init
  BY InitClaims
<1>2. IndInv /\ IndInv' /\ [Next]_vars => [Claims!Next]_(Claims!vars)
  BY NextClaims
<1> QED
  BY <1>1, <1>2, Inductive, PTL DEF Spec, ImplementsClaim, Claims!Spec
=============================================================================
