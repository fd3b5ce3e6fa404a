----------------------------- MODULE Retention -----------------------------
(***************************************************************************)
(* One account's name and contact address in every FAU it belongs to: how   *)
(* long an ended membership keeps them (persistence/membership/             *)
(* retention.rs, profile.rs, names.rs and the parts of roles.rs and sql.rs  *)
(* that write the two fields; domain/membership/retention.rs and            *)
(* domain/directory/history.rs).                                           *)
(*                                                                         *)
(* Operations on one FAU run under its lock and are one step.  The two that *)
(* span FAU-er, set_retention_months and erase_member_names, read their     *)
(* list of FAU-er first and then lock these one by one, so they are jobs of *)
(* several steps; what they write becomes visible when they commit, and     *)
(* nobody else writes a row of a locked FAU meanwhile.                      *)
(*                                                                         *)
(* A field is the number of the acceptance that stated it, 0 for null.  A   *)
(* period is a number of days rather than months.  Who may act (an admin,   *)
(* the member), the invitation accepted and the freeze that refuses Accept, *)
(* GrantRole and the two edits are Membership's; groups are Groups'.  A     *)
(* request's clock is the day it runs.                                      *)
(***************************************************************************)
EXTENDS Integers, Sequences

CONSTANTS
  Tenant,          \* the FAU-er, numbered: locks are taken in id order
  Setter, Eraser,  \* the account-wide operations a run includes, each one once
  Period,          \* the values of accounts.retention_months; 0 is none
  DefaultPeriod,
  OfferedPeriods,  \* the periods a role may be given for
  Followed,        \* the FAU-er whose contributions are followed
  LastDay, MaxRoles, FirstJobDay  \* bounds

ASSUME RetentionAssumption ==
  /\ Tenant \subseteq Nat
  /\ Period \subseteq Nat /\ DefaultPeriod \in Period
  /\ OfferedPeriods \subseteq [from : Nat, to : Nat]
  /\ \A p \in OfferedPeriods : p.from < p.to
  /\ LastDay \in Nat /\ FirstJobDay \in Nat
  /\ MaxRoles \in [Tenant -> Nat]

VARIABLES
  today,
  months,    \* accounts.retention_months
  row,       \* memberships, one row per FAU
  roles,     \* role_assignments of that membership
  accepted,  \* how many acceptances have written a profile there; 0: no row
  job,       \* account-wide operations under way
  missed,    \* history: FAU-er with fields that a setting change did not have on its list
  promised,  \* history: FAU-er an erasure had on its list when it committed
  served,    \* history: the days at whose end the membership was running
  bygone     \* history: those of them before a membership that was over at a day's end

vars == <<today, months, row, roles, accepted, job, missed, promised, served, bygone>>

NoDay == -1
Job == Setter \cup Eraser
Idle == [kind |-> "idle", list |-> {}, locked |-> {}]
Done == [Idle EXCEPT !.kind = "done"]
NoRow == [name |-> 0, contact |-> 0, until |-> NoDay, revokedOn |-> NoDay, erased |-> FALSE]

Exists(t) == accepted[t] > 0
Rows(rs) == {rs[i] : i \in DOMAIN rs}
HasFields(r) == r.name # 0 \/ r.contact # 0
Latest(days) == CHOOSE d \in days : \A e \in days : e <= d
Earlier(d, e) == IF d <= e THEN d ELSE e

-----------------------------------------------------------------------------
(* What the roles say: held spans, the end of a membership, the label shown. *)

\* membership_ended: a handover grant does not keep a membership going.
MembershipEnded(t) ==
  \/ row[t].revokedOn # NoDay
  \/ ~\E a \in Rows(roles[t]) : a.revokedOn = NoDay /\ today < a.to

\* held_roles: an early revocation cuts the span short; empty spans are left out.
HeldRoles(rs) ==
  LET Span(a) == [from |-> a.from,
                  until |-> IF a.revokedOn = NoDay THEN a.to ELSE Earlier(a.to, a.revokedOn)]
  IN  {h \in {Span(a) : a \in Rows(rs)} : h.from < h.until}

\* Mutant: the period counts from the day the end is noticed.
EndedOnNoticed(rs, revokedOn) == today

\* ended_on_for: the last day a role was held, else the last revocation of a role, else
\* the membership's own; never later than today.
EndedOn(rs, revokedOn) ==
  LET held == {h.until : h \in HeldRoles(rs)}
      revoked == {a.revokedOn : a \in Rows(rs)} \ {NoDay}
  IN  Earlier(today, CASE held # {} -> Latest(held)
                       [] held = {} /\ revoked # {} -> Latest(revoked)
                       [] OTHER -> IF revokedOn = NoDay THEN today ELSE revokedOn)

\* keep_until: the first day the fields are no longer kept, NoDay to clear them now.
KeepUntil(ended, m) == IF m # 0 /\ today < ended + m THEN ended + m ELSE NoDay

\* effective_keep_until: a stamped date stands, an end not yet noticed is computed.
EffectiveKeepUntil(stamped, rs, revokedOn) ==
  IF stamped # NoDay
  THEN IF today < stamped THEN stamped ELSE NoDay
  ELSE KeepUntil(EndedOn(rs, revokedOn), months)

\* active_period: the first day of the run of touching or overlapping spans that holds
\* today, or today when none does.
PeriodSince(rs) ==
  LET held == HeldRoles(rs)
      Joined(from) ==   \* no day without a role from there to today
        \A d \in from .. today : \E h \in held : h.from <= d /\ d < h.until
      starts == {h.from : h \in {g \in held : g.from <= today /\ Joined(g.from)}}
  IN  IF starts = {} THEN today ELSE CHOOSE d \in starts : \A e \in starts : d <= e

\* active_period: the roles of earlier periods.
EarlierRoles(rs) ==
  LET since == PeriodSince(rs)
      running == \E h \in HeldRoles(rs) : h.from <= today /\ today < h.until
  IN  {h \in HeldRoles(rs) : IF running THEN h.until < since ELSE h.until <= today}

\* member_names with label_on: how history shows an event of day d.
ShownAs(t, d) ==
  CASE row[t].erased -> "former"
    [] ~row[t].erased /\ MembershipEnded(t) ->
         IF HeldRoles(roles[t]) = {} THEN "former" ELSE "role"
    [] OTHER ->
         IF row[t].name = 0 THEN "unnamed"
         ELSE IF EarlierRoles(roles[t]) # {} /\ d < PeriodSince(roles[t])
         THEN "role" ELSE "name"

-----------------------------------------------------------------------------
(* settle_profile, reopen_profile and what they write. *)

Cleared(r) == [r EXCEPT !.name = 0, !.contact = 0, !.until = NoDay]

\* The state settle_profile finds, and the row it leaves.
Kept(t) == EffectiveKeepUntil(row[t].until, roles[t], row[t].revokedOn)
Settled(t) ==
  CASE row[t].erased \/ ~HasFields(row[t]) -> "absent"
    [] ~row[t].erased /\ HasFields(row[t]) /\ ~MembershipEnded(t) -> "active"
    [] OTHER -> IF Kept(t) = NoDay THEN "cleared" ELSE "retained"
SettledRow(t) ==
  CASE Settled(t) = "retained" -> [row[t] EXCEPT !.until = Kept(t)]
    [] Settled(t) = "cleared" -> Cleared(row[t])
    [] OTHER -> row[t]

\* reopen_profile: an expired period is cleared, then the row is current again.
ReopenedRow(t) == [SettledRow(t) EXCEPT !.revokedOn = NoDay, !.until = NoDay]

Locked(t) == \E j \in Job : t \in job[j].locked
NewRole(p) == [from |-> p.from, to |-> p.to, revokedOn |-> NoDay]
MayGetRole(t) == Len(roles[t]) < MaxRoles[t]   \* a bound, not the code's

Init ==
  /\ today = 0
  /\ months = DefaultPeriod
  /\ row = [t \in Tenant |-> NoRow]
  /\ roles = [t \in Tenant |-> <<>>]
  /\ accepted = [t \in Tenant |-> 0]
  /\ job = [j \in Job |-> Idle]
  /\ missed = {}
  /\ promised = {}
  /\ served = [t \in Tenant |-> {}]
  /\ bygone = [t \in Tenant |-> {}]

Aside == <<today, months, job, missed, promised, served, bygone>>

-----------------------------------------------------------------------------
(* The member comes, is edited and goes: one transaction under the FAU's lock. *)

\* ensure_membership refuses a membership whose name was erased.
ErasureStands(t) == row[t].erased

\* write_profile: the stated name, and the stored address when none is stated and the
\* row was current or retained.
WriteProfile(t, r, states) ==
  LET n == accepted[t] + 1
      current == Exists(t) /\ Settled(t) \in {"active", "retained"}
  IN  [r EXCEPT !.name = n,
                !.contact = IF states THEN n ELSE IF current THEN r.contact ELSE 0]

\* accept_invitation, or the activation of a signup: creates or reopens the row.  The
\* offered period may be over by now; nothing checks it again.
Accept(t, p, states) ==
  /\ ~Locked(t)
  /\ ~ErasureStands(t)
  /\ MayGetRole(t)
  /\ row' = [row EXCEPT ![t] =
               WriteProfile(t, IF Exists(t) THEN ReopenedRow(t) ELSE NoRow, states)]
  /\ roles' = [roles EXCEPT ![t] = Append(@, NewRole(p))]
  /\ accepted' = [accepted EXCEPT ![t] = @ + 1]
  /\ UNCHANGED Aside

\* grant_role: to a membership that is not revoked, for a period that is not over.
GrantRole(t, p) ==
  /\ ~Locked(t)
  /\ Exists(t) /\ row[t].revokedOn = NoDay
  /\ today < p.to
  /\ MayGetRole(t)
  /\ row' = [row EXCEPT ![t] = ReopenedRow(t)]
  /\ roles' = [roles EXCEPT ![t] = Append(@, NewRole(p))]
  /\ UNCHANGED <<Aside, accepted>>

\* set_display_name, by the member or by an admin.
SetDisplayName(t) ==
  /\ ~Locked(t)
  /\ Exists(t) /\ ~row[t].erased /\ ~MembershipEnded(t)
  /\ row' = [row EXCEPT ![t].name = accepted[t]]
  /\ UNCHANGED <<Aside, roles, accepted>>

\* set_contact_email, by the member, who has standing today.
SetContactEmail(t, to) ==
  /\ ~Locked(t)
  /\ row[t].revokedOn = NoDay
  /\ \E a \in Rows(roles[t]) : a.revokedOn = NoDay /\ a.from <= today /\ today < a.to
  /\ ~row[t].erased
  /\ row' = [row EXCEPT ![t].contact = to]
  /\ UNCHANGED <<Aside, roles, accepted>>

\* revoke_role_assignment: an assignment that is over may be revoked too.
RevokeRole(t, a) ==
  /\ ~Locked(t)
  /\ roles[t][a].revokedOn = NoDay
  /\ roles' = [roles EXCEPT ![t][a].revokedOn = today]
  /\ UNCHANGED <<Aside, row, accepted>>

\* The revocation of every running and future role.  (Ended admin roles are revoked too,
\* which cuts no held span short.)
CutShort(t) ==
  [i \in DOMAIN roles[t] |->
     LET a == roles[t][i]
     IN  IF a.revokedOn = NoDay /\ today < a.to THEN [a EXCEPT !.revokedOn = today] ELSE a]

\* Mutant: the row is revoked and its fields are left for the sweep.
RevokedRowUnstamped(t) == [row[t] EXCEPT !.revokedOn = today]

\* revoke_membership's write: a stamp counts only if the membership had ended before.
RevokedRow(t) ==
  LET stamped == IF MembershipEnded(t) THEN row[t].until ELSE NoDay
      keep == IF HasFields(row[t])
              THEN EffectiveKeepUntil(stamped, CutShort(t), NoDay) ELSE NoDay
      kept == IF keep = NoDay THEN Cleared(row[t]) ELSE [row[t] EXCEPT !.until = keep]
  IN  [kept EXCEPT !.revokedOn = today]

RevokeMembership(t) ==
  /\ ~Locked(t)
  /\ Exists(t) /\ row[t].revokedOn = NoDay
  /\ row' = [row EXCEPT ![t] = RevokedRow(t)]
  /\ roles' = [roles EXCEPT ![t] = CutShort(t)]
  /\ UNCHANGED <<Aside, accepted>>

\* clear_ended_profiles at one FAU: the rows found before the lock are found again under it.
Sweep(t) ==
  /\ ~Locked(t)
  /\ HasFields(row[t]) /\ MembershipEnded(t)
  /\ row[t].until = NoDay \/ row[t].until <= today
  /\ row' = [row EXCEPT ![t] = SettledRow(t)]
  /\ UNCHANGED <<Aside, roles, accepted>>

-----------------------------------------------------------------------------
(* Operations on every FAU of the account. *)

\* set_retention_months begins: the FAU-er with a field, read before anything is locked.
BeginSetRetention(j) ==
  /\ job[j] = Idle /\ FirstJobDay <= today
  /\ job' = [job EXCEPT ![j] =
       [kind |-> "set", locked |-> {},
        list |-> {t \in Tenant : HasFields(row[t]) /\ ~row[t].erased}]]
  /\ UNCHANGED <<today, months, row, roles, accepted, missed, promised, served, bygone>>

\* erase_member_names begins: every FAU with a row.
BeginErase(j) ==
  /\ job[j] = Idle /\ FirstJobDay <= today
  /\ job' = [job EXCEPT ![j] =
       [Idle EXCEPT !.kind = "erase", !.list = {t \in Tenant : Exists(t)}]]
  /\ UNCHANGED <<today, months, row, roles, accepted, missed, promised, served, bygone>>

\* Mutant: the FAU-er are locked in the order the query happens to return them.
NextLockAnyOrder(j) == job[j].list \ job[j].locked

\* The FAU-er are locked in id order.
NextLock(j) ==
  LET left == job[j].list \ job[j].locked IN {t \in left : \A s \in left : t <= s}

Lock(j) ==
  /\ \E t \in NextLock(j) :
       /\ ~Locked(t)
       /\ job' = [job EXCEPT ![j].locked = @ \cup {t}]
  /\ UNCHANGED <<today, months, row, roles, accepted, missed, promised, served, bygone>>

AllLocked(j) == job[j].list = job[j].locked

\* Mutant: the new setting is written without settling ends under the old one first.
SettledFirstNot(t) == row[t]

\* set_retention_months settles each membership under the setting it is about to replace.
SettledFirst(t) == SettledRow(t)

\* ... and then moves the date of each ended membership that has one.
Recalculated(t, r, m) ==
  LET keep == KeepUntil(EndedOn(roles[t], r.revokedOn), m)
  IN  IF r.until = NoDay \/ ~MembershipEnded(t) THEN r
      ELSE IF keep = NoDay THEN Cleared(r) ELSE [r EXCEPT !.until = keep]

CommitSetRetention(j, m) ==
  /\ job[j].kind = "set" /\ AllLocked(j)
  /\ months' = m
  /\ row' = [t \in Tenant |->
       IF t \in job[j].list /\ ~row[t].erased /\ HasFields(row[t])
       THEN Recalculated(t, SettledFirst(t), m) ELSE row[t]]
  /\ missed' = (missed \ job[j].list)
                 \cup {t \in Tenant \ job[j].list : HasFields(row[t])}
  /\ job' = [job EXCEPT ![j] = Done]
  /\ UNCHANGED <<today, roles, accepted, promised, served, bygone>>

\* Mutant: ended memberships, whose names are hidden already, are passed over.
ErasedRowIfActive(t) ==
  IF MembershipEnded(t) THEN row[t] ELSE [Cleared(row[t]) EXCEPT !.erased = TRUE]

ErasedRow(t) == [Cleared(row[t]) EXCEPT !.erased = TRUE]

CommitErase(j) ==
  /\ job[j].kind = "erase" /\ AllLocked(j)
  /\ row' = [t \in Tenant |-> IF t \in job[j].list THEN ErasedRow(t) ELSE row[t]]
  /\ promised' = promised \cup job[j].list
  /\ job' = [job EXCEPT ![j] = Done]
  /\ UNCHANGED <<today, months, roles, accepted, missed, served, bygone>>

\* The transaction fails on the way: nothing is written.
RollBack(j) ==
  /\ job[j] \notin {Idle, Done}
  /\ job' = [job EXCEPT ![j] = Done]
  /\ UNCHANGED <<today, months, row, roles, accepted, missed, promised, served, bygone>>

-----------------------------------------------------------------------------
\* A day passes, with no account-wide operation under way across midnight.
Tick ==
  /\ today < LastDay
  /\ \A j \in Job : job[j] \in {Idle, Done}
  /\ today' = today + 1
  /\ served' = [t \in Tenant |->
       IF t \in Followed /\ Exists(t) /\ ~MembershipEnded(t) THEN served[t] \cup {today} ELSE served[t]]
  /\ bygone' = [t \in Tenant |->
       IF Exists(t) /\ MembershipEnded(t) THEN served[t] ELSE bygone[t]]
  /\ UNCHANGED <<months, row, roles, accepted, job, missed, promised>>

Next ==
  \/ Tick
  \/ \E t \in Tenant :
       \/ \E p \in OfferedPeriods, states \in BOOLEAN : Accept(t, p, states)
       \/ \E p \in OfferedPeriods : GrantRole(t, p)
       \/ SetDisplayName(t)
       \/ \E to \in {0, accepted[t]} : SetContactEmail(t, to)
       \/ \E a \in DOMAIN roles[t] : RevokeRole(t, a)
       \/ RevokeMembership(t)
       \/ Sweep(t)
  \/ \E j \in Setter : BeginSetRetention(j) \/ \E m \in Period : CommitSetRetention(j, m)
  \/ \E j \in Eraser : BeginErase(j)
  \/ \E j \in Job :
       \/ Lock(j)
       \/ CommitErase(j)
       \/ RollBack(j)

Spec == Init /\ [][Next]_vars

-----------------------------------------------------------------------------
(* Properties *)

\* Migrations 0008 and 0009 refuse a write the checks do not allow, with a raw database
\* error in place of an answer.  No operation ever makes such a row: a revoked row keeps a
\* field only with its date, a date stands only beside a field, an erased row has neither.
ChecksHold ==
  \A t \in Tenant :
    /\ row[t].revokedOn # NoDay /\ HasFields(row[t]) => row[t].until # NoDay
    /\ row[t].until # NoDay => HasFields(row[t])
    /\ row[t].erased => ~HasFields(row[t])

\* The ended membership's period is over: its fields wait for the sweep.
Over(t) == HasFields(row[t]) /\ MembershipEnded(t) /\ Kept(t) = NoDay

\* A period that is over is never revived, neither by a longer setting
\* (set_retention_months) nor by a return (reopen_profile, write_profile): each field goes,
\* is stated anew, or stays over.  A FAU that a setting change did not have on its list is
\* left out, as the function's comment says.
ExpiredIsGone ==
  [][\A t \in Tenant : Over(t) =>
       \A f \in {"name", "contact"} :
         \/ row'[t][f] \in {0, accepted[t] + 1}
         \/ row'[t][f] = row[t][f] /\ (Over(t)' \/ t \in missed')]_vars

\* The date on an ended membership is the day it ended plus the account's period, however
\* it ended, whoever noticed first and whatever was recalculated since (ended_on_for: "a
\* fact of the past, so recomputing it never moves a period").
StampFollowsSetting ==
  \A t \in Tenant \ missed :
    row[t].until # NoDay =>
      /\ MembershipEnded(t)
      /\ row[t].until = EndedOn(roles[t], row[t].revokedOn) + months

\* Once an erasure has committed, no FAU the account belonged to when it began has its
\* name, nor shows its role, whatever is accepted, granted or set later.
ErasedStaysForgotten ==
  \A t \in promised :
    /\ ~HasFields(row[t])
    /\ \A d \in 0 .. today : ShownAs(t, d) = "former"

\* Two account-wide operations never wait for each other's FAU (both lock in id order).
NoCircularWait ==
  ~\E j, k \in Job :
     /\ j # k
     /\ NextLock(j) # {} /\ NextLock(j) \subseteq job[k].locked
     /\ NextLock(k) # {} /\ NextLock(k) \subseteq job[j].locked

\* Others never see a returner's name on contributions from before a membership that was
\* over when a day ended (names.rs, MemberName::Returned: "Others never see the returner's
\* name on their old contributions").
OldContributionsStayUnnamed ==
  \A t \in Tenant : \A d \in bygone[t] : ShownAs(t, d) # "name"
=============================================================================
