---------------------------- MODULE RegisterSync ----------------------------
(***************************************************************************)
(* The register over time: the applier (crates/persistence/src/register)  *)
(* writes the plans of RegisterPlan into the tables of migration 0004,    *)
(* while Kartverket, SSB and NSR publish their changes one at a time and  *)
(* out of step, parents sign up, and an operator closes review items.     *)
(*                                                                        *)
(* One run is two steps, because a sign-up can commit between them:       *)
(* BeginRun fetches the sources, opens the REPEATABLE READ transaction,   *)
(* reads the snapshot and plans; FinishRun applies and commits, or stops. *)
(* The advisory lock keeps runs apart (module RegisterRun), so there is   *)
(* one transaction at a time.                                             *)
(***************************************************************************)
EXTENDS RegisterPlan

CONSTANTS
  Scenarios,   \* the registers and sources a behaviour may start from, each
               \* with the source edits that may then happen
  MaxRuns,     \* bound: the clock, which starts at 1 and counts runs of `fau register sync`
  MaxSignups,  \* bound: sign-ups
  MaxResolved  \* bound: review items an operator closes

ASSUME BoundsAssumption == MaxRuns \in Nat \ {0} /\ MaxSignups \in Nat /\ MaxResolved \in Nat

VARIABLES
  register,  \* the tables: municipalities, number and slug histories, schools, reviews
  sources,   \* what Kartverket, SSB and NSR would answer now
  edits,     \* the edits the sources have still to publish
  tenants,   \* schools with a pending or active FAU
  now,       \* the time, counted in runs
  tx,        \* the open run: its plan, and whether --accept-mass-change was given
  last,      \* how the last run ended
  dirty,     \* sources, FAUs or reviews changed since the last run began
  quiet,     \* runs that ended well since then, up to 2
  signups, resolved  \* bounded counters

vars == <<register, sources, edits, tenants, now, tx, last, dirty, quiet, signups, resolved>>

-----------------------------------------------------------------------------
(* The tables' constraints (0004), which PostgreSQL checks after each op.  *)

Unique(rows, Key(_)) == \A a, b \in rows : Key(a) = Key(b) => a = b

MunicipalityConstraints(municipalities, numbers, slug_history) ==
  LET ids == DOMAIN municipalities
      current == {[municipality_id |-> m, number |-> municipalities[m].number,
                   valid_from |-> municipalities[m].number_from, valid_until |-> None] : m \in ids}
  IN  /\ Unique(ids, LAMBDA m : municipalities[m].slug)
      /\ Unique(ids, LAMBDA m : municipalities[m].number)
      /\ Unique(slug_history, LAMBDA h : <<h.slug, h.valid_from>>)
      /\ Unique(numbers \cup current, LAMBDA n : <<n.number, n.valid_from>>)
      /\ \A n \in numbers : n.municipality_id \in ids /\ n.valid_from < n.valid_until
      /\ \A h \in slug_history : h.municipality_id \in ids /\ h.valid_from < h.valid_until

SchoolConstraints(schools, slug_history, municipality_ids) ==
  LET ids == DOMAIN schools
  IN  /\ Unique({s \in ids : schools[s].orgnr # None}, LAMBDA s : schools[s].orgnr)
      /\ Unique({s \in ids : schools[s].slug # NoSlug},
                LAMBDA s : <<schools[s].municipality_id, schools[s].slug>>)
      /\ Unique(slug_history, LAMBDA h : <<h.municipality_id, h.slug, h.valid_from>>)
      /\ \A h \in slug_history :
           /\ h.municipality_id \in municipality_ids /\ h.school_id \in ids
           /\ h.slug # NoSlug /\ h.valid_from < h.valid_until
      /\ \A s \in ids :
           /\ schools[s].municipality_id \in municipality_ids
           /\ schools[s].successor_id \in (ids \ {s}) \cup {None}
           /\ schools[s].status \in {"active", "closed"}
           /\ schools[s].verification \in {"listed", "pending", "verified", "rejected", "held"}
           /\ schools[s].slug # NoSlug => schools[s].verification \in {"listed", "verified"}
           /\ schools[s].origin = "submitted" \/ schools[s].orgnr # None

Constraints(reg) ==
  /\ MunicipalityConstraints(reg.municipalities, reg.numbers, reg.municipality_slug_history)
  /\ SchoolConstraints(reg.schools, reg.slug_history, DOMAIN reg.municipalities)

-----------------------------------------------------------------------------
(* Municipality ops (apply.rs).  ids holds the highest municipality and    *)
(* school id before the plan: new rows get the ids that follow.            *)

Highest(S) == Max({0} \cup S)

NewIds(reg) == [municipalities |-> Highest(DOMAIN reg.municipalities),
                schools |-> Highest(DOMAIN reg.schools)]

IdOf(highest, ref) == IF ref >= 0 THEN ref ELSE highest - ref

\* The end of the last history row, or else the start given.
HeldSince(rows, start) == Max({start} \cup {h.valid_until : h \in rows})

\* An old slug goes to history unless nobody saw it live.
MunicipalitySlugHistory(reg, id, slug, at) ==
  LET from == HeldSince({h \in reg.municipality_slug_history : h.municipality_id = id},
                        reg.municipalities[id].created_at)
  IN  IF from < at
      THEN reg.municipality_slug_history \cup
             {[slug |-> slug, municipality_id |-> id, valid_from |-> from, valid_until |-> at]}
      ELSE reg.municipality_slug_history

ApplyCreateMunicipality(reg, op, ids, at) ==
  [reg EXCEPT !.municipalities = Added(@, IdOf(ids.municipalities, op.new),
     [number |-> op.number, number_from |-> at, name |-> op.name, slug |-> op.slug,
      details |-> op.details, status |-> "active", source |-> op.source, created_at |-> at])]

\* The current number closes and the new one opens on the same day: the change's, or the day
\* after the current one opened.
Renumber(reg, op) ==
  LET row == reg.municipalities[op.id]
      change == Max({op.valid_from, row.number_from + 1})
  IN  [reg EXCEPT
        !.numbers = @ \cup {[municipality_id |-> op.id, number |-> op.from,
                             valid_from |-> row.number_from, valid_until |-> change]},
        !.municipalities[op.id] = [@ EXCEPT !.number = op.to, !.number_from = change]]

ApplyRenumber(reg, op, at) ==
  [Renumber(reg, op) EXCEPT
    !.municipality_slug_history = MunicipalitySlugHistory(reg, op.id, op.old_slug, at),
    !.municipalities[op.id] = [@ EXCEPT !.slug = op.new_slug, !.name = op.name]]

ApplyRenameMunicipality(reg, op, at) ==
  [reg EXCEPT
    !.municipality_slug_history = IF op.old_slug = op.new_slug THEN @
                                  ELSE MunicipalitySlugHistory(reg, op.id, op.old_slug, at),
    !.municipalities[op.id] = [@ EXCEPT !.name = op.name, !.slug = op.new_slug]]

ApplyMunicipalityOp(reg, op, ids, at) ==
  CASE op.op = "create" -> ApplyCreateMunicipality(reg, op, ids, at)
    [] op.op = "renumber" -> ApplyRenumber(reg, op, at)
    [] op.op = "rename" -> ApplyRenameMunicipality(reg, op, at)
    [] op.op = "update_details" -> [reg EXCEPT !.municipalities[op.id].details = op.details]

-----------------------------------------------------------------------------
(* School ops (school_ops.rs).                                             *)

\* Valid from the end of the school's last history row, or else from when it
\* was verified or created; skipped when that interval is empty.
SchoolSlugHistory(reg, id, municipality, slug, at) ==
  LET school == reg.schools[id]
      rows == {h \in reg.slug_history : h.school_id = id}
      from == IF rows # {} THEN Max({h.valid_until : h \in rows})
              ELSE IF school.verified_at # None THEN school.verified_at
              ELSE school.created_at
  IN  IF slug # NoSlug /\ from < at
      THEN reg.slug_history \cup
             {[municipality_id |-> municipality, slug |-> slug, school_id |-> id,
               valid_from |-> from, valid_until |-> at]}
      ELSE reg.slug_history

ApplyCreateSchool(reg, op, ids, at) ==
  [reg EXCEPT !.schools = Added(@, IdOf(ids.schools, op.new),
     [municipality_id |-> IdOf(ids.municipalities, op.municipality), origin |-> "register",
      orgnr |-> op.orgnr, register_name |-> op.name, display_name |-> op.name,
      curated |-> FALSE, slug |-> op.slug, verification |-> op.verification,
      verified_at |-> None, status |-> "active", in_scope |-> TRUE,
      scope_override |-> "unset", post_town |-> op.post_town, successor_id |-> None,
      closure_reason |-> "none", created_at |-> at])]

ApplyRenameSchool(reg, op, at) ==
  [reg EXCEPT
    !.slug_history = SchoolSlugHistory(reg, op.id, reg.schools[op.id].municipality_id, op.old, at),
    !.schools[op.id] = [@ EXCEPT !.register_name = op.register_name,
                                 !.display_name = op.display_name, !.slug = op.new]]

\* Mutant: the old slug's history row goes under the new municipality.
ApplyMoveUnderTarget(reg, op, ids, at) ==
  LET target == IdOf(ids.municipalities, op.to)
  IN  [reg EXCEPT
        !.slug_history = SchoolSlugHistory(reg, op.id, target, op.old, at),
        !.schools[op.id] = [@ EXCEPT !.municipality_id = target, !.slug = op.new]]

\* The old slug's history row stays under the old municipality.
ApplyMove(reg, op, ids, at) ==
  [reg EXCEPT
    !.slug_history = SchoolSlugHistory(reg, op.id, op.from, op.old, at),
    !.schools[op.id] = [@ EXCEPT !.municipality_id = IdOf(ids.municipalities, op.to), !.slug = op.new]]

\* The slug goes to history and is cleared, so that a successor can take it.
ApplyClose(reg, op, at) ==
  LET school == reg.schools[op.id]
      closed == [school EXCEPT !.status = "closed", !.closure_reason = op.reason, !.slug = NoSlug,
                               !.in_scope = @ /\ op.reason # "out_of_scope"]
  IN  [reg EXCEPT
        !.slug_history = SchoolSlugHistory(reg, op.id, school.municipality_id, school.slug, at),
        !.schools[op.id] = closed]

UpdateAttributes(reg, op) == [reg EXCEPT !.schools[op.id].post_town = op.post_town]

ApplySchoolOp(reg, op, ids, at) ==
  CASE op.op = "create" -> ApplyCreateSchool(reg, op, ids, at)
    [] op.op = "rename" -> ApplyRenameSchool(reg, op, at)
    [] op.op = "update_attributes" -> UpdateAttributes(reg, op)
    [] op.op = "move" -> ApplyMove(reg, op, ids, at)
    [] op.op = "close" -> ApplyClose(reg, op, at)

\* A close can name a school that a later create makes, so the links come last.
LinkSuccessors(reg, ops, ids) ==
  LET links == {op \in ToSet(ops) : op.op = "close" /\ op.successor # None}
      successor(s) == (CHOOSE op \in links : op.id = s).successor
  IN  [reg EXCEPT !.schools =
         [s \in DOMAIN @ |->
            IF \E op \in links : op.id = s
            THEN [@[s] EXCEPT !.successor_id = IdOf(ids.schools, successor(s))] ELSE @[s]]]

-----------------------------------------------------------------------------
(* Review items (reviews.rs): written unless an open item has the key.     *)

ReviewKey(r) == <<r.kind, r.school, r.other, r.municipality, r.reason, r.code>>

\* Mutant: the key is compared with =, which no null satisfies.
CoveredUnlessNull(reg, r) == \E i \in DOMAIN reg.reviews :
                               /\ reg.reviews[i].open /\ r.school # None
                               /\ ReviewKey(reg.reviews[i]) = ReviewKey(r)

Covered(reg, r) == \E i \in DOMAIN reg.reviews :
                     reg.reviews[i].open /\ ReviewKey(reg.reviews[i]) = ReviewKey(r)

WithIds(r, ids) == [r EXCEPT !.school = IdOf(ids.schools, @), !.other = IdOf(ids.schools, @),
                             !.municipality = IdOf(ids.municipalities, @)]

WriteReview(reg, r) ==
  IF Covered(reg, r) THEN reg
  ELSE [reg EXCEPT !.reviews =
         Append(@, [open |-> TRUE, kind |-> r.kind, school |-> r.school, other |-> r.other,
                    municipality |-> r.municipality, reason |-> r.reason, code |-> r.code])]

-----------------------------------------------------------------------------
(* A plan as one transaction (apply_plan).  ok turns FALSE at the first op *)
(* the constraints refuse: the transaction then fails.                     *)

Checked(acc, new) == [reg |-> new, ok |-> acc.ok /\ Constraints(new)]

ApplyMunicipalityOps(acc, ops, ids, at) ==
  FoldLeft(LAMBDA a, op : Checked(a, ApplyMunicipalityOp(a.reg, op, ids, at)), acc, ops)

ApplySchoolOps(acc, ops, ids, at) ==
  FoldLeft(LAMBDA a, op : Checked(a, ApplySchoolOp(a.reg, op, ids, at)), acc, ops)

WriteReviews(reg, items, ids) ==
  FoldLeft(LAMBDA r, item : WriteReview(r, WithIds(item, ids)), reg, items)

ApplyPlan(reg, plan, at) ==
  LET ids == NewIds(reg)
      municipal == ApplyMunicipalityOps([reg |-> reg, ok |-> TRUE], plan.municipality_ops, ids, at)
      schooled == ApplySchoolOps(municipal, plan.school_ops, ids, at)
      linked == Checked(schooled, LinkSuccessors(schooled.reg, plan.school_ops, ids))
      written == WriteReviews(linked.reg, plan.reviews, ids)
  IN  [ok |-> linked.ok, reg |-> written,
       wrote |-> \/ plan.municipality_ops # <<>> \/ plan.school_ops # <<>>
                 \/ Len(written.reviews) > Len(reg.reviews)]

-----------------------------------------------------------------------------
(* A run of `fau register sync` (sync.rs).                                 *)

Snapshot == [municipalities |-> register.municipalities, schools |-> register.schools,
             slug_history |-> register.slug_history,
             former_orgnrs |-> register.former_orgnrs, live_fau |-> tenants]

RegisterIsEmpty == DOMAIN register.municipalities = {} /\ DOMAIN register.schools = {}

\* --seed refuses a register with rows and a sync one without, so the kind of
\* a run that starts follows from the register.
Kind == IF RegisterIsEmpty THEN "seed" ELSE "sync"

\* Mutant: only what NSR lists as open is fetched.
WantedListed ==
  {o \in DOMAIN sources.units : sources.units[o].is_active /\ sources.units[o].is_primary_school}

\* The units whose detail a run fetches: every active grunnskole of the list,
\* and every listed orgnr of a school that is open.
Wanted ==
  {o \in DOMAIN sources.units :
     \/ sources.units[o].is_active /\ sources.units[o].is_primary_school
     \/ \E s \in DOMAIN register.schools : /\ register.schools[s].orgnr = o
                                            /\ register.schools[s].status # "closed"}

\* A seed reads no code changes.
Fetched ==
  [municipalities |-> sources.municipalities,
   code_changes |-> IF Kind = "seed" THEN <<>> ELSE sources.code_changes,
   units |-> [o \in Wanted |-> sources.units[o]], kind |-> Kind]

-----------------------------------------------------------------------------
(* What a behaviour starts from: any register the schema and earlier runs  *)
(* allow, and any answers of the sources.                                  *)

Ids == Nat \ {None}
OptionalName == Names \cup {NoName}

MunicipalityColumns ==
  {"number", "number_from", "name", "slug", "details", "status", "source", "created_at"}
SchoolColumns ==
  {"municipality_id", "origin", "orgnr", "register_name", "display_name", "curated", "slug",
   "verification", "verified_at", "status", "in_scope", "scope_override", "post_town",
   "successor_id", "closure_reason", "created_at"}
ReviewKinds ==
  {"closure_with_fau", "possible_reregistration", "possible_submission_match",
   "municipality_split_or_merge", "mass_change", "unknown_municipality_number",
   "fau_several_at_school", "fau_several_schools", "fau_match_conflict",
   "submission_matches_listed_school"}
ReviewReasons ==
  {"", "split", "merge", "unresolved_chain", "target_in_use", "unsluggable", "unknown_number",
   "absent_from_kartverket"}
ReviewItems == [kind : ReviewKinds, school : Int, other : Int, municipality : Int,
                reason : ReviewReasons, code : Int]
ReviewRows == [open : BOOLEAN, kind : ReviewKinds, school : Int, other : Int,
               municipality : Int, reason : ReviewReasons, code : Int]

IsRegister(reg) ==
  /\ DOMAIN reg = {"municipalities", "numbers", "municipality_slug_history", "schools",
                   "slug_history", "former_orgnrs", "reviews"}
  /\ DOMAIN reg.municipalities \subseteq Ids /\ IsFiniteSet(DOMAIN reg.municipalities)
  /\ \A m \in DOMAIN reg.municipalities :
       /\ DOMAIN reg.municipalities[m] = MunicipalityColumns
       /\ reg.municipalities[m].number \in Nat
  /\ DOMAIN reg.schools \subseteq Ids /\ IsFiniteSet(DOMAIN reg.schools)
  /\ \A s \in DOMAIN reg.schools :
       /\ DOMAIN reg.schools[s] = SchoolColumns
       /\ reg.schools[s].orgnr \in Nat
       /\ reg.schools[s].display_name \in Names
       /\ reg.schools[s].register_name \in OptionalName
  /\ reg.reviews \in Seq(ReviewRows)

Addresses == [street : BOOLEAN, post_town : OptionalName]
NsrUnits ==
  [name : Names, municipality_number : Nat, is_school : BOOLEAN, is_active : BOOLEAN,
   is_primary_school : BOOLEAN, adult_category : BOOLEAN, primary_nace : STRING,
   closure : STRING, visiting : Addresses, postal : Addresses]
KartverketRecords == [name : Names, details : STRING]
SsbChanges == [old_code : Nat, old_name : Names, new_code : Nat, new_name : Names,
               occurred_on : Nat]

IsSources(src) ==
  /\ DOMAIN src = {"municipalities", "code_changes", "units"}
  /\ DOMAIN src.municipalities \subseteq Nat /\ IsFiniteSet(DOMAIN src.municipalities)
  /\ src.municipalities \in [DOMAIN src.municipalities -> KartverketRecords]
  /\ src.code_changes \in Seq(SsbChanges)
  /\ DOMAIN src.units \subseteq Ids /\ IsFiniteSet(DOMAIN src.units)
  /\ src.units \in [DOMAIN src.units -> NsrUnits]

SourceChanges ==
  [edit : {"list"}, number : Nat, record : KartverketRecords]
    \cup [edit : {"unlist"}, number : Nat]
    \cup [edit : {"change"}, change : SsbChanges]
    \cup [edit : {"unit"}, orgnr : Ids, unit : NsrUnits]

CurrentHolder(reg, m, slug) ==
  LET holders == {s \in DOMAIN reg.schools : /\ reg.schools[s].municipality_id = m
                                             /\ reg.schools[s].slug = slug}
  IN  IF holders = {} THEN None ELSE CHOOSE s \in holders : TRUE

AddressesHold(reg) ==
  \A h \in reg.slug_history :
    reg.schools[h.school_id].status = "active" =>
      Resolve(CurrentHolder(reg, h.municipality_id, h.slug),
              {g.school_id : g \in {g \in reg.slug_history :
                 g.municipality_id = h.municipality_id /\ g.slug = h.slug}})
        \in {h.school_id, None}

QuestionsAreOpenOnce(reg) ==
  \A i, j \in DOMAIN reg.reviews :
    /\ reg.reviews[i].open /\ reg.reviews[j].open
    /\ ReviewKey(reg.reviews[i]) = ReviewKey(reg.reviews[j])
    => i = j

ASSUME ScenariosAssumption ==
  \A s \in Scenarios :
    /\ IsRegister(s.register) /\ Constraints(s.register)
    /\ AddressesHold(s.register) /\ QuestionsAreOpenOnce(s.register)
    /\ IsSources(s.sources) /\ s.edits \subseteq Seq(SourceChanges)

-----------------------------------------------------------------------------
(* The steps of a run.                                                     *)

Idle == [open |-> FALSE, plan |-> [outcome |-> "none"], accept |-> FALSE]

Init ==
  \E s \in Scenarios :
    /\ register = s.register /\ sources = s.sources /\ edits = s.edits
    /\ tenants = {} /\ now = 1 /\ tx = Idle /\ last = "none" /\ dirty = TRUE /\ quiet = 0
    /\ signups = 0 /\ resolved = 0

BeginRun(accept) ==
  /\ ~tx.open /\ now < MaxRuns
  /\ tx' = [open |-> TRUE, plan |-> Plan(Snapshot, Fetched, accept), accept |-> accept]
  /\ now' = now + 1
  /\ dirty' = FALSE
  /\ UNCHANGED <<register, sources, edits, tenants, last, quiet, signups, resolved>>

\* The breaker or an empty source: the run row and a mail, nothing else.
StopRun ==
  /\ tx.open /\ tx.plan.outcome \in {"empty_source", "mass_change"}
  /\ last' = "aborted" /\ tx' = Idle
  /\ UNCHANGED <<register, sources, edits, tenants, now, dirty, quiet, signups, resolved>>

QuietAfterRun == IF dirty THEN 0 ELSE Min({quiet + 1, 2})

\* Nothing to do, or nothing left to do once the open reviews are set aside.
FinishUnchanged ==
  /\ tx.open
  /\ \/ tx.plan.outcome = "no_change"
     \/ tx.plan.outcome = "apply" /\ ~ApplyPlan(register, tx.plan, now).wrote
  /\ last' = "no_change" /\ tx' = Idle /\ quiet' = QuietAfterRun
  /\ UNCHANGED <<register, sources, edits, tenants, now, dirty, signups, resolved>>

\* The commit; an op the constraints refuse rolls everything back.
Commit(result) ==
  /\ result.wrote
  /\ register' = IF result.ok THEN result.reg ELSE register
  /\ last' = IF result.ok THEN "applied" ELSE "failed"
  /\ quiet' = IF result.ok THEN QuietAfterRun ELSE quiet

CommitRun ==
  /\ tx.open /\ tx.plan.outcome = "apply"
  /\ Commit(ApplyPlan(register, tx.plan, now))
  /\ tx' = Idle
  /\ UNCHANGED <<sources, edits, tenants, now, dirty, signups, resolved>>

-----------------------------------------------------------------------------
(* The world around the runs.                                              *)

\* What a source publishes at once is a sequence of changes: Kartverket lists
\* a record or drops a number, SSB adds a code change, NSR changes a unit.
Edited(src, e) ==
  CASE e.edit = "list" -> [src EXCEPT !.municipalities = With(@, e.number, e.record)]
    [] e.edit = "unlist" ->
         [src EXCEPT !.municipalities = [n \in DOMAIN @ \ {e.number} |-> @[n]]]
    [] e.edit = "change" -> [src EXCEPT !.code_changes = Append(@, e.change)]
    [] e.edit = "unit" -> [src EXCEPT !.units = With(@, e.orgnr, e.unit)]

Published(src, e) == FoldLeft(Edited, src, e)

PublishEdit ==
  /\ \E e \in edits : sources' = Published(sources, e) /\ edits' = edits \ {e}
  /\ dirty' = TRUE /\ quiet' = 0
  /\ UNCHANGED <<register, tenants, now, tx, last, signups, resolved>>

\* A parent signs up at a school with a page; the tenant is pending at once.
Signup ==
  /\ signups < MaxSignups
  /\ \E s \in DOMAIN register.schools \ tenants :
       /\ register.schools[s].status = "active"
       /\ register.schools[s].verification \in {"listed", "verified"}
       /\ tenants' = tenants \cup {s}
  /\ signups' = signups + 1 /\ dirty' = TRUE /\ quiet' = 0
  /\ UNCHANGED <<register, sources, edits, now, tx, last, resolved>>

\* A sign-up expires or an FAU is deleted.
FauEnds ==
  /\ \E s \in tenants : tenants' = tenants \ {s}
  /\ dirty' = TRUE /\ quiet' = 0
  /\ UNCHANGED <<register, sources, edits, now, tx, last, signups, resolved>>

\* An operator closes an item between runs; the register stays as it is.
ResolveReview ==
  /\ ~tx.open /\ resolved < MaxResolved
  /\ \E i \in DOMAIN register.reviews :
       /\ register.reviews[i].open
       /\ register' = [register EXCEPT !.reviews[i].open = FALSE]
  /\ resolved' = resolved + 1 /\ dirty' = TRUE /\ quiet' = 0
  /\ UNCHANGED <<sources, edits, tenants, now, tx, last, signups>>

Next ==
  \/ \E accept \in BOOLEAN : BeginRun(accept)
  \/ StopRun \/ FinishUnchanged \/ CommitRun
  \/ PublishEdit \/ Signup \/ FauEnds \/ ResolveReview

Spec == Init /\ [][Next]_vars

-----------------------------------------------------------------------------
(* Properties.                                                             *)

TypeOK ==
  /\ IsRegister(register) /\ Constraints(register)
  /\ IsSources(sources) /\ edits \subseteq Seq(SourceChanges)
  /\ tenants \subseteq DOMAIN register.schools
  /\ last \in {"none", "applied", "no_change", "aborted", "failed"}
  /\ now \in 1..MaxRuns /\ dirty \in BOOLEAN /\ quiet \in 0..2
  /\ tx.open \in BOOLEAN /\ tx.accept \in BOOLEAN
  /\ signups \in 0..MaxSignups /\ resolved \in 0..MaxResolved

\* A plan made from the snapshot of its own transaction never trips over the
\* tables' constraints: slugs are released before they are given away, numbers
\* before they are reused, and history rows never claim the same start.
AppliesCleanly == last # "failed"

\* Nothing has changed since a run that ended well.
Settled == ~dirty /\ quiet > 0

WouldChangeNothing(plan) ==
  \/ plan.outcome = "no_change"
  \/ /\ plan.outcome = "apply"
     /\ plan.municipality_ops = <<>> /\ plan.school_ops = <<>>
     /\ quiet > 1 => ~ApplyPlan(register, plan, now + 1).wrote

\* Runs on the same sources converge: the second changes no row and the third
\* writes nothing at all.  (The second may still ask about an FAU's school
\* whose re-registration the first has put on hold.)
RunsConverge == Settled => WouldChangeNothing(Plan(Snapshot, Fetched, TRUE))

\* Once a run has ended well, a school whose unit closed or left scope is
\* closed, or it has an FAU and a human has been asked about it.  Only a
\* municipality that SSB's changes leave unexplained is passed over.
VanishedSchoolIsHandled ==
  Settled =>
    \A s \in DOMAIN register.schools :
      LET school == register.schools[s]
          unit == sources.units[school.orgnr]
      IN  \/ school.orgnr \notin DOMAIN sources.units
          \/ school.status = "closed" \/ school.verification \notin {"listed", "verified"}
          \/ unit.is_active /\ EffectiveInScope(Classify(unit) = "in_scope", school.scope_override)
          \/ school.municipality_id \in BlockedIds(PlanMunicipalities(Snapshot, Fetched))
          \/ /\ s \in tenants
             /\ \E i \in DOMAIN register.reviews :
                  /\ register.reviews[i].open /\ register.reviews[i].school = s
                  /\ register.reviews[i].kind
                       \in {"closure_with_fau", "possible_reregistration"}

\* An address a school once had never leads to another school while the first
\* is open: it redirects home, or to nobody when several schools had it.
OldAddressNeverMisleads == AddressesHold(register)

\* However many runs find the same question, it is open once.
OneOpenItemPerQuestion == QuestionsAreOpenOnce(register)

\* The codes SSB splits into several, as far as Kartverket has dropped them.
\* A row that changes nothing says nothing.
SplitCodes(src) ==
  LET told == {c \in ToSet(src.code_changes) :
                 /\ ~(c.old_code = c.new_code /\ c.old_name = c.new_name)
                 /\ c.old_code \notin DOMAIN src.municipalities}
  IN  {c.old_code : c \in {c \in told : \E d \in told : /\ d.old_code = c.old_code
                                                       /\ d.new_code # c.new_code}}

\* A municipality that has been split keeps its number, its address and its
\* schools until an operator decides, whatever else the runs change.
SplitMunicipalityIsLeftAlone ==
  [][\A m \in DOMAIN register.municipalities :
       /\ register.municipalities[m].status = "active"
       /\ register.municipalities[m].number \in SplitCodes(sources) /\ ~dirty
       =>
         /\ register'.municipalities[m] = register.municipalities[m]
         /\ \A s \in DOMAIN register.schools :
              register.schools[s].municipality_id = m =>
                register'.schools[s] = register.schools[s]]_vars

\* A school with an FAU is reviewed, never closed (D8).
FauSchoolStaysOpen == \A s \in tenants : register.schools[s].status = "active"

\* A run closes no school that has an FAU, as long as no FAU came after its
\* snapshot: the reason FauSchoolStaysOpen can fail at all.
FauSchoolIsNotClosed ==
  [][\A s \in tenants :
       register.schools[s].status = "active" /\ ~dirty =>
         register'.schools[s].status = "active"]_vars

\* Links are for ever: no row and no history row goes away, a closed school
\* stays closed, and a review item keeps its question and is never reopened.
NothingIsForgotten ==
  [][/\ DOMAIN register.municipalities \subseteq DOMAIN register'.municipalities
     /\ register.numbers \subseteq register'.numbers
     /\ register.municipality_slug_history \subseteq register'.municipality_slug_history
     /\ register.slug_history \subseteq register'.slug_history
     /\ \A s \in DOMAIN register.schools :
          /\ s \in DOMAIN register'.schools
          /\ register.schools[s].status = "closed" => register'.schools[s].status = "closed"
     /\ \A i \in DOMAIN register.reviews :
          /\ i \in DOMAIN register'.reviews
          /\ ReviewKey(register'.reviews[i]) = ReviewKey(register.reviews[i])
          /\ register'.reviews[i].open => register.reviews[i].open]_vars

=============================================================================
