---------------------------- MODULE RegisterPlan ----------------------------
(***************************************************************************)
(* The planner of the school register (crates/domain/src/register/sync):  *)
(* a pure function from a snapshot of the register and one fetch of the   *)
(* sources to a list of operations, a list of review items and the counts *)
(* the circuit breaker reads.  Nothing here changes state: RegisterSync   *)
(* applies a plan and lets the sources, the sign-ups and the runs         *)
(* interleave.                                                            *)
(*                                                                        *)
(* Data.  A name stands for its text: SlugOf gives its slug, a sequence   *)
(* of words (empty when nothing is sluggable), and Trigrams the set of    *)
(* trigrams pg_trgm compares.  A number, an orgnr and a row id are        *)
(* naturals, ordered as their texts are.  None stands for SQL null, and a *)
(* row this plan creates is the negative reference New(n).                *)
(***************************************************************************)
EXTENDS Integers, Sequences, FiniteSets, SequencesExt, FiniteSetsExt, TLC

CONSTANTS
  Names,        \* the names of municipalities, schools and post towns
  SlugOf,       \* SlugOf[n]: the words of n's slug
  Trigrams,     \* Trigrams[n]: the trigrams of n's search form
  Svalbard,     \* number 2100, listed by neither Kartverket nor SSB
  SvalbardName, \* the name the manual entry is created with
  Abroad,       \* number 2599, the schools abroad
  MaxSuffix,    \* bound: the last number tried behind a taken slug; the code
                \* counts on without end
  Bystanders    \* active schools no source change touches: they only count
                \* as active for the circuit breaker

ASSUME NamesAssumption ==
  /\ SlugOf \in [Names -> Seq(STRING)]
  /\ \A n \in Names : IsFiniteSet(Trigrams[n])
  /\ SvalbardName \in Names /\ SlugOf[SvalbardName] # <<>>
ASSUME NumbersAssumption ==
  Svalbard \in Nat /\ Abroad \in Nat /\ Bystanders \in Nat /\ MaxSuffix \in Nat

\* SQL null for ids, numbers and names, and the slug of a school without one.
None == 0
NoName == "no name"
NoSlug == <<>>

\* f with a value for k besides: one k already has stays (Added), or goes (With).
Added(f, k, x) == [i \in DOMAIN f \cup {k} |-> IF i \in DOMAIN f THEN f[i] ELSE x]
With(f, k, x) == [i \in DOMAIN f \cup {k} |-> IF i = k THEN x ELSE f[i]]

\* A row this plan creates, numbered from 0 in creation order.
New(n) == -(n + 1)

\* The elements of S in a strict total order, given as the set of its pairs:
\* each stands where the number of elements before it says.
InOrder(S, before) ==
  LET place == [x \in S |-> Cardinality({y \in S : <<y, x>> \in before})]
  IN  [i \in 1..Cardinality(S) |-> CHOOSE x \in S : place[x] = i - 1]

Ascending(S) == InOrder(S, {p \in S \X S : p[1] < p[2]})

\* Item of every element of S, in ascending order.
Each(S, Item(_)) ==
  LET order == Ascending(S) IN [i \in 1..Cardinality(S) |-> Item(order[i])]

-----------------------------------------------------------------------------
(* Scope: which units can have an FAU (scope.rs).                          *)

\* The fixed order gives each unit one reason.
Classify(u) ==
  IF ~u.is_school THEN "not_a_school"
  ELSE IF ~u.is_active THEN "inactive"
  ELSE IF ~u.is_primary_school THEN "not_grunnskole"
  ELSE IF u.municipality_number = Abroad THEN "abroad"
  ELSE IF u.adult_category \/ u.primary_nace = "85.593" THEN "adult_education"
  ELSE IF u.primary_nace = "85.3" THEN "upper_secondary"
  ELSE "in_scope"

\* An operator's decision, when there is one, wins over the filter.
EffectiveInScope(classified, override) ==
  IF override = "unset" THEN classified ELSE override = "in"

-----------------------------------------------------------------------------
(* Similarity of two names, as the fraction <<common, union>> of trigrams. *)

Similarity(a, b) ==
  <<Cardinality(Trigrams[a] \cap Trigrams[b]),
    Cardinality(Trigrams[a] \cup Trigrams[b])>>

\* x >= percent / 100, and x > y, without division; 0/0 counts as 0.
AtLeast(x, percent) == x[2] > 0 /\ x[1] * 100 >= percent * x[2]
MoreSimilar(x, y) == x[1] * (IF y[2] = 0 THEN 1 ELSE y[2]) > y[1] * (IF x[2] = 0 THEN 1 ELSE x[2])

ReregistrationPercent == 60
SubmissionMatchPercent == 45

\* The better of the display name and the register name.
NameSimilarity(school, name) ==
  LET display == Similarity(school.display_name, name)
      register == Similarity(school.register_name, name)
  IN  IF school.register_name # NoName /\ MoreSimilar(register, display)
      THEN register ELSE display

-----------------------------------------------------------------------------
(* Slugs.                                                                  *)

MunicipalitySlug(number, name) == <<number, SlugOf[name]>>

\* The base, then with the post town, then numbered from 2.
SlugCandidates(base, town) ==
  LET stem == base \o (IF town = NoName THEN NoSlug ELSE SlugOf[town])
  IN  [i \in 1..(MaxSuffix + 1) |->
         CASE i = 1 -> base [] i = 2 -> stem [] OTHER -> Append(stem, ToString(i - 1))]

\* NoSlug when the bound leaves nothing free.
FirstFreeSlug(base, town, taken) ==
  LET tried == SlugCandidates(base, town)
      free == {i \in DOMAIN tried : tried[i] \notin taken}
  IN  IF free = {} THEN NoSlug ELSE tried[Min(free)]

\* What a path segment resolves to: the current holder, else a single former
\* holder, else nothing (None), never a guess.
Resolve(current, former) ==
  IF current # None THEN current
  ELSE IF Cardinality(former) = 1 THEN CHOOSE s \in former : TRUE
  ELSE None

-----------------------------------------------------------------------------
(* Step 1: municipalities (municipalities.rs).  A plan under construction  *)
(* is a record: by_number maps the numbers in use to their holders,        *)
(* working the active municipalities to their number, name and slug as     *)
(* this plan leaves them, blocked holds the numbers nothing may touch.     *)

Review(kind, school, other, municipality, reason, code) ==
  [kind |-> kind, school |-> school, other |-> other,
   municipality |-> municipality, reason |-> reason, code |-> code]

SplitOrMerge(municipality, reason, code) ==
  Review("municipality_split_or_merge", None, None, municipality, reason, code)

\* The SSB changes a group is made of, by their places in the feed: not a row
\* that changes nothing, and not one whose old code Kartverket still lists.
CodeChanges(inputs) ==
  {i \in DOMAIN inputs.code_changes :
     LET c == inputs.code_changes[i]
     IN  /\ ~(c.old_code = c.new_code /\ c.old_name = c.new_name)
         /\ c.old_code \notin DOMAIN inputs.municipalities}

GoneCodes(inputs) == {inputs.code_changes[i].old_code : i \in CodeChanges(inputs)}

Group(inputs, old) == {i \in CodeChanges(inputs) : inputs.code_changes[i].old_code = old}

Targets(inputs, old) == {inputs.code_changes[i].new_code : i \in Group(inputs, old)}

\* The groups whose changes lead into the code t.
GoneGroupsInto(inputs, t) == {old \in GoneCodes(inputs) : t \in Targets(inputs, old)}

\* A group's place is its earliest change, ties by old code: a chain of
\* renumbers is applied in the order it happened.
OrderedGroups(inputs) ==
  LET first == [old \in GoneCodes(inputs) |->
                  Min({inputs.code_changes[i].occurred_on : i \in Group(inputs, old)})]
  IN  InOrder(GoneCodes(inputs),
              {p \in GoneCodes(inputs) \X GoneCodes(inputs) :
                 \/ first[p[1]] < first[p[2]]
                 \/ first[p[1]] = first[p[2]] /\ p[1] < p[2]})

Holder(st, number) ==
  IF number \in DOMAIN st.by_number THEN st.by_number[number] ELSE None

\* What becomes of one group: nothing, a renumber, or a review with a reason.
GroupDecision(snap, inputs, st, old) ==
  LET targets == Targets(inputs, old)
      holder == Holder(st, old)
      oneToOne == /\ Cardinality(targets) = 1
                  /\ \A t \in targets : Cardinality(GoneGroupsInto(inputs, t)) = 1
      to == CHOOSE t \in targets : TRUE
      name == IF to \in DOMAIN inputs.municipalities
              THEN inputs.municipalities[to].name ELSE st.working[holder].name
  IN  IF holder = None /\ targets \subseteq DOMAIN st.by_number
        THEN [reason |-> "skip"]
      ELSE IF holder = None /\ GoneGroupsInto(inputs, old) # {}
        THEN [reason |-> "unresolved_chain"]
      ELSE IF ~oneToOne
        THEN [reason |-> IF Cardinality(targets) > 1 THEN "split" ELSE "merge"]
      ELSE IF holder = None \/ snap.municipalities[holder].source = "manual"
        THEN [reason |-> "skip"]
      ELSE IF to \in st.blocked \/ old \in st.blocked
        THEN [reason |-> "unresolved_chain"]
      ELSE IF to \in DOMAIN st.by_number THEN [reason |-> "target_in_use"]
      ELSE IF SlugOf[name] = NoSlug THEN [reason |-> "unsluggable"]
      ELSE [reason |-> "renumber", to |-> to, name |-> name]

PlanRenumber(st, inputs, old, to, name) ==
  LET id == st.by_number[old]
      slug == MunicipalitySlug(to, name)
      op == [op |-> "renumber", id |-> id, from |-> old, to |-> to, name |-> name,
             valid_from |-> inputs.code_changes[Min(Group(inputs, old))].occurred_on,
             old_slug |-> st.working[id].slug, new_slug |-> slug]
  IN  [st EXCEPT
        !.ops = Append(@, op),
        !.by_number = [n \in (DOMAIN @ \ {old}) \cup {to} |-> IF n = to THEN id ELSE @[n]],
        !.working[id] = [number |-> to, name |-> name, slug |-> slug]]

PlanGroup(snap, inputs, st, old) ==
  LET decision == GroupDecision(snap, inputs, st, old)
  IN  CASE decision.reason = "skip" -> st
        [] decision.reason = "renumber" ->
             PlanRenumber(st, inputs, old, decision.to, decision.name)
        [] OTHER ->
             [st EXCEPT
               !.blocked = @ \cup {old} \cup Targets(inputs, old),
               !.reviews = Append(@, SplitOrMerge(Holder(st, old), decision.reason, old))]

PlanCreateMunicipality(st, number, name, details, source) ==
  [st EXCEPT
    !.ops = Append(@, [op |-> "create", new |-> New(st.next_new), number |-> number,
                       name |-> name, details |-> details, source |-> source,
                       slug |-> MunicipalitySlug(number, name)]),
    !.by_number = Added(@, number, New(st.next_new)),
    !.next_new = @ + 1]

\* One Kartverket record against the municipality that holds its number.
PlanKnownRecord(snap, st, number, r, id) ==
  LET w == st.working[id]
      renamed == r.name # w.name
      rename == [op |-> "rename", id |-> id, name |-> r.name, old_slug |-> w.slug,
                 new_slug |-> MunicipalitySlug(number, r.name)]
      update == [op |-> "update_details", id |-> id, details |-> r.details]
  IN  [st EXCEPT
        !.ops = @ \o (IF renamed /\ SlugOf[r.name] # NoSlug THEN <<rename>> ELSE <<>>)
                  \o (IF snap.municipalities[id].details # r.details
                       THEN <<update>> ELSE <<>>),
        !.reviews = @ \o (IF renamed /\ SlugOf[r.name] = NoSlug
                           THEN <<SplitOrMerge(id, "unsluggable", number)>> ELSE <<>>)]

\* A number nobody holds is created by a seed, and asked about by a sync.
PlanRecord(snap, inputs, st, number) ==
  LET r == inputs.municipalities[number]
      id == Holder(st, number)
      Ask(reason) == [st EXCEPT !.reviews = Append(@, SplitOrMerge(None, reason, number))]
  IN  IF number \in st.blocked THEN st
      ELSE IF id # None
        THEN IF snap.municipalities[id].source = "manual" THEN st
             ELSE PlanKnownRecord(snap, st, number, r, id)
      ELSE IF inputs.kind = "sync" THEN Ask("unknown_number")
      ELSE IF SlugOf[r.name] = NoSlug THEN Ask("unsluggable")
      ELSE PlanCreateMunicipality(st, number, r.name, r.details, "kartverket")

AbsentFromKartverket(snap, inputs, st) ==
  {id \in DOMAIN st.working :
     /\ snap.municipalities[id].source = "kartverket"
     /\ st.working[id].number \notin DOMAIN inputs.municipalities
     /\ st.working[id].number \notin st.blocked}

SvalbardNeeded(inputs, st) ==
  /\ \E o \in DOMAIN inputs.units : /\ inputs.units[o].municipality_number = Svalbard
                                     /\ Classify(inputs.units[o]) = "in_scope"
  /\ Svalbard \notin DOMAIN st.by_number \cup st.blocked

NoDetails == "none"

WithSvalbard(inputs, st) ==
  IF SvalbardNeeded(inputs, st)
  THEN PlanCreateMunicipality(st, Svalbard, SvalbardName, NoDetails, "manual")
  ELSE st

\* The register as it stands: the active municipalities, nothing planned.
Untouched(snap) ==
  LET row(id) == snap.municipalities[id]
      active == {id \in DOMAIN snap.municipalities : row(id).status = "active"}
  IN  [by_number |-> [n \in {row(id).number : id \in active} |->
                        CHOOSE id \in active : row(id).number = n],
       working |-> [id \in active |-> [number |-> row(id).number,
                                       name |-> row(id).name, slug |-> row(id).slug]],
       blocked |-> {}, ops |-> <<>>, reviews |-> <<>>, next_new |-> 0]

AfterGroups(snap, inputs) ==
  FoldLeft(LAMBDA st, old : PlanGroup(snap, inputs, st, old),
           Untouched(snap), OrderedGroups(inputs))

SortedRecords(inputs) == Ascending(DOMAIN inputs.municipalities)

AfterRecords(snap, inputs) ==
  FoldLeft(LAMBDA st, n : PlanRecord(snap, inputs, st, n),
           AfterGroups(snap, inputs), SortedRecords(inputs))

WithAbsent(snap, inputs, st) ==
  [st EXCEPT !.reviews =
     @ \o Each(AbsentFromKartverket(snap, inputs, st),
               LAMBDA id : SplitOrMerge(id, "absent_from_kartverket", st.working[id].number))]

PlanMunicipalities(snap, inputs) ==
  WithSvalbard(inputs, WithAbsent(snap, inputs, AfterRecords(snap, inputs)))

-----------------------------------------------------------------------------
(* Step 5: schools (schools.rs).                                           *)

\* The school that carries an orgnr (schools.orgnr is unique), else None.
SchoolOf(snap, o) ==
  LET found == {s \in DOMAIN snap.schools : snap.schools[s].orgnr = o}
  IN  IF found = {} THEN None ELSE CHOOSE s \in found : TRUE

\* Mutant: the schools of an unexplained municipality are planned like others.
BlockedIdsNone(st) == {}

BlockedIds(st) == {id \in DOMAIN st.working : st.working[id].number \in st.blocked}

\* Where a unit's municipality number leads after step 1.
Resolved(st, number) ==
  IF number \in st.blocked THEN "blocked"
  ELSE IF number \in DOMAIN st.by_number THEN "to" ELSE "unknown"

\* What the planner makes of one unit.  A former orgnr only stops a
\* duplicate; closed, held, pending and rejected rows await a human.
Fate(snap, inputs, st, o) ==
  LET unit == inputs.units[o]
      classified == Classify(unit) = "in_scope"
      id == SchoolOf(snap, o)
      school == snap.schools[id]
      resolved == Resolved(st, unit.municipality_number)
  IN  IF id = None
      THEN IF ~classified \/ o \in snap.former_orgnrs THEN "ignored"
           ELSE IF resolved = "to" THEN "candidate" ELSE resolved
      ELSE IF school.status = "closed" \/ school.verification \notin {"listed", "verified"}
        THEN "ignored"
      ELSE IF school.municipality_id \in BlockedIds(st) THEN "blocked"
      ELSE IF ~unit.is_active \/ ~EffectiveInScope(classified, school.scope_override)
        THEN IF id \in snap.live_fau THEN "fau_closing" ELSE "closing"
      ELSE IF resolved = "to" THEN "update" ELSE resolved

Fated(snap, inputs, st, fate) ==
  {o \in DOMAIN inputs.units : Fate(snap, inputs, st, o) = fate}

ClosureReason(unit) ==
  CASE unit.is_active -> "out_of_scope"
    [] ~unit.is_active /\ unit.closure = "D" -> "duplicate"
    [] ~unit.is_active /\ unit.closure = "F" -> "merged"
    [] OTHER -> "closed"

Reregistrable(unit) == ~unit.is_active /\ unit.closure \in {"F", "S"}

\* The slug book: who holds which slug now, and whose history has stopped
\* counting because the school is closed or closing.
SlugBook(snap, closing) ==
  LET held == {s \in DOMAIN snap.schools :
                 snap.schools[s].slug # NoSlug /\ s \notin closing}
      key(s) == <<snap.schools[s].municipality_id, snap.schools[s].slug>>
  IN  [current |-> [k \in {key(s) : s \in held} |-> CHOOSE s \in held : key(s) = k],
       history |-> {<<h.municipality_id, h.slug, h.school_id>> : h \in snap.slug_history},
       closed |-> closing \cup {s \in DOMAIN snap.schools :
                                  snap.schools[s].status = "closed"}]

\* Mutant: the slugs held now are not looked at.
IsTakenInHistory(book, municipality, slug, me) ==
  \E h \in book.history : /\ h[1] = municipality /\ h[2] = slug
                          /\ h[3] # me /\ h[3] \notin book.closed

\* Mutant: the slugs of the past are free.
IsTakenNow(book, municipality, slug, me) ==
  /\ <<municipality, slug>> \in DOMAIN book.current
  /\ book.current[<<municipality, slug>>] # me

\* Held now by another school, or in history by another that is not closed.
IsTaken(book, municipality, slug, me) ==
  \/ /\ <<municipality, slug>> \in DOMAIN book.current
     /\ book.current[<<municipality, slug>>] # me
  \/ \E h \in book.history : /\ h[1] = municipality /\ h[2] = slug
                             /\ h[3] # me /\ h[3] \notin book.closed

Take(book, municipality, slug, holder) ==
  [book EXCEPT !.current = With(@, <<municipality, slug>>, holder)]

\* The slugs of the schools that close go to their successors before any
\* rename can take them.
HandOver(book, snap, placed) ==
  LET heirs == {o \in placed.candidates :
                  /\ o \in DOMAIN placed.pred /\ placed.pred[o] \in placed.closing
                  /\ snap.schools[placed.pred[o]].slug # NoSlug}
      key(o) == <<placed.municipalityOf[o], snap.schools[placed.pred[o]].slug>>
      handed == {key(o) : o \in heirs}
  IN  [book EXCEPT !.current =
         [k \in handed \cup DOMAIN @ |->
            IF k \in handed THEN placed.newOf[CHOOSE o \in heirs : key(o) = k] ELSE @[k]]]

MintedSlug(book, municipality, base, town, me) ==
  FirstFreeSlug(base, town, {slug \in ToSet(SlugCandidates(base, town)) :
                               IsTaken(book, municipality, slug, me)})

-----------------------------------------------------------------------------
(* Placement of the new units (place_all).                                 *)

\* A new unit may re-register a school that closes in the same municipality
\* under the same or a very similar name.
Matches(snap, inputs, st, candidates, ending) ==
  {m \in [unit : candidates, pred : ending] :
     LET school == snap.schools[m.pred]
     IN  /\ Reregistrable(inputs.units[school.orgnr])
         /\ st.by_number[inputs.units[m.unit].municipality_number] = school.municipality_id
         /\ AtLeast(NameSimilarity(school, inputs.units[m.unit].name), ReregistrationPercent)}

\* Ties go by the unit's orgnr, a school with an FAU before one without, the
\* predecessor's orgnr.
EarlierMatch(snap, fauClosing, a, b) ==
  LET fau(m) == m.pred \in fauClosing
  IN  \/ a.unit < b.unit
      \/ /\ a.unit = b.unit
         /\ \/ fau(a) /\ ~fau(b)
            \/ /\ fau(a) = fau(b)
               /\ snap.schools[a.pred].orgnr < snap.schools[b.pred].orgnr

\* The most similar match comes first.
BetterMatch(snap, inputs, fauClosing, a, b) ==
  LET sim(m) == NameSimilarity(snap.schools[m.pred], inputs.units[m.unit].name)
  IN  \/ MoreSimilar(sim(a), sim(b))
      \/ ~MoreSimilar(sim(b), sim(a)) /\ EarlierMatch(snap, fauClosing, a, b)

\* Each unit takes its best match.  A closing school has one successor; a
\* school with an FAU is never used up.
AssignMatch(fauClosing, acc, m) ==
  IF m.unit \in DOMAIN acc.pred \/ (m.pred \notin fauClosing /\ m.pred \in acc.claimed)
  THEN acc
  ELSE [pred |-> Added(acc.pred, m.unit, m.pred), claimed |-> acc.claimed \cup {m.pred}]

BestFirst(snap, inputs, matches, fauClosing) ==
  InOrder(matches, {p \in matches \X matches :
                      BetterMatch(snap, inputs, fauClosing, p[1], p[2])})

NoneAssigned == [pred |-> <<>>, claimed |-> {}]

PredecessorOf(snap, inputs, matches, fauClosing) ==
  FoldLeft(LAMBDA acc, m : AssignMatch(fauClosing, acc, m),
           NoneAssigned, BestFirst(snap, inputs, matches, fauClosing)).pred

\* The submitted school without an orgnr most like the unit, the lowest id on
\* a tie; None when no one is similar enough.
SubmissionMatch(snap, unit, municipality) ==
  LET sim(s) == NameSimilarity(snap.schools[s], unit.name)
      similar == {s \in DOMAIN snap.schools :
                    /\ snap.schools[s].origin = "submitted"
                    /\ snap.schools[s].orgnr = None
                    /\ snap.schools[s].status = "active"
                    /\ snap.schools[s].verification \in {"pending", "verified"}
                    /\ snap.schools[s].municipality_id = municipality
                    /\ AtLeast(sim(s), SubmissionMatchPercent)}
      best == {s \in similar : \A t \in similar : ~MoreSimilar(sim(t), sim(s))}
  IN  IF best = {} THEN None ELSE Min(best)

-----------------------------------------------------------------------------
(* Continuing schools (plan_update).  acc is [book, ops].                  *)

\* Of a unit's attributes the post town matters, for slugs and for the circuit breaker.  The
\* address with a street is taken whole: never the street of one and the town of another.
PostTown(unit) == (IF unit.visiting.street THEN unit.visiting ELSE unit.postal).post_town

\* Mutant: the name shown is compared, curated or not.
RenamedFromShown(school, unit) == school.display_name # unit.name

Renamed(school, unit) == school.register_name # unit.name

PlanUpdate(snap, inputs, st, acc, o) ==
  LET id == SchoolOf(snap, o)
      school == snap.schools[id]
      unit == inputs.units[o]
      here == school.municipality_id
      to == st.by_number[unit.municipality_number]
      moving == to # here
      renamed == Renamed(school, unit)
      base == SlugOf[unit.name]
      \* A rename re-mints the slug unless the school moves or its name is curated.
      minted == MintedSlug(acc.book, here, base, PostTown(unit), id)
      reslugs == /\ renamed /\ ~moving /\ ~school.curated
                 /\ base # NoSlug /\ base # school.slug
      book1 == IF reslugs THEN Take(acc.book, here, minted, id) ELSE acc.book
      rename == [op |-> "rename", id |-> id, register_name |-> unit.name,
                 display_name |-> IF school.curated THEN school.display_name ELSE unit.name,
                 old |-> IF reslugs /\ minted # school.slug THEN school.slug ELSE NoSlug,
                 new |-> IF reslugs THEN minted ELSE school.slug]
      attributes == [op |-> "update_attributes", id |-> id, post_town |-> PostTown(unit)]
      \* A move mints in the target municipality, from the name it will show.
      shown == IF renamed /\ ~school.curated THEN unit.name ELSE school.display_name
      moveBase == IF SlugOf[shown] = NoSlug THEN school.slug ELSE SlugOf[shown]
      moved == IF school.slug = NoSlug THEN NoSlug
               ELSE MintedSlug(book1, to, moveBase, PostTown(unit), id)
      move == [op |-> "move", id |-> id, from |-> here, to |-> to,
               old |-> school.slug, new |-> moved]
  IN  [book |-> IF moving /\ moved # NoSlug THEN Take(book1, to, moved, id) ELSE book1,
       ops |-> acc.ops \o (IF renamed THEN <<rename>> ELSE <<>>)
                       \o (IF school.post_town # PostTown(unit) THEN <<attributes>> ELSE <<>>)
                       \o (IF moving THEN <<move>> ELSE <<>>)]

\* A new unit: the slug of the school it succeeds, none while it is held, or
\* a slug of its own.
PlanCreate(snap, inputs, placed, acc, o) ==
  LET unit == inputs.units[o]
      municipality == placed.municipalityOf[o]
      me == placed.newOf[o]
      succeeds == o \in DOMAIN placed.pred
      held == IF succeeds THEN placed.pred[o] \in placed.fauClosing
              ELSE placed.submission[o] # None
      inherited == IF succeeds /\ ~held THEN snap.schools[placed.pred[o]].slug ELSE NoSlug
      mints == ~held /\ inherited = NoSlug /\ SlugOf[unit.name] # NoSlug
      slug == IF mints
              THEN MintedSlug(acc.book, municipality, SlugOf[unit.name], PostTown(unit), me)
              ELSE inherited
  IN  [book |-> IF mints THEN Take(acc.book, municipality, slug, me) ELSE acc.book,
       ops |-> Append(acc.ops,
         [op |-> "create", new |-> me, municipality |-> municipality, orgnr |-> o,
          name |-> unit.name, slug |-> slug, post_town |-> PostTown(unit),
          verification |-> IF held THEN "held" ELSE "listed"])]

-----------------------------------------------------------------------------
(* The plan of the schools, and the whole plan (plan_schools, plan_with).  *)

\* Which new unit stands for which school: the units to create with their
\* references and municipalities, the schools that end, and who succeeds whom.
Placed(snap, inputs, st) ==
  LET ids(fate) == {SchoolOf(snap, o) : o \in Fated(snap, inputs, st, fate)}
      candidates == Fated(snap, inputs, st, "candidate")
      municipalityOf ==
        [o \in candidates |-> st.by_number[inputs.units[o].municipality_number]]
      matches == Matches(snap, inputs, st, candidates, ids("closing") \cup ids("fau_closing"))
      pred == PredecessorOf(snap, inputs, matches, ids("fau_closing"))
  IN  [candidates |-> candidates, closing |-> ids("closing"), fauClosing |-> ids("fau_closing"),
       newOf |-> [o \in candidates |-> New(Cardinality({p \in candidates : p < o}))],
       municipalityOf |-> municipalityOf, pred |-> pred,
       submission |-> [o \in candidates \ DOMAIN pred |->
                         SubmissionMatch(snap, inputs.units[o], municipalityOf[o])]]

\* A new unit held back: a school with an FAU may carry on as it, or somebody submitted it.
PlacementReviews(placed) ==
  LET Held(kind, school, o) ==
        Review(kind, school, placed.newOf[o], placed.municipalityOf[o], "", None)
      reregistered == {o \in placed.candidates : /\ o \in DOMAIN placed.pred
                                                  /\ placed.pred[o] \in placed.fauClosing}
      submitted == {o \in placed.candidates : /\ o \notin DOMAIN placed.pred
                                               /\ placed.submission[o] # None}
  IN  Each(reregistered, LAMBDA o : Held("possible_reregistration", placed.pred[o], o))
        \o Each(submitted, LAMBDA o : Held("possible_submission_match", placed.submission[o], o))

\* A school with an FAU whose unit closed, unless a re-registration asks about it already;
\* and a municipality number of the units that leads nowhere, once per number.
SchoolReviews(snap, inputs, st, pred) ==
  LET unreviewed == {o \in Fated(snap, inputs, st, "fau_closing") :
                       \A c \in DOMAIN pred : pred[c] # SchoolOf(snap, o)}
      unknown == {inputs.units[o].municipality_number :
                    o \in Fated(snap, inputs, st, "unknown")}
  IN  Each(unreviewed,
           LAMBDA o : Review("closure_with_fau", SchoolOf(snap, o), None,
                             snap.schools[SchoolOf(snap, o)].municipality_id, "", None))
        \o Each(unknown, LAMBDA n : Review("unknown_municipality_number", None, None, None, "", n))

PlanClose(snap, inputs, placed, o) ==
  LET id == SchoolOf(snap, o)
      heirs == {c \in placed.candidates : c \in DOMAIN placed.pred /\ placed.pred[c] = id}
      successor == IF heirs = {} THEN None ELSE placed.newOf[CHOOSE c \in heirs : TRUE]
  IN  [op |-> "close", id |-> id, successor |-> successor,
       reason |-> IF successor # None THEN "merged" ELSE ClosureReason(inputs.units[o])]

NothingYet(book) == [book |-> book, ops |-> <<>>]

Continuing(snap, inputs, st) == Ascending(Fated(snap, inputs, st, "update"))

PlanUpdates(snap, inputs, st, book) ==
  FoldLeft(LAMBDA acc, o : PlanUpdate(snap, inputs, st, acc, o),
           NothingYet(book), Continuing(snap, inputs, st))

SortedCandidates(placed) == Ascending(placed.candidates)

PlanCreates(snap, inputs, placed, book) ==
  FoldLeft(LAMBDA acc, o : PlanCreate(snap, inputs, placed, acc, o),
           NothingYet(book), SortedCandidates(placed))

PlanSchools(snap, inputs, st) ==
  LET placed == Placed(snap, inputs, st)
      updated == PlanUpdates(snap, inputs, st,
                             HandOver(SlugBook(snap, placed.closing), snap, placed))
      created == PlanCreates(snap, inputs, placed, updated.book)
  IN  [ops |-> Each(Fated(snap, inputs, st, "closing"),
                    LAMBDA o : PlanClose(snap, inputs, placed, o))
                 \o created.ops \o updated.ops,
       reviews |-> PlacementReviews(placed) \o SchoolReviews(snap, inputs, st, placed.pred)]

CountOps(ops, kind) == Len(SelectSeq(ops, LAMBDA op : op.op = kind))

\* Attribute updates that blank a field the register has.
AttributeLosses(snap, ops) ==
  Len(SelectSeq(ops, LAMBDA op : /\ op.op = "update_attributes" /\ op.post_town = NoName
                                 /\ snap.schools[op.id].post_town # NoName))

\* More than 2% of the active schools closing, 5% renamed or 5% losing an
\* attribute, in integers.
MassChange(snap, ops) ==
  LET active == Bystanders + Cardinality({s \in DOMAIN snap.schools :
                  /\ snap.schools[s].status = "active"
                  /\ snap.schools[s].verification \in {"listed", "verified"}})
  IN  /\ active > 0
      /\ \/ CountOps(ops, "close") * 100 > active * 2
         \/ CountOps(ops, "rename") * 100 > active * 5
         \/ AttributeLosses(snap, ops) * 100 > active * 5

Planned(st, schools) ==
  [outcome |-> "apply", municipality_ops |-> st.ops, school_ops |-> schools.ops,
   reviews |-> st.reviews \o schools.reviews]

PlanFrom(snap, inputs, st) == Planned(st, PlanSchools(snap, inputs, st))

\* The outcome of planning: why the run must stop, no change, or the plan.
\* accept is the operator's --accept-mass-change.
Outcome(snap, inputs, accept, plan) ==
  IF inputs.municipalities = <<>> \/ inputs.units = <<>>
    THEN [outcome |-> "empty_source"]
  ELSE IF inputs.kind = "sync" /\ ~accept /\ MassChange(snap, plan.school_ops)
    THEN [outcome |-> "mass_change"]
  ELSE IF plan.municipality_ops = <<>> /\ plan.school_ops = <<>> /\ plan.reviews = <<>>
    THEN [outcome |-> "no_change"]
  ELSE plan

Plan(snap, inputs, accept) ==
  Outcome(snap, inputs, accept, PlanFrom(snap, inputs, PlanMunicipalities(snap, inputs)))

=============================================================================
