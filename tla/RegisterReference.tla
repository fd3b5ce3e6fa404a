-------------------------- MODULE RegisterReference --------------------------
(***************************************************************************)
(* What a plan means: the applier of the planner's own tests               *)
(* (domain/src/register/sync/testkit.rs), "the executable specification    *)
(* the SQL applier has to match".  The planner's tests run plan after plan *)
(* through it, so what they show of the program holds only as far as the   *)
(* tables of RegisterSync follow it.                                       *)
(*                                                                         *)
(* It knows what the planner's snapshot knows: current rows and the slugs  *)
(* in history, without dates.  New rows take the ids RegisterSync gives.    *)
(***************************************************************************)
EXTENDS RegisterSync

-----------------------------------------------------------------------------
(* The snapshot it works on, and a register seen as one.                   *)

MunicipalityFields == {"number", "name", "slug", "details", "status", "source"}
SchoolFields ==
  {"municipality_id", "origin", "orgnr", "register_name", "display_name", "curated", "slug",
   "verification", "status", "in_scope", "scope_override", "post_town"}

Only(rows, fields) == [id \in DOMAIN rows |-> [f \in fields |-> rows[id][f]]]

AsSnapshot(reg) ==
  [municipalities |-> Only(reg.municipalities, MunicipalityFields),
   municipality_slugs |-> {<<h.slug, h.municipality_id>> : h \in reg.municipality_slug_history},
   schools |-> Only(reg.schools, SchoolFields),
   school_slugs |-> {<<h.municipality_id, h.slug, h.school_id>> : h \in reg.slug_history}]

-----------------------------------------------------------------------------
(* One op.                                                                 *)

Freed(municipality, slug, id) == IF slug = NoSlug THEN {} ELSE {<<municipality, slug, id>>}

ReferenceMunicipalityOp(snap, op, ids) ==
  CASE op.op = "create" ->
         [snap EXCEPT !.municipalities = @ @@ (IdOf(ids.municipalities, op.new) :>
            [number |-> op.number, name |-> op.name, slug |-> op.slug, details |-> op.details,
             status |-> "active", source |-> op.source])]
    [] op.op = "renumber" ->
         [snap EXCEPT !.municipalities[op.id] =
                        [@ EXCEPT !.number = op.to, !.name = op.name, !.slug = op.new_slug],
                      !.municipality_slugs = @ \cup {<<op.old_slug, op.id>>}]
    [] op.op = "rename" ->
         [snap EXCEPT !.municipalities[op.id] = [@ EXCEPT !.name = op.name, !.slug = op.new_slug],
                      !.municipality_slugs = IF op.old_slug = op.new_slug THEN @
                                             ELSE @ \cup {<<op.old_slug, op.id>>}]
    [] op.op = "update_details" ->
         [snap EXCEPT !.municipalities[op.id].details = op.details]

ReferenceSchoolOp(snap, op, ids) ==
  CASE op.op = "close" ->
         LET school == snap.schools[op.id]
         IN  [snap EXCEPT
               !.schools[op.id] = [@ EXCEPT !.status = "closed", !.slug = NoSlug,
                                            !.in_scope = @ /\ op.reason # "out_of_scope"],
               !.school_slugs = @ \cup Freed(school.municipality_id, school.slug, op.id)]
    [] op.op = "create" ->
         [snap EXCEPT !.schools = @ @@ (IdOf(ids.schools, op.new) :>
            [municipality_id |-> IdOf(ids.municipalities, op.municipality), origin |-> "register",
             orgnr |-> op.orgnr, register_name |-> op.name, display_name |-> op.name,
             curated |-> FALSE, slug |-> op.slug, verification |-> op.verification,
             status |-> "active", in_scope |-> TRUE, scope_override |-> "unset",
             post_town |-> op.post_town])]
    [] op.op = "rename" ->
         [snap EXCEPT
           !.schools[op.id] = [@ EXCEPT !.register_name = op.register_name,
                                        !.display_name = op.display_name, !.slug = op.new],
           !.school_slugs = @ \cup Freed(snap.schools[op.id].municipality_id, op.old, op.id)]
    [] op.op = "update_attributes" ->
         [snap EXCEPT !.schools[op.id].post_town = op.post_town]
    [] op.op = "move" ->
         [snap EXCEPT
           !.schools[op.id] = [@ EXCEPT !.municipality_id = IdOf(ids.municipalities, op.to),
                                        !.slug = op.new],
           !.school_slugs = @ \cup Freed(op.from, op.old, op.id)]

\* 0004's rules as the test kit knows them, checked after every op.
CheckInvariants(snap) ==
  LET slugged == {s \in DOMAIN snap.schools : snap.schools[s].slug # NoSlug}
      active == {m \in DOMAIN snap.municipalities : snap.municipalities[m].status = "active"}
  IN  /\ \A s \in slugged : snap.schools[s].verification # "held"
      /\ Unique(slugged, LAMBDA s : <<snap.schools[s].municipality_id, snap.schools[s].slug>>)
      /\ Unique(DOMAIN snap.municipalities, LAMBDA m : snap.municipalities[m].slug)
      /\ Unique(active, LAMBDA m : snap.municipalities[m].number)

-----------------------------------------------------------------------------
(* The plan.                                                               *)

\* Who takes over from each closed school, once every create has run.
Successors(ops, ids) ==
  {<<op.id, IdOf(ids.schools, op.successor)>> :
     op \in {o \in ToSet(SelectSeq(ops, LAMBDA o : o.op = "close")) : o.successor # None}}

\* The handover contract: a successor exists, is not held, and is in the closed school's
\* municipality.
HandedOver(snap, successors) ==
  \A pair \in successors :
    /\ pair[2] \in DOMAIN snap.schools
    /\ snap.schools[pair[2]].verification # "held"
    /\ snap.schools[pair[2]].municipality_id = snap.schools[pair[1]].municipality_id

ReferenceApply(snap, plan, ids) ==
  LET Step(acc, new) == [snap |-> new, ok |-> acc.ok /\ CheckInvariants(new)]
      municipal == FoldLeft(LAMBDA acc, op : Step(acc, ReferenceMunicipalityOp(acc.snap, op, ids)),
                            [snap |-> snap, ok |-> TRUE], plan.municipality_ops)
      schooled == FoldLeft(LAMBDA acc, op : Step(acc, ReferenceSchoolOp(acc.snap, op, ids)),
                           municipal, plan.school_ops)
      successors == Successors(plan.school_ops, ids)
  IN  [snap |-> schooled.snap, successors |-> successors,
       ok |-> schooled.ok /\ HandedOver(schooled.snap, successors)]

-----------------------------------------------------------------------------
(* Property                                                                *)

\* The slugs somebody saw live: current before the run, or in history already.  The tables
\* leave the others out of history, as no link to them can exist (municipality_slug_history:
\* "nobody saw the slug live").
SeenLive(reg) ==
  [municipality |-> AsSnapshot(reg).municipality_slugs
                      \cup {<<reg.municipalities[m].slug, m>> : m \in DOMAIN reg.municipalities},
   school |-> AsSnapshot(reg).school_slugs
                \cup {<<reg.schools[s].municipality_id, reg.schools[s].slug, s>> :
                        s \in DOMAIN reg.schools}]

\* A run that is applied leaves the tables as the reference leaves the snapshot its plan was
\* made from: the same rows, the same slugs in history, the same successors, each of them a
\* school that is not held in the municipality of the one it takes over from.
SqlFollowsTheReference ==
  [][tx.open /\ ~tx'.open /\ last' = "applied" =>
       LET ids == NewIds(register)
           reference == ReferenceApply(AsSnapshot(register), tx.plan, ids)
           tables == AsSnapshot(register')
       IN  /\ reference.ok
           /\ tables.municipalities = reference.snap.municipalities
           /\ tables.schools = reference.snap.schools
           /\ tables.municipality_slugs
                = reference.snap.municipality_slugs \cap SeenLive(register).municipality
           /\ tables.school_slugs = reference.snap.school_slugs \cap SeenLive(register).school
           /\ \A pair \in reference.successors :
                register'.schools[pair[1]].successor_id = pair[2]]_vars
=============================================================================
