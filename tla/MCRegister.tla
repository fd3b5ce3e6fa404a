----------------------------- MODULE MCRegister -----------------------------
(* Small registers and the source changes that may hit them.               *)
EXTENDS RegisterReference

MCNames == {"Ask", "Ask skole", "Ask vest", "Bo", "Nord", "Sor", "By", "Svalbard", "?"}

MCSlugOf ==
  [n \in MCNames |->
     CASE n = "Ask" -> <<"ask">> [] n = "Ask skole" -> <<"ask", "skole">>
       [] n = "Ask vest" -> <<"ask", "vest">> [] n = "Bo" -> <<"bo">>
       [] n = "Nord" -> <<"nord">> [] n = "Sor" -> <<"sor">> [] n = "By" -> <<"by">>
       [] n = "Svalbard" -> <<"svalbard">> [] OTHER -> <<>>]

\* Ask and Ask skole share 5 of 7 trigrams, Ask and Ask vest 5 of 10.
MCTrigrams ==
  [n \in MCNames |->
     CASE n = "Ask" -> 1..5 [] n = "Ask skole" -> 1..7 [] n = "Ask vest" -> 1..5 \cup 11..15
       [] n = "Bo" -> 21..23 [] n = "?" -> {} [] OTHER -> {30}]

Municipality(number, name) ==
  [number |-> number, number_from |-> 1, name |-> name, slug |-> MunicipalitySlug(number, name),
   details |-> "d", status |-> "active", source |-> "kartverket", created_at |-> 1]

Record(name) == [name |-> name, details |-> "d"]

Unit(name, number) ==
  [name |-> name, municipality_number |-> number, is_school |-> TRUE, is_active |-> TRUE,
   is_primary_school |-> TRUE, adult_category |-> FALSE, primary_nace |-> "85.201",
   closure |-> "none", visiting |-> [street |-> FALSE, post_town |-> NoName],
   postal |-> [street |-> FALSE, post_town |-> NoName]]

Visited(unit, town) == [unit EXCEPT !.visiting = [street |-> TRUE, post_town |-> town]]

Closed(unit, code) == [unit EXCEPT !.is_active = FALSE, !.closure = code]

School(orgnr, unit, municipality, slug) ==
  [municipality_id |-> municipality, origin |-> "register", orgnr |-> orgnr,
   register_name |-> unit.name, display_name |-> unit.name, curated |-> FALSE, slug |-> slug,
   verification |-> "listed", verified_at |-> None, status |-> "active", in_scope |-> TRUE,
   scope_override |-> "unset", post_town |-> PostTown(unit), successor_id |-> None,
   closure_reason |-> "none", created_at |-> 1]

Register(municipalities, schools) ==
  [municipalities |-> municipalities, numbers |-> {}, municipality_slug_history |-> {},
   schools |-> schools, slug_history |-> {}, former_orgnrs |-> {}, reviews |-> <<>>]

Sources(municipalities, units) ==
  [municipalities |-> municipalities, code_changes |-> <<>>, units |-> units]

UnitEdit(orgnr, unit) == [edit |-> "unit", orgnr |-> orgnr, unit |-> unit]
ListEdit(number, name) == [edit |-> "list", number |-> number, record |-> Record(name)]
UnlistEdit(number) == [edit |-> "unlist", number |-> number]
ChangeEdit(old, new, on) ==
  [edit |-> "change", change |-> [old_code |-> old, old_name |-> "Nord", new_code |-> new,
                                  new_name |-> "Nord", occurred_on |-> on]]

Ask == Unit("Ask", 11)
Bo == Unit("Bo", 11)
TwoSchools == (1 :> School(1, Ask, 1, <<"ask">>)) @@ (2 :> School(2, Bo, 1, <<"bo">>))
TwoMunicipalities == (1 :> Municipality(11, "Nord")) @@ (2 :> Municipality(12, "Sor"))
TwoRecords == (11 :> Record("Nord")) @@ (12 :> Record("Sor"))

Start == [register |-> Register(TwoMunicipalities, TwoSchools),
          sources |-> Sources(TwoRecords, (1 :> Ask) @@ (2 :> Bo))]

Scenario(start, coming) == [register |-> start.register, sources |-> start.sources, edits |-> coming]

\* A school re-registers under a new orgnr while another takes over its name
\* and moves away.
Reregistration ==
  Scenario(Start, {<<UnitEdit(1, Closed(Ask, "S"))>>, <<UnitEdit(3, Unit("Ask skole", 11))>>,
                   <<UnitEdit(2, Unit("Ask", 11))>>, <<UnitEdit(2, Unit("Ask", 12))>>})

\* Two new units compete for two closing schools of the same name.
Heirs ==
  Scenario([register |-> Register(TwoMunicipalities,
                           (1 :> School(1, Ask, 1, <<"ask">>)) @@
                           (2 :> School(2, Unit("Ask skole", 11), 1, <<"ask", "skole">>)) @@
                           (9 :> School(9, Unit("Bo", 12), 2, <<"bo">>))),
            sources |-> Sources(TwoRecords, (1 :> Ask) @@ (2 :> Unit("Ask skole", 11)) @@
                                            (9 :> Unit("Bo", 12)))],
           {<<UnitEdit(1, Closed(Ask, "F")), UnitEdit(2, Closed(Unit("Ask skole", 11), "S"))>>,
            <<UnitEdit(3, Unit("Ask", 11))>>, <<UnitEdit(4, Unit("Ask", 11))>>,
            <<UnitEdit(3, Closed(Unit("Ask", 11), "D"))>>})

\* A renumber, published by Kartverket, SSB and NSR at different times, and a
\* second one on top of it.
RenumberedTwice ==
  Scenario(Start, {<<UnlistEdit(11), ListEdit(13, "Nord")>>, <<ChangeEdit(11, 13, 1)>>,
                   <<UnitEdit(1, Unit("Ask", 13)), UnitEdit(2, Unit("Bo", 13))>>,
                   <<UnlistEdit(11), UnlistEdit(13), ListEdit(14, "Sor"), ChangeEdit(13, 14, 2)>>})

\* A split, with a unit that follows one half and another that closes.
Split ==
  Scenario(Start, {<<UnlistEdit(11), ListEdit(13, "Nord"), ListEdit(14, "Nord")>>,
                   <<ChangeEdit(11, 13, 1), ChangeEdit(11, 14, 1)>>,
                   <<UnitEdit(1, Unit("Ask skole", 13))>>, <<UnitEdit(2, Closed(Bo, "N"))>>})

\* A merger of both municipalities into a new one.
Merger ==
  Scenario(Start, {<<UnlistEdit(11), UnlistEdit(12), ListEdit(13, "Nord")>>,
                   <<ChangeEdit(11, 13, 1)>>, <<ChangeEdit(12, 13, 1)>>,
                   <<UnitEdit(2, Unit("Bo", 13))>>})

\* Kartverket answers with nothing for a while.
Outage ==
  Scenario(Start, {<<UnlistEdit(11), UnlistEdit(12)>>,
                   <<ListEdit(11, "Nord"), ListEdit(12, "By")>>, <<UnitEdit(2, Ask)>>})

\* An empty register to seed, with a school on Svalbard, one abroad and two
\* of the same name, which their post town tells apart.
SeedRun ==
  Scenario([register |-> Register(<<>>, <<>>),
            sources |-> Sources((11 :> Record("Nord")) @@ (12 :> Record("?")),
                         (1 :> Ask) @@ (2 :> Visited(Ask, "By")) @@
                         (3 :> Unit("Bo", 2100)) @@ (4 :> Unit("Bo", 2599)))],
           {<<UnitEdit(5, Ask)>>, <<ListEdit(11, "Sor")>>, <<UnitEdit(2, Ask)>>})

\* Submitted schools, a curated name and an operator's override.
Submitted ==
  LET submitted == [School(None, Unit("Ask vest", 11), 1, <<"ask", "vest">>) EXCEPT
                      !.origin = "submitted", !.register_name = NoName,
                      !.verification = "verified", !.verified_at = 1]
      pending == [submitted EXCEPT !.display_name = "Ask", !.slug = NoSlug,
                                   !.verification = "pending", !.verified_at = None]
      curated == [School(2, Bo, 1, <<"bo">>) EXCEPT !.curated = TRUE, !.scope_override = "in"]
  IN  Scenario([register |-> Register(TwoMunicipalities,
                               (1 :> submitted) @@ (2 :> curated) @@ (3 :> pending)),
                sources |-> Sources(TwoRecords, 2 :> Bo)],
               {<<UnitEdit(1, Ask)>>, <<UnitEdit(2, [Bo EXCEPT !.name = "Ask vest",
                                                               !.primary_nace = "85.593"])>>,
                <<UnitEdit(3, Unit("Ask vest", 12))>>, <<UnitEdit(3, Unit("Ask vest", 11))>>})

\* A school gives up its name; a new school and an old one take it.
Vacated ==
  Scenario(Start, {<<UnitEdit(1, Unit("Ask vest", 11))>>, <<UnitEdit(3, Ask)>>,
                   <<UnitEdit(2, Ask)>>, <<UnitEdit(1, Closed(Unit("Ask vest", 11), "N"))>>})

\* A school whose name has nothing sluggable gets its first slug later, from
\* a name another school has given up.
FirstSlug ==
  Scenario([register |-> Register(TwoMunicipalities,
                           (1 :> School(1, Ask, 1, <<"ask">>)) @@
                           (2 :> School(2, Unit("?", 11), 1, NoSlug)) @@
                           (9 :> School(9, Unit("Bo", 12), 2, <<"bo">>))),
            sources |-> Sources(TwoRecords, (1 :> Ask) @@ (2 :> Unit("?", 11)) @@
                                            (9 :> Unit("Bo", 12)))],
           {<<UnitEdit(1, Closed(Ask, "N"))>>, <<UnitEdit(2, Ask)>>,
            <<UnitEdit(2, Closed(Ask, "N"))>>})

MCFirstSlugScenarios == {FirstSlug}

MCScenarios == {Reregistration, Heirs, RenumberedTwice, Split, Merger, Outage, SeedRun, Submitted,
                 Vacated}
=============================================================================
