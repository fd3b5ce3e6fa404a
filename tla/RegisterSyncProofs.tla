------------------------- MODULE RegisterSyncProofs -------------------------
(***************************************************************************)
(* Theorems about RegisterSync for every register the schema allows, every *)
(* answer of the sources and every number of runs.                         *)
(***************************************************************************)
EXTENDS RegisterSync, FiniteSetTheorems, SequenceTheorems, WellFoundedInduction, TLAPS

-----------------------------------------------------------------------------
(* Numbers and finite sets. *)

\* A nonempty set of numbers has a least one.
LEMMA LeastNumber ==
  ASSUME NEW T \in SUBSET Nat, T # {}
  PROVE  \E m \in T : \A k \in T : m <= k
<1>1. \E m \in T : \A k \in T : ~(<<k, m>> \in OpToRel(<, Nat))
  BY NatLessThanWellFounded, WFMin, Zenon
<1>2. PICK m \in T : \A k \in T : ~(<<k, m>> \in OpToRel(<, Nat))
  BY <1>1
<1>3. ASSUME NEW k \in Nat, NEW n \in Nat, k < n
      PROVE  <<k, n>> \in OpToRel(<, Nat)
  <2>1. <<k, n>> \in Nat \X Nat /\ <<k, n>>[1] = k /\ <<k, n>>[2] = n
    OBVIOUS
  <2> QED BY <1>3, <2>1, Zenon DEF OpToRel
<1>4. \A k \in T : ~(k < m)
  BY <1>2, <1>3
<1> QED BY <1>4

\* K holds 0 and the successor of each of its numbers below n.
Climbs(K, n) == 0 \in K /\ \A k \in 0..n : k \in K /\ k < n => k + 1 \in K

\* Induction up to n over a set of numbers.
LEMMA Climb ==
  ASSUME NEW n \in Nat, NEW K, Climbs(K, n)
  PROVE  n \in K /\ \A k \in 0..n : k \in K
<1> SUFFICES ASSUME NEW j \in 0..n, j \notin K PROVE FALSE
  OBVIOUS
<1> DEFINE T == {k \in 0..n : k \notin K}
<1>1. T \in SUBSET Nat /\ T # {}
  OBVIOUS
<1>2. PICK m \in T : \A k \in T : m <= k
  BY <1>1, LeastNumber
<1>3. m # 0 /\ m \in 1..n
  BY <1>2 DEF Climbs
<1>4. m - 1 \in 0..n /\ m - 1 \notin T /\ m - 1 < n
  BY <1>2, <1>3
<1>5. (m - 1) + 1 \in K
  BY <1>4 DEF Climbs
<1> QED BY <1>2, <1>3, <1>5

\* The element a fold of a sequence takes last.
Top(s) == CHOOSE x \in s : \A y \in s : x >= y

\* The last place of a prefix is its greatest element.
LEMMA TopOfPrefix ==
  ASSUME NEW k \in Nat, NEW s \in SUBSET (1..k), k \in s
  PROVE  Top(s) = k
<1>1. \A y \in s : k >= y
  OBVIOUS
<1>2. ASSUME NEW x \in s, \A y \in s : x >= y PROVE x = k
  BY <1>2
<1> QED BY <1>1, <1>2 DEF Top

\* A nonempty part of a prefix has a last element.
LEMMA TopOfPart ==
  ASSUME NEW n \in Nat, NEW s \in SUBSET (0..n), s # {}
  PROVE  Top(s) \in s /\ \A y \in s : y <= Top(s)
<1> DEFINE T == {k \in Nat : \A y \in s : y <= k}
<1>1. T \in SUBSET Nat /\ n \in T
  OBVIOUS
<1>2. PICK m \in T : \A k \in T : m <= k
  BY <1>1, LeastNumber
<1>3. m \in s
  <2> SUFFICES ASSUME m \notin s PROVE FALSE
    OBVIOUS
  <2>1. \A y \in s : y < m
    BY <1>2
  <2>2. PICK y \in s : TRUE
    OBVIOUS
  <2>3. m # 0 /\ m - 1 \in Nat
    BY <2>1, <2>2, <1>2
  <2>4. \A z \in s : z <= m - 1
    BY <2>1, <1>2
  <2>5. m - 1 \in T
    BY <2>3, <2>4
  <2> QED BY <2>3, <2>5, <1>2
<1>4. \E x \in s : \A y \in s : x >= y
  BY <1>2, <1>3
<1> QED BY <1>4 DEF Top

\* A finite set of numbers is bounded.
LEMMA FiniteIsBounded ==
  ASSUME NEW S \in SUBSET Nat, IsFiniteSet(S)
  PROVE  \E n \in Nat : S \subseteq 0..n
<1>1. PICK n \in Nat : ExistsBijection(1..n, S)
  BY FS_NatBijection
<1>2. PICK f \in Bijection(1..n, S) : TRUE
  BY <1>1 DEF ExistsBijection
<1>3. f \in [1..n -> Nat] /\ \A x \in S : \E i \in 1..n : f[i] = x
  BY <1>2 DEF Bijection, Surjection, Injection
<1> HIDE <1>2
<1> DEFINE K == {k \in 0..n : \E m \in Nat : \A i \in 1..k : f[i] <= m}
<1>4. 0 \in K
  OBVIOUS
<1>5. ASSUME NEW k \in 0..n, k \in K, k < n PROVE k + 1 \in K
  <2>1. PICK m \in Nat : \A i \in 1..k : f[i] <= m
    BY <1>5
  <2>2. k + 1 \in 1..n /\ k + 1 \in 0..n
    BY <1>5
  <2>3. f[k + 1] \in Nat
    BY <1>3, <2>2
  <2>4. PICK b \in Nat : m <= b /\ f[k + 1] <= b
    BY <2>3
  <2>5. ASSUME NEW i \in 1..(k + 1) PROVE f[i] <= b
    <3>1. CASE i = k + 1
      BY <2>4, <3>1
    <3>2. CASE i # k + 1
      <4>1. i \in 1..k /\ i \in 1..n
        BY <1>5, <3>2
      <4>2. f[i] \in Nat /\ f[i] <= m
        BY <1>3, <2>1, <4>1
      <4> QED BY <2>4, <4>2
    <3> QED BY <3>1, <3>2
  <2> QED BY <2>2, <2>5
<1>6. n \in K
  <2> HIDE DEF K
  <2>1. Climbs(K, n)
    BY <1>4, <1>5 DEF Climbs
  <2> QED BY <2>1, Climb
<1>7. PICK m \in Nat : \A i \in 1..n : f[i] <= m
  BY <1>6
<1>8. S \subseteq 0..m
  BY <1>3, <1>7
<1> QED BY <1>8

-----------------------------------------------------------------------------
(* Folds, unrolled into the values between their steps.  One proof serves  *)
(* every fold of the planner and the applier: FoldStep is the step of the  *)
(* kind asked for, with the parameters p it closes over.                   *)

FoldStep(kind, p, a, x) ==
  CASE kind = "group" -> PlanGroup(p[1], p[2], a, x)
    [] kind = "record" -> PlanRecord(p[1], p[2], a, x)
    [] kind = "match" -> AssignMatch(p[1], a, x)
    [] kind = "update" -> PlanUpdate(p[1], p[2], p[3], a, x)
    [] kind = "create" -> PlanCreate(p[1], p[2], p[3], a, x)
    [] kind = "municipality_op" -> Checked(a, ApplyMunicipalityOp(a.reg, x, p[1], p[2]))
    [] kind = "school_op" -> Checked(a, ApplySchoolOp(a.reg, x, p[1], p[2]))
    [] kind = "review" -> WriteReview(a, WithIds(x, p[1]))
    [] kind = "edit" -> Edited(a, x)

\* The function a fold is defined by: its value on each set of places.
FoldBody(kind, p, base, seq, g, s) ==
  IF s = {} THEN base ELSE FoldStep(kind, p, g[s \ {Top(s)}], seq[Top(s)])

\* That function exists for a sequence of any length.
IsFold(kind, p, base, seq, n, g) ==
  g = [s \in SUBSET (1..n) |-> FoldBody(kind, p, base, seq, g, s)]

\* The folding function exists on every set of places.
LEMMA FoldExists ==
  ASSUME NEW kind, NEW p, NEW base, NEW seq, NEW n \in Nat
  PROVE  \E g : IsFold(kind, p, base, seq, n, g)
<1> DEFINE Body(g, s) == FoldBody(kind, p, base, seq, g, s)
           K == {k \in 0..n : \E g : g = [s \in SUBSET (1..k) |-> Body(g, s)]}
<1>1. \A g : Body(g, {}) = base
  BY DEF FoldBody
<1>2. ASSUME NEW g, NEW h, NEW s, s # {}, g[s \ {Top(s)}] = h[s \ {Top(s)}]
      PROVE  Body(g, s) = Body(h, s)
  BY <1>2 DEF FoldBody
<1> HIDE DEF Body
<1>3. 0 \in K
  <2>1. PICK g : g = [s \in SUBSET (1..0) |-> base]
    OBVIOUS
  <2>2. \A s \in SUBSET (1..0) : s = {}
    OBVIOUS
  <2>3. g = [s \in SUBSET (1..0) |-> Body(g, s)]
    BY <1>1, <2>1, <2>2
  <2>4. \E f : f = [s \in SUBSET (1..0) |-> Body(f, s)]
    BY <2>3
  <2> QED BY <2>4
<1>4. ASSUME NEW k \in 0..n, k \in K, k < n PROVE k + 1 \in K
  <2>1. PICK g : g = [s \in SUBSET (1..k) |-> Body(g, s)]
    BY <1>4
  <2>2. PICK h : h = [s \in SUBSET (1..(k + 1)) |->
                        IF k + 1 \in s THEN Body(g, s) ELSE g[s]]
    OBVIOUS
  <2>3. ASSUME NEW s \in SUBSET (1..k) PROVE h[s] = g[s]
    BY <2>2, s \in SUBSET (1..(k + 1)), k + 1 \notin s
  <2>4. ASSUME NEW s \in SUBSET (1..(k + 1)) PROVE h[s] = Body(h, s)
    <3>1. CASE s = {}
      BY <1>1, <2>1, <2>3, <3>1
    <3>2. CASE k + 1 \in s
      <4>3. k + 1 \in Nat
        OBVIOUS
      <4>4. Top(s) = k + 1
        BY <3>2, <4>3, TopOfPrefix
      <4>1. s \ {Top(s)} \in SUBSET (1..k)
        BY <4>4
      <4>2. g[s \ {Top(s)}] = h[s \ {Top(s)}]
        BY <2>3, <4>1
      <4> QED BY <1>2, <2>2, <3>2, <4>2
    <3>3. CASE s # {} /\ k + 1 \notin s
      <4>4. s \in SUBSET (1..k)
        BY <3>3
      <4>1. s \in SUBSET (1..k) /\ s \ {Top(s)} \in SUBSET (1..k)
        BY <4>4
      <4>2. g[s] = Body(g, s)
        BY <2>1, <4>1
      <4>3. g[s \ {Top(s)}] = h[s \ {Top(s)}] /\ h[s] = g[s]
        BY <2>3, <4>1
      <4> QED BY <1>2, <3>3, <4>2, <4>3
    <3> QED BY <3>1, <3>2, <3>3
  <2>5. h = [s \in SUBSET (1..(k + 1)) |-> Body(h, s)]
    BY <2>2, <2>4
  <2>6. \E f : f = [s \in SUBSET (1..(k + 1)) |-> Body(f, s)]
    BY <2>5
  <2>7. k + 1 \in 0..n
    BY <1>4
  <2> QED BY <2>6, <2>7
<1>5. n \in K
  <2> HIDE DEF K
  <2>1. Climbs(K, n)
    BY <1>3, <1>4 DEF Climbs
  <2> QED BY <2>1, Climb
<1> QED BY <1>5 DEF Body, IsFold

\* Its values on the prefixes are the values between the steps.
IsRun(kind, p, base, seq, n, run) ==
  /\ run[0] = base
  /\ \A i \in 1..n : run[i] = FoldStep(kind, p, run[i - 1], seq[i])

\* A folding function, read along the prefixes, is a run from the base to the result.
LEMMA FoldRuns ==
  ASSUME NEW kind, NEW p, NEW base, NEW seq, NEW n \in Nat, NEW g,
         IsFold(kind, p, base, seq, n, g)
  PROVE  \E run : IsRun(kind, p, base, seq, n, run) /\ run[n] = g[1..n]
<1>1. PICK run : run = [i \in 0..n |-> g[1..i]]
  OBVIOUS
<1>2. run[0] = base /\ run[n] = g[1..n]
  <2>1. 1..0 = {} /\ {} \in SUBSET (1..n)
    OBVIOUS
  <2>2. g[{}] = base
    BY <2>1 DEF FoldBody, IsFold
  <2> QED BY <1>1, <2>1, <2>2
<1>3. ASSUME NEW i \in 1..n PROVE run[i] = FoldStep(kind, p, run[i - 1], seq[i])
  <2>1. Top(1..i) = i
    BY TopOfPrefix
  <2>5. (1..i) \ {i} = 1..(i - 1)
    OBVIOUS
  <2>2. (1..i) \ {i} = 1..(i - 1) /\ i - 1 \in 0..n /\ 1..i \in SUBSET (1..n) /\ 1..i # {}
    BY <2>5
  <2>3. g[1..i] = FoldBody(kind, p, base, seq, g, 1..i)
    BY <2>2 DEF IsFold
  <2>4. g[1..i] = FoldStep(kind, p, g[1..(i - 1)], seq[i])
    BY <2>1, <2>2, <2>3 DEF FoldBody
  <2> QED BY <1>1, <2>2, <2>4
<1> QED BY <1>2, <1>3 DEF IsRun

\* The groups of SSB changes are planned one after another (plan_municipalities).
LEMMA AfterGroupsSteps ==
  ASSUME NEW snap, NEW inputs, NEW seq, seq = OrderedGroups(inputs),
         NEW n \in Nat, DOMAIN seq = 1..n
  PROVE  \E run : /\ IsRun("group", <<snap, inputs>>, Untouched(snap), seq, n, run)
                  /\ AfterGroups(snap, inputs) = run[n]
<1> DEFINE Body(g, s) == IF s = {} THEN Untouched(snap)
                         ELSE PlanGroup(snap, inputs, g[s \ {Top(s)}], seq[Top(s)])
           fold == CHOOSE g : g = [s \in SUBSET (1..n) |-> Body(g, s)]
<1>1. AfterGroups(snap, inputs) = fold[1..n]
  BY ZenonT(60) DEF AfterGroups, FoldLeft, MapThenFoldSet, Max, Top
<1>2. \A g, s : Body(g, s) = FoldBody("group", <<snap, inputs>>, Untouched(snap), seq, g, s)
  BY DEF FoldBody, FoldStep
<1> HIDE DEF Body
<1>3. \A g : IsFold("group", <<snap, inputs>>, Untouched(snap), seq, n, g)
              <=> g = [s \in SUBSET (1..n) |-> Body(g, s)]
  BY <1>2 DEF IsFold
<1>4. IsFold("group", <<snap, inputs>>, Untouched(snap), seq, n, fold)
  BY <1>3, FoldExists
<1> HIDE DEF fold
<1> QED BY <1>1, <1>4, FoldRuns

\* Kartverket's records are planned one after another (plan_municipalities).
LEMMA AfterRecordsSteps ==
  ASSUME NEW snap, NEW inputs, NEW seq, seq = SortedRecords(inputs),
         NEW n \in Nat, DOMAIN seq = 1..n
  PROVE  \E run : /\ IsRun("record", <<snap, inputs>>, AfterGroups(snap, inputs), seq, n, run)
                  /\ AfterRecords(snap, inputs) = run[n]
<1> DEFINE Body(g, s) == IF s = {} THEN AfterGroups(snap, inputs)
                         ELSE PlanRecord(snap, inputs, g[s \ {Top(s)}], seq[Top(s)])
           fold == CHOOSE g : g = [s \in SUBSET (1..n) |-> Body(g, s)]
<1>1. AfterRecords(snap, inputs) = fold[1..n]
  BY ZenonT(60) DEF AfterRecords, FoldLeft, MapThenFoldSet, Max, Top
<1>2. \A g, s : Body(g, s) = FoldBody("record", <<snap, inputs>>, AfterGroups(snap, inputs), seq, g, s)
  BY DEF FoldBody, FoldStep
<1> HIDE DEF Body
<1>3. \A g : IsFold("record", <<snap, inputs>>, AfterGroups(snap, inputs), seq, n, g)
              <=> g = [s \in SUBSET (1..n) |-> Body(g, s)]
  BY <1>2 DEF IsFold
<1>4. IsFold("record", <<snap, inputs>>, AfterGroups(snap, inputs), seq, n, fold)
  BY <1>3, FoldExists
<1> HIDE DEF fold
<1> QED BY <1>1, <1>4, FoldRuns

\* The matches are assigned one after another (place_all).
LEMMA PredecessorSteps ==
  ASSUME NEW snap, NEW inputs, NEW matches, NEW fauClosing, NEW seq, seq = BestFirst(snap, inputs, matches, fauClosing),
         NEW n \in Nat, DOMAIN seq = 1..n
  PROVE  \E run : /\ IsRun("match", <<fauClosing>>, NoneAssigned, seq, n, run)
                  /\ PredecessorOf(snap, inputs, matches, fauClosing) = run[n].pred
<1> DEFINE Body(g, s) == IF s = {} THEN NoneAssigned
                         ELSE AssignMatch(fauClosing, g[s \ {Top(s)}], seq[Top(s)])
           fold == CHOOSE g : g = [s \in SUBSET (1..n) |-> Body(g, s)]
<1>1. PredecessorOf(snap, inputs, matches, fauClosing) = fold[1..n].pred
  BY ZenonT(60) DEF PredecessorOf, FoldLeft, MapThenFoldSet, Max, Top
<1>2. \A g, s : Body(g, s) = FoldBody("match", <<fauClosing>>, NoneAssigned, seq, g, s)
  BY DEF FoldBody, FoldStep
<1> HIDE DEF Body
<1>3. \A g : IsFold("match", <<fauClosing>>, NoneAssigned, seq, n, g)
              <=> g = [s \in SUBSET (1..n) |-> Body(g, s)]
  BY <1>2 DEF IsFold
<1>4. IsFold("match", <<fauClosing>>, NoneAssigned, seq, n, fold)
  BY <1>3, FoldExists
<1> HIDE DEF fold
<1> QED BY <1>1, <1>4, FoldRuns

\* The continuing schools are planned one after another (plan_update).
LEMMA PlanUpdatesSteps ==
  ASSUME NEW snap, NEW inputs, NEW st, NEW book, NEW seq, seq = Continuing(snap, inputs, st),
         NEW n \in Nat, DOMAIN seq = 1..n
  PROVE  \E run : /\ IsRun("update", <<snap, inputs, st>>, NothingYet(book), seq, n, run)
                  /\ PlanUpdates(snap, inputs, st, book) = run[n]
<1> DEFINE Body(g, s) == IF s = {} THEN NothingYet(book)
                         ELSE PlanUpdate(snap, inputs, st, g[s \ {Top(s)}], seq[Top(s)])
           fold == CHOOSE g : g = [s \in SUBSET (1..n) |-> Body(g, s)]
<1>1. PlanUpdates(snap, inputs, st, book) = fold[1..n]
  BY ZenonT(60) DEF PlanUpdates, FoldLeft, MapThenFoldSet, Max, Top
<1>2. \A g, s : Body(g, s) = FoldBody("update", <<snap, inputs, st>>, NothingYet(book), seq, g, s)
  BY DEF FoldBody, FoldStep
<1> HIDE DEF Body
<1>3. \A g : IsFold("update", <<snap, inputs, st>>, NothingYet(book), seq, n, g)
              <=> g = [s \in SUBSET (1..n) |-> Body(g, s)]
  BY <1>2 DEF IsFold
<1>4. IsFold("update", <<snap, inputs, st>>, NothingYet(book), seq, n, fold)
  BY <1>3, FoldExists
<1> HIDE DEF fold
<1> QED BY <1>1, <1>4, FoldRuns

\* The new units are planned one after another (plan_schools).
LEMMA PlanCreatesSteps ==
  ASSUME NEW snap, NEW inputs, NEW placed, NEW book, NEW seq, seq = SortedCandidates(placed),
         NEW n \in Nat, DOMAIN seq = 1..n
  PROVE  \E run : /\ IsRun("create", <<snap, inputs, placed>>, NothingYet(book), seq, n, run)
                  /\ PlanCreates(snap, inputs, placed, book) = run[n]
<1> DEFINE Body(g, s) == IF s = {} THEN NothingYet(book)
                         ELSE PlanCreate(snap, inputs, placed, g[s \ {Top(s)}], seq[Top(s)])
           fold == CHOOSE g : g = [s \in SUBSET (1..n) |-> Body(g, s)]
<1>1. PlanCreates(snap, inputs, placed, book) = fold[1..n]
  BY ZenonT(60) DEF PlanCreates, FoldLeft, MapThenFoldSet, Max, Top
<1>2. \A g, s : Body(g, s) = FoldBody("create", <<snap, inputs, placed>>, NothingYet(book), seq, g, s)
  BY DEF FoldBody, FoldStep
<1> HIDE DEF Body
<1>3. \A g : IsFold("create", <<snap, inputs, placed>>, NothingYet(book), seq, n, g)
              <=> g = [s \in SUBSET (1..n) |-> Body(g, s)]
  BY <1>2 DEF IsFold
<1>4. IsFold("create", <<snap, inputs, placed>>, NothingYet(book), seq, n, fold)
  BY <1>3, FoldExists
<1> HIDE DEF fold
<1> QED BY <1>1, <1>4, FoldRuns

\* The municipality ops of a plan are applied one after another (apply_plan).
LEMMA MunicipalityOpsSteps ==
  ASSUME NEW acc, NEW ops, NEW ids, NEW at, NEW n \in Nat, DOMAIN ops = 1..n
  PROVE  \E run : /\ IsRun("municipality_op", <<ids, at>>, acc, ops, n, run)
                  /\ ApplyMunicipalityOps(acc, ops, ids, at) = run[n]
<1> DEFINE Body(g, s) == IF s = {} THEN acc
                         ELSE Checked(g[s \ {Top(s)}], ApplyMunicipalityOp(g[s \ {Top(s)}].reg, ops[Top(s)], ids, at))
           fold == CHOOSE g : g = [s \in SUBSET (1..n) |-> Body(g, s)]
<1>1. ApplyMunicipalityOps(acc, ops, ids, at) = fold[1..n]
  BY ZenonT(60) DEF ApplyMunicipalityOps, FoldLeft, MapThenFoldSet, Max, Top
<1>2. \A g, s : Body(g, s) = FoldBody("municipality_op", <<ids, at>>, acc, ops, g, s)
  BY DEF FoldBody, FoldStep
<1> HIDE DEF Body
<1>3. \A g : IsFold("municipality_op", <<ids, at>>, acc, ops, n, g)
              <=> g = [s \in SUBSET (1..n) |-> Body(g, s)]
  BY <1>2 DEF IsFold
<1>4. IsFold("municipality_op", <<ids, at>>, acc, ops, n, fold)
  BY <1>3, FoldExists
<1> HIDE DEF fold
<1> QED BY <1>1, <1>4, FoldRuns

\* The school ops of a plan are applied one after another (apply_plan).
LEMMA SchoolOpsSteps ==
  ASSUME NEW acc, NEW ops, NEW ids, NEW at, NEW n \in Nat, DOMAIN ops = 1..n
  PROVE  \E run : /\ IsRun("school_op", <<ids, at>>, acc, ops, n, run)
                  /\ ApplySchoolOps(acc, ops, ids, at) = run[n]
<1> DEFINE Body(g, s) == IF s = {} THEN acc
                         ELSE Checked(g[s \ {Top(s)}], ApplySchoolOp(g[s \ {Top(s)}].reg, ops[Top(s)], ids, at))
           fold == CHOOSE g : g = [s \in SUBSET (1..n) |-> Body(g, s)]
<1>1. ApplySchoolOps(acc, ops, ids, at) = fold[1..n]
  BY ZenonT(60) DEF ApplySchoolOps, FoldLeft, MapThenFoldSet, Max, Top
<1>2. \A g, s : Body(g, s) = FoldBody("school_op", <<ids, at>>, acc, ops, g, s)
  BY DEF FoldBody, FoldStep
<1> HIDE DEF Body
<1>3. \A g : IsFold("school_op", <<ids, at>>, acc, ops, n, g)
              <=> g = [s \in SUBSET (1..n) |-> Body(g, s)]
  BY <1>2 DEF IsFold
<1>4. IsFold("school_op", <<ids, at>>, acc, ops, n, fold)
  BY <1>3, FoldExists
<1> HIDE DEF fold
<1> QED BY <1>1, <1>4, FoldRuns

\* The review items of a plan are written one after another (write_reviews).
LEMMA WriteReviewsSteps ==
  ASSUME NEW reg, NEW items, NEW ids, NEW n \in Nat, DOMAIN items = 1..n
  PROVE  \E run : /\ IsRun("review", <<ids>>, reg, items, n, run)
                  /\ WriteReviews(reg, items, ids) = run[n]
<1> DEFINE Body(g, s) == IF s = {} THEN reg
                         ELSE WriteReview(g[s \ {Top(s)}], WithIds(items[Top(s)], ids))
           fold == CHOOSE g : g = [s \in SUBSET (1..n) |-> Body(g, s)]
<1>1. WriteReviews(reg, items, ids) = fold[1..n]
  BY ZenonT(60) DEF WriteReviews, FoldLeft, MapThenFoldSet, Max, Top
<1>2. \A g, s : Body(g, s) = FoldBody("review", <<ids>>, reg, items, g, s)
  BY DEF FoldBody, FoldStep
<1> HIDE DEF Body
<1>3. \A g : IsFold("review", <<ids>>, reg, items, n, g)
              <=> g = [s \in SUBSET (1..n) |-> Body(g, s)]
  BY <1>2 DEF IsFold
<1>4. IsFold("review", <<ids>>, reg, items, n, fold)
  BY <1>3, FoldExists
<1> HIDE DEF fold
<1> QED BY <1>1, <1>4, FoldRuns

\* What a source publishes at once changes it step by step.
LEMMA PublishedSteps ==
  ASSUME NEW src, NEW e, NEW n \in Nat, DOMAIN e = 1..n
  PROVE  \E run : /\ IsRun("edit", <<>>, src, e, n, run)
                  /\ Published(src, e) = run[n]
<1> DEFINE Body(g, s) == IF s = {} THEN src
                         ELSE Edited(g[s \ {Top(s)}], e[Top(s)])
           fold == CHOOSE g : g = [s \in SUBSET (1..n) |-> Body(g, s)]
<1>1. Published(src, e) = fold[1..n]
  BY ZenonT(60) DEF Published, FoldLeft, MapThenFoldSet, Max, Top
<1>2. \A g, s : Body(g, s) = FoldBody("edit", <<>>, src, e, g, s)
  BY DEF FoldBody, FoldStep
<1> HIDE DEF Body
<1>3. \A g : IsFold("edit", <<>>, src, e, n, g)
              <=> g = [s \in SUBSET (1..n) |-> Body(g, s)]
  BY <1>2 DEF IsFold
<1>4. IsFold("edit", <<>>, src, e, n, fold)
  BY <1>3, FoldExists
<1> HIDE DEF fold
<1> QED BY <1>1, <1>4, FoldRuns

-----------------------------------------------------------------------------
(* Sequences and orders. *)

IsSeq(s) == s \in Seq(ToSet(s))

\* Places and elements of a sequence.
LEMMA SeqDomain ==
  ASSUME NEW s, IsSeq(s)
  PROVE  Len(s) \in Nat /\ DOMAIN s = 1..Len(s) /\ \A i \in 1..Len(s) : s[i] \in ToSet(s)
BY DEF IsSeq

\* A typed sequence is a sequence.
LEMMA SeqOfSet ==
  ASSUME NEW S, NEW s \in Seq(S)
  PROVE  IsSeq(s) /\ ToSet(s) \subseteq S
<1>1. s \in [1..Len(s) -> ToSet(s)] /\ Len(s) \in Nat
  BY DEF ToSet
<1> QED BY <1>1 DEF IsSeq, ToSet

\* A function on a range of places is a sequence.
LEMMA SeqOfFunction ==
  ASSUME NEW n \in Nat, NEW s, DOMAIN s = 1..n, s = [i \in 1..n |-> s[i]]
  PROVE  IsSeq(s) /\ Len(s) = n
<1>1. s \in [1..n -> ToSet(s)]
  BY DEF ToSet
<1> QED BY <1>1 DEF IsSeq

\* The empty sequence has no elements.
LEMMA EmptyIsSeq ==
  IsSeq(<<>>) /\ ToSet(<<>>) = {} /\ Len(<<>>) = 0
<1>1. PICK s : s = [i \in 1..0 |-> i]
  OBVIOUS
<1>2. IsSeq(s) /\ Len(s) = 0
  BY <1>1, SeqOfFunction
<1>3. s = <<>>
  BY <1>2, SeqDomain
<1>4. ToSet(s) = {}
  BY <1>1 DEF ToSet
<1> QED BY <1>2, <1>3, <1>4

\* Concatenation, place by place.
LEMMA ConcatSeq ==
  ASSUME NEW s, NEW t, IsSeq(s), IsSeq(t)
  PROVE  /\ IsSeq(s \o t) /\ Len(s \o t) = Len(s) + Len(t)
         /\ ToSet(s \o t) \subseteq ToSet(s) \cup ToSet(t)
         /\ \A i \in 1..Len(s) : (s \o t)[i] = s[i]
         /\ \A i \in (Len(s) + 1)..(Len(s) + Len(t)) : (s \o t)[i] = t[i - Len(s)]
<1> DEFINE S == ToSet(s) \cup ToSet(t)
<1>1. s \in Seq(S) /\ t \in Seq(S)
  BY DEF IsSeq
<1> HIDE DEF S
<1>2. s \o t \in Seq(S)
  BY <1>1
<1>3. IsSeq(s \o t) /\ ToSet(s \o t) \subseteq S
  BY <1>2, SeqOfSet
<1>4. /\ Len(s \o t) = Len(s) + Len(t)
      /\ \A i \in 1..Len(s) : (s \o t)[i] = s[i]
      /\ \A i \in (Len(s) + 1)..(Len(s) + Len(t)) : (s \o t)[i] = t[i - Len(s)]
  BY <1>1
<1> QED BY <1>3, <1>4 DEF S

\* Concatenation joins the elements.
LEMMA ConcatSet ==
  ASSUME NEW s, NEW t, IsSeq(s), IsSeq(t)
  PROVE  IsSeq(s \o t) /\ ToSet(s \o t) = ToSet(s) \cup ToSet(t)
<1>1. PICK m \in Nat, n \in Nat : m = Len(s) /\ n = Len(t)
  BY SeqDomain
<1>2. PICK u : u = s \o t
  OBVIOUS
<1>3. /\ IsSeq(u) /\ Len(u) = m + n /\ ToSet(u) \subseteq ToSet(s) \cup ToSet(t)
      /\ \A i \in 1..m : u[i] = s[i]
      /\ \A i \in (m + 1)..(m + n) : u[i] = t[i - m]
  BY <1>1, <1>2, ConcatSeq
<1>4. /\ DOMAIN s = 1..m /\ DOMAIN t = 1..n
      /\ \A i \in 1..(m + n) : u[i] \in ToSet(u)
  BY <1>1, <1>3, SeqDomain
<1>5. ASSUME NEW x \in ToSet(s) PROVE x \in ToSet(u)
  <2>1. PICK i \in 1..m : s[i] = x
    BY <1>4 DEF ToSet
  <2>2. i \in 1..(m + n) /\ u[i] = x
    BY <1>3, <2>1
  <2> QED BY <1>4, <2>2
<1>6. ASSUME NEW x \in ToSet(t) PROVE x \in ToSet(u)
  <2>1. PICK i \in 1..n : t[i] = x
    BY <1>4 DEF ToSet
  <2>2. m + i \in (m + 1)..(m + n) /\ (m + i) - m = i /\ m + i \in 1..(m + n)
    OBVIOUS
  <2>3. u[m + i] = x
    BY <1>3, <2>1, <2>2
  <2> QED BY <1>4, <2>2, <2>3
<1> QED BY <1>2, <1>3, <1>5, <1>6

\* Concatenation associates.
LEMMA ConcatThrice ==
  ASSUME NEW s, NEW t, NEW u, IsSeq(s), IsSeq(t), IsSeq(u)
  PROVE  (s \o t) \o u = s \o (t \o u)
<1>1. PICK S : S = ToSet(s) \cup ToSet(t) \cup ToSet(u)
  OBVIOUS
<1>2. \A x \in {s, t, u} : x \in Seq(S)
  BY <1>1 DEF IsSeq
<1>3. ASSUME NEW a \in Seq(S), NEW b \in Seq(S), NEW c \in Seq(S)
      PROVE  (a \o b) \o c = a \o (b \o c)
  BY ConcatAssociative
<1> QED BY <1>2, <1>3

\* Appending, place by place.
LEMMA AppendSeq ==
  ASSUME NEW s, NEW x, IsSeq(s)
  PROVE  /\ IsSeq(Append(s, x)) /\ Len(Append(s, x)) = Len(s) + 1
         /\ ToSet(Append(s, x)) \subseteq ToSet(s) \cup {x}
         /\ \A i \in 1..Len(s) : Append(s, x)[i] = s[i]
         /\ Append(s, x)[Len(s) + 1] = x
<1> DEFINE S == ToSet(s) \cup {x}
<1>1. s \in Seq(S) /\ x \in S
  BY DEF IsSeq
<1> HIDE DEF S
<1>2. Append(s, x) \in Seq(S)
  BY <1>1
<1>3. IsSeq(Append(s, x)) /\ ToSet(Append(s, x)) \subseteq S
  BY <1>2, SeqOfSet
<1> QED BY <1>1, <1>3 DEF S

\* before is a strict total order of the elements of S.
Orders(before, S) ==
  /\ \A x \in S : <<x, x>> \notin before
  /\ \A x, y, z \in S : <<x, y>> \in before /\ <<y, z>> \in before => <<x, z>> \in before
  /\ \A x, y \in S : x # y => <<x, y>> \in before \/ <<y, x>> \in before

\* A strict total order puts every element of a finite set at one place.
LEMMA InOrderIsSorted ==
  ASSUME NEW S, IsFiniteSet(S), NEW before, Orders(before, S)
  PROVE  /\ Cardinality(S) \in Nat /\ DOMAIN InOrder(S, before) = 1..Cardinality(S)
         /\ IsSeq(InOrder(S, before))
         /\ \A i \in 1..Cardinality(S) : InOrder(S, before)[i] \in S
         /\ \A i, j \in 1..Cardinality(S) :
              InOrder(S, before)[i] = InOrder(S, before)[j] => i = j
         /\ \A x \in S : \E i \in 1..Cardinality(S) : InOrder(S, before)[i] = x
<1> DEFINE n == Cardinality(S)
           below(x) == {y \in S : <<y, x>> \in before}
           place == [x \in S |-> Cardinality(below(x))]
           order == InOrder(S, before)
<1>1. n \in Nat
  BY FS_CardinalityType
<1>2. ASSUME NEW x \in S PROVE IsFiniteSet(below(x)) /\ place[x] \in 0..(n - 1)
  <2>1. IsFiniteSet(below(x)) /\ Cardinality(below(x)) <= n
    BY FS_Subset
  <2>2. below(x) # S
    BY DEF Orders
  <2>3. Cardinality(below(x)) # n
    BY <2>2, FS_Subset
  <2>4. Cardinality(below(x)) \in Nat
    BY <2>1, FS_CardinalityType
  <2> QED BY <1>1, <2>1, <2>3, <2>4
<1>3. ASSUME NEW x \in S, NEW y \in S, <<x, y>> \in before PROVE place[x] < place[y]
  <2>1. below(x) \subseteq below(y) /\ x \in below(y) /\ x \notin below(x)
    BY <1>3 DEF Orders
  <2>2. IsFiniteSet(below(x)) /\ IsFiniteSet(below(y))
    BY <1>2
  <2>3. Cardinality(below(x)) <= Cardinality(below(y))
        /\ (Cardinality(below(x)) = Cardinality(below(y)) => below(x) = below(y))
    BY <2>1, <2>2, FS_Subset
  <2>4. Cardinality(below(x)) \in Nat /\ Cardinality(below(y)) \in Nat
    BY <2>2, FS_CardinalityType
  <2> QED BY <2>1, <2>3, <2>4
<1>13. \A x \in S : place[x] \in 0..(n - 1)
  BY <1>2
<1> HIDE DEF place
<1>4. ASSUME NEW x \in S, NEW y \in S, place[x] = place[y] PROVE x = y
  <2>1. place[x] \in Int /\ ~(place[x] < place[y]) /\ ~(place[y] < place[x])
    BY <1>1, <1>13, <1>4
  <2> QED BY <1>3, <2>1 DEF Orders
<1>5. place \in Injection(S, 0..(n - 1))
  <2>1. place \in [S -> 0..(n - 1)]
    BY <1>13 DEF place
  <2> QED BY <2>1, <1>4 DEF Injection, IsInjective
<1>6. IsFiniteSet(0..(n - 1)) /\ Cardinality(0..(n - 1)) = n
  BY <1>1, FS_Interval
<1>7. place \in Surjection(S, 0..(n - 1))
  BY <1>5, <1>6, FS_Injection
<1>8. ASSUME NEW i \in 1..n PROVE order[i] \in S /\ place[order[i]] = i - 1
  <2>1. order[i] = CHOOSE x \in S : place[x] = i - 1
    BY DEF InOrder, place
  <2>2. i - 1 \in 0..(n - 1)
    BY <1>1
  <2>3. \E x \in S : place[x] = i - 1
    BY <2>2, <1>7 DEF Surjection
  <2> QED BY <2>1, <2>3
<1>9. DOMAIN order = 1..n /\ order = [i \in 1..n |-> order[i]]
  <2>1. order = [i \in 1..n |-> CHOOSE x \in S : place[x] = i - 1]
    BY DEF InOrder, place
  <2> HIDE DEF order
  <2> QED BY <2>1
<1>10. IsSeq(order)
  BY <1>1, <1>9, SeqOfFunction
<1>11. ASSUME NEW x \in S PROVE \E i \in 1..n : order[i] = x
  <2>1. PICK i \in 1..n : i = place[x] + 1
    BY <1>1, <1>13
  <2>2. place[x] = i - 1
    BY <1>1, <1>13, <2>1
  <2>3. place[order[i]] = place[x] /\ order[i] \in S
    BY <1>8, <2>2
  <2> QED BY <1>4, <2>3
<1>12. \A i, j \in 1..n : order[i] = order[j] => i = j
  <2> SUFFICES ASSUME NEW i \in 1..n, NEW j \in 1..n, order[i] = order[j] PROVE i = j
    OBVIOUS
  <2> QED BY <1>1, <1>8
<1> QED BY <1>1, <1>8, <1>9, <1>10, <1>11, <1>12

\* Ascending enumerates a finite set of numbers.
LEMMA AscendingEnumerates ==
  ASSUME NEW S \in SUBSET Int, IsFiniteSet(S)
  PROVE  /\ Cardinality(S) \in Nat /\ DOMAIN Ascending(S) = 1..Cardinality(S)
         /\ IsSeq(Ascending(S))
         /\ \A i \in 1..Cardinality(S) : Ascending(S)[i] \in S
         /\ \A i, j \in 1..Cardinality(S) : Ascending(S)[i] = Ascending(S)[j] => i = j
         /\ \A x \in S : \E i \in 1..Cardinality(S) : Ascending(S)[i] = x
<1> DEFINE before == {p \in S \X S : p[1] < p[2]}
<1>1. \A x, y \in S : <<x, y>> \in before <=> x < y
  OBVIOUS
<1>2. Orders(before, S)
  BY <1>1 DEF Orders
<1> HIDE DEF before
<1>3. Ascending(S) = InOrder(S, before)
  BY DEF Ascending, before
<1> QED BY <1>2, <1>3, InOrderIsSorted

-----------------------------------------------------------------------------
(* Review items (reviews.rs). *)

Tables == {"municipalities", "numbers", "municipality_slug_history", "schools",
           "slug_history", "former_orgnrs", "reviews"}

\* new is reg but for its review items.
SameButReviews(reg, new) ==
  /\ DOMAIN new = Tables
  /\ new.municipalities = reg.municipalities /\ new.numbers = reg.numbers
  /\ new.municipality_slug_history = reg.municipality_slug_history
  /\ new.schools = reg.schools /\ new.slug_history = reg.slug_history
  /\ new.former_orgnrs = reg.former_orgnrs

\* new has the review items of reg, and perhaps more behind them.
MoreReviews(reg, new) ==
  /\ new.reviews \in Seq(ReviewRows)
  /\ Len(reg.reviews) <= Len(new.reviews)
  /\ \A i \in 1..Len(reg.reviews) : new.reviews[i] = reg.reviews[i]

\* write_reviews adds one row, and only for a question that is not open already.
LEMMA WriteReviewEffect ==
  ASSUME NEW reg, DOMAIN reg = Tables, reg.reviews \in Seq(ReviewRows),
         QuestionsAreOpenOnce(reg), NEW r \in ReviewItems
  PROVE  /\ SameButReviews(reg, WriteReview(reg, r)) /\ MoreReviews(reg, WriteReview(reg, r))
         /\ QuestionsAreOpenOnce(WriteReview(reg, r))
<1>1. CASE Covered(reg, r)
  BY <1>1 DEF WriteReview, SameButReviews, MoreReviews
<1>2. CASE ~Covered(reg, r)
  <2>1. PICK row : row = [open |-> TRUE, kind |-> r.kind, school |-> r.school,
                          other |-> r.other, municipality |-> r.municipality,
                          reason |-> r.reason, code |-> r.code]
    OBVIOUS
  <2>2. row \in ReviewRows /\ ReviewKey(row) = ReviewKey(r)
    BY <2>1 DEF ReviewRows, ReviewItems, ReviewKey
  <2>3. PICK new : new = WriteReview(reg, r)
    OBVIOUS
  <2>4. new = [reg EXCEPT !.reviews = Append(@, row)]
    BY <1>2, <2>1, <2>3 DEF WriteReview
  <2>5. new.reviews = Append(reg.reviews, row)
    BY <2>4 DEF Tables
  <2>6. /\ new.reviews \in Seq(ReviewRows) /\ Len(new.reviews) = Len(reg.reviews) + 1
        /\ \A i \in 1..Len(reg.reviews) : new.reviews[i] = reg.reviews[i]
        /\ new.reviews[Len(reg.reviews) + 1] = row
        /\ Len(reg.reviews) \in Nat /\ DOMAIN reg.reviews = 1..Len(reg.reviews)
        /\ DOMAIN new.reviews = 1..(Len(reg.reviews) + 1)
    BY <2>2, <2>5
  <2>7. SameButReviews(reg, new)
    BY <2>4 DEF SameButReviews, Tables
  <2>8. QuestionsAreOpenOnce(new)
    <3> SUFFICES ASSUME NEW i \in DOMAIN new.reviews, NEW j \in DOMAIN new.reviews,
                        new.reviews[i].open, new.reviews[j].open,
                        ReviewKey(new.reviews[i]) = ReviewKey(new.reviews[j])
                 PROVE  i = j
      BY DEF QuestionsAreOpenOnce
    <3>1. \A k \in 1..Len(reg.reviews) :
            reg.reviews[k].open => ReviewKey(reg.reviews[k]) # ReviewKey(row)
      BY <1>2, <2>2, <2>6 DEF Covered
    <3>2. CASE i \in 1..Len(reg.reviews) /\ j \in 1..Len(reg.reviews)
      BY <2>6, <3>2 DEF QuestionsAreOpenOnce
    <3>3. CASE i = Len(reg.reviews) + 1 /\ j # i
      BY <2>6, <3>1, <3>3
    <3>4. CASE j = Len(reg.reviews) + 1 /\ j # i
      BY <2>6, <3>1, <3>4
    <3> QED BY <2>6, <3>2, <3>3, <3>4
  <2> QED BY <2>3, <2>6, <2>7, <2>8 DEF MoreReviews
<1> QED BY <1>1, <1>2

\* The highest ids before a plan are integers; new rows come after them.
LEMMA HighestBounds ==
  ASSUME NEW S \in SUBSET Nat, IsFiniteSet(S)
  PROVE  Highest(S) \in Nat /\ \A x \in S : x <= Highest(S)
<1>1. PICK n \in Nat : S \subseteq 0..n
  BY FiniteIsBounded
<1>2. PICK s : s = {0} \cup S
  OBVIOUS
<1>3. s \in SUBSET (0..n) /\ s # {}
  BY <1>1, <1>2
<1>4. Highest(S) = Top(s)
  BY <1>2, Zenon DEF Highest, Max, Top
<1>5. Top(s) \in s /\ \A y \in s : y <= Top(s)
  BY <1>3, TopOfPart
<1>6. Top(s) \in 0..n /\ \A y \in S : y \in s
  BY <1>2, <1>3, <1>5
<1> QED BY <1>4, <1>5, <1>6

AreIds(ids) == ids.municipalities \in Nat /\ ids.schools \in Nat

\* NewIds::allocate starts above every id of the tables.
LEMMA NewIdsType ==
  ASSUME NEW reg, IsRegister(reg)
  PROVE  /\ AreIds(NewIds(reg))
         /\ \A m \in DOMAIN reg.municipalities : m <= NewIds(reg).municipalities
         /\ \A s \in DOMAIN reg.schools : s <= NewIds(reg).schools
BY HighestBounds DEF IsRegister, NewIds, AreIds, Ids, None

\* Resolving a review item's references leaves a review item.
LEMMA WithIdsType ==
  ASSUME NEW r \in ReviewItems, NEW ids, AreIds(ids)
  PROVE  WithIds(r, ids) \in ReviewItems
<1>1. \A x \in Int : IdOf(ids.schools, x) \in Int /\ IdOf(ids.municipalities, x) \in Int
  BY DEF AreIds, IdOf
<1>2. r.school \in Int /\ r.other \in Int /\ r.municipality \in Int
  BY DEF ReviewItems
<1> QED BY <1>1, <1>2 DEF ReviewItems, WithIds

\* The review items of a plan leave every question open once, and the rest of
\* the register as it is.
LEMMA WriteReviewsEffect ==
  ASSUME NEW reg, DOMAIN reg = Tables, reg.reviews \in Seq(ReviewRows),
         QuestionsAreOpenOnce(reg), NEW items \in Seq(ReviewItems), NEW ids, AreIds(ids)
  PROVE  /\ SameButReviews(reg, WriteReviews(reg, items, ids))
         /\ MoreReviews(reg, WriteReviews(reg, items, ids))
         /\ QuestionsAreOpenOnce(WriteReviews(reg, items, ids))
<1>1. PICK n \in Nat : n = Len(items)
  OBVIOUS
<1>2. DOMAIN items = 1..n /\ \A i \in 1..n : items[i] \in ReviewItems
  BY <1>1
<1>7. PICK run : /\ IsRun("review", <<ids>>, reg, items, n, run)
                 /\ WriteReviews(reg, items, ids) = run[n]
  BY <1>2, WriteReviewsSteps
<1>3. /\ run[0] = reg
      /\ \A i \in 1..n : run[i] = WriteReview(run[i - 1], WithIds(items[i], ids))
  BY <1>7 DEF IsRun, FoldStep
<1> DEFINE Good(a) == SameButReviews(reg, a) /\ MoreReviews(reg, a) /\ QuestionsAreOpenOnce(a)
           K == {k \in 0..n : Good(run[k])}
<1>4. 0 \in K
  BY <1>3 DEF SameButReviews, MoreReviews
<1>5. ASSUME NEW k \in 0..n, k \in K, k < n PROVE k + 1 \in K
  <2>1. k + 1 \in 1..n /\ (k + 1) - 1 = k /\ k + 1 \in 0..n
    BY <1>5
  <2>2. WithIds(items[k + 1], ids) \in ReviewItems
    BY <1>2, <2>1, WithIdsType
  <2>3. run[k + 1] = WriteReview(run[k], WithIds(items[k + 1], ids))
    BY <1>3, <2>1
  <2>4. Good(run[k])
    BY <1>5
  <2>5. DOMAIN run[k] = Tables /\ run[k].reviews \in Seq(ReviewRows) /\ QuestionsAreOpenOnce(run[k])
    BY <2>4 DEF SameButReviews, MoreReviews
  <2>6. SameButReviews(run[k], run[k + 1]) /\ MoreReviews(run[k], run[k + 1])
        /\ QuestionsAreOpenOnce(run[k + 1])
    BY <2>2, <2>3, <2>5, WriteReviewEffect
  <2>7. SameButReviews(reg, run[k + 1])
    BY <2>4, <2>6 DEF SameButReviews
  <2>8. Len(reg.reviews) \in Nat /\ Len(run[k].reviews) \in Nat /\ Len(run[k + 1].reviews) \in Nat
    BY <2>5, <2>6 DEF MoreReviews
  <2>9. MoreReviews(reg, run[k + 1])
    BY <2>4, <2>6, <2>8, SMTT(60) DEF MoreReviews
  <2>10. Good(run[k + 1])
    BY <2>6, <2>7, <2>9
  <2> HIDE DEF Good
  <2> QED BY <2>1, <2>10
<1>6. n \in K
  <2> HIDE DEF K
  <2>1. Climbs(K, n)
    BY <1>4, <1>5 DEF Climbs
  <2> QED BY <2>1, Climb
<1> QED BY <1>6, <1>7

-----------------------------------------------------------------------------
(* What an operation does to the tables (apply.rs, school_ops.rs). *)

\* The operations the planner writes, as far as the types of the columns need
\* it.
IsMunicipalityOp(op) ==
  \/ op.op = "create" /\ op.new \in Int /\ op.new < 0 /\ op.number \in Nat
  \/ op.op = "renumber" /\ op.to \in Nat
  \/ op.op = "rename"
  \/ op.op = "update_details"

IsSchoolOp(op) ==
  \/ /\ op.op = "create" /\ op.new \in Int /\ op.new < 0 /\ op.municipality \in Int
     /\ op.orgnr \in Nat /\ op.name \in Names
  \/ op.op = "rename" /\ op.register_name \in Names /\ op.display_name \in Names
  \/ op.op = "update_attributes"
  \/ op.op = "move"
  \/ op.op = "close"

\* new keeps every row and history row of reg, and closed schools closed.
Keeps(reg, new) ==
  /\ DOMAIN reg.municipalities \subseteq DOMAIN new.municipalities
  /\ reg.numbers \subseteq new.numbers
  /\ reg.municipality_slug_history \subseteq new.municipality_slug_history
  /\ reg.slug_history \subseteq new.slug_history
  /\ \A s \in DOMAIN reg.schools :
       /\ s \in DOMAIN new.schools
       /\ reg.schools[s].status = "closed" => new.schools[s].status = "closed"
  /\ new.reviews = reg.reviews /\ new.former_orgnrs = reg.former_orgnrs

\* What two steps keep, both keep.
LEMMA KeepsOn ==
  ASSUME NEW a, NEW b, NEW c, Keeps(a, b), Keeps(b, c)
  PROVE  Keeps(a, c)
BY DEF Keeps

\* Adding a row adds one key.
LEMMA KeyAdded ==
  ASSUME NEW f, NEW k, NEW row, IsFiniteSet(DOMAIN f)
  PROVE  DOMAIN Added(f, k, row) = DOMAIN f \cup {k} /\ IsFiniteSet(DOMAIN f \cup {k})
<1>1. IsFiniteSet(DOMAIN f \cup {k})
  BY FS_AddElement
<1> QED BY <1>1 DEF Added

\* Adding a row leaves the others.
LEMMA RowAdded ==
  ASSUME NEW f, NEW k, NEW row
  PROVE  /\ \A x \in DOMAIN f : Added(f, k, row)[x] = f[x]
         /\ k \notin DOMAIN f => Added(f, k, row)[k] = row
         /\ \A x \in DOMAIN f \cup {k} :
              \/ Added(f, k, row)[x] = row
              \/ x \in DOMAIN f /\ Added(f, k, row)[x] = f[x]
BY DEF Added

\* What a municipality operation leaves alone.
SameSchools(reg, new) ==
  /\ new.schools = reg.schools /\ new.slug_history = reg.slug_history

\* apply_municipality_op leaves a register, forgets nothing and touches no school.
LEMMA MunicipalityOpEffect ==
  ASSUME NEW reg, IsRegister(reg), NEW op, IsMunicipalityOp(op), NEW ids, AreIds(ids), NEW at
  PROVE  /\ IsRegister(ApplyMunicipalityOp(reg, op, ids, at))
         /\ Keeps(reg, ApplyMunicipalityOp(reg, op, ids, at))
         /\ SameSchools(reg, ApplyMunicipalityOp(reg, op, ids, at))
<1>0. PICK new : new = ApplyMunicipalityOp(reg, op, ids, at)
  OBVIOUS
<1>1. CASE op.op = "create" /\ op.new \in Int /\ op.new < 0 /\ op.number \in Nat
  <2>1. PICK row : row =
          [number |-> op.number, number_from |-> at, name |-> op.name, slug |-> op.slug,
           details |-> op.details, status |-> "active", source |-> op.source, created_at |-> at]
    OBVIOUS
  <2>2. PICK k \in Ids : k = IdOf(ids.municipalities, op.new)
    BY <1>1 DEF IdOf, AreIds, Ids, None
  <2>3. new = [reg EXCEPT !.municipalities = Added(@, k, row)]
    BY <1>0, <1>1, <2>1, <2>2 DEF ApplyMunicipalityOp, ApplyCreateMunicipality
  <2>4. DOMAIN row = MunicipalityColumns /\ row.number \in Nat
    BY <1>1, <2>1 DEF MunicipalityColumns
  <2>5. /\ DOMAIN new.municipalities = DOMAIN reg.municipalities \cup {k}
        /\ IsFiniteSet(DOMAIN new.municipalities)
        /\ \A x \in DOMAIN new.municipalities :
             new.municipalities[x] = row
               \/ (x \in DOMAIN reg.municipalities /\ new.municipalities[x] = reg.municipalities[x])
    <3>1. new.municipalities = Added(reg.municipalities, k, row)
      BY <2>3 DEF IsRegister
    <3>2. IsFiniteSet(DOMAIN reg.municipalities)
      BY DEF IsRegister
    <3>3. /\ DOMAIN new.municipalities = DOMAIN reg.municipalities \cup {k}
          /\ IsFiniteSet(DOMAIN reg.municipalities \cup {k})
      BY <3>1, <3>2, KeyAdded
    <3>4. \A x \in DOMAIN reg.municipalities \cup {k} :
            \/ new.municipalities[x] = row
            \/ x \in DOMAIN reg.municipalities /\ new.municipalities[x] = reg.municipalities[x]
      BY <3>1, RowAdded
    <3> QED BY <3>3, <3>4
  <2>6. /\ DOMAIN new = DOMAIN reg /\ new.numbers = reg.numbers /\ new.schools = reg.schools
        /\ new.municipality_slug_history = reg.municipality_slug_history
        /\ new.slug_history = reg.slug_history /\ new.former_orgnrs = reg.former_orgnrs
        /\ new.reviews = reg.reviews
    BY <2>3 DEF IsRegister
  <2>7. IsRegister(new)
    BY <2>4, <2>5, <2>6 DEF IsRegister
  <2> QED BY <1>0, <2>5, <2>6, <2>7 DEF Keeps, SameSchools
<1>2. CASE op.op = "renumber" /\ op.to \in Nat
  <2>1. PICK change : change = Max({op.valid_from, reg.municipalities[op.id].number_from + 1})
    OBVIOUS
  <2>2. PICK history : history = MunicipalitySlugHistory(reg, op.id, op.old_slug, at)
    OBVIOUS
  <2>3. PICK numbers : numbers = reg.numbers \cup
          {[municipality_id |-> op.id, number |-> op.from,
            valid_from |-> reg.municipalities[op.id].number_from, valid_until |-> change]}
    OBVIOUS
  <2>4. Renumber(reg, op) =
          [reg EXCEPT !.numbers = numbers,
                      !.municipalities[op.id] = [@ EXCEPT !.number = op.to, !.number_from = change]]
    BY <2>1, <2>3 DEF Renumber, IsRegister
  <2>5. new = [Renumber(reg, op) EXCEPT
                 !.municipality_slug_history = history,
                 !.municipalities[op.id] = [@ EXCEPT !.slug = op.new_slug, !.name = op.name]]
    BY <1>0, <1>2, <2>2 DEF ApplyMunicipalityOp, ApplyRenumber
  <2>6. reg.municipality_slug_history \subseteq history
    BY <2>2, <2>4 DEF MunicipalitySlugHistory, IsRegister
  <2>7. /\ DOMAIN new = DOMAIN reg /\ new.numbers = numbers /\ new.schools = reg.schools
        /\ new.municipality_slug_history = history
        /\ new.slug_history = reg.slug_history /\ new.former_orgnrs = reg.former_orgnrs
        /\ new.reviews = reg.reviews
        /\ DOMAIN new.municipalities = DOMAIN reg.municipalities
    BY <2>4, <2>5 DEF IsRegister
  <2>8. \A m \in DOMAIN reg.municipalities :
          /\ DOMAIN new.municipalities[m] = MunicipalityColumns
          /\ new.municipalities[m].number \in Nat
    BY <1>2, <2>4, <2>5 DEF IsRegister, MunicipalityColumns
  <2>9. IsRegister(new)
    BY <2>7, <2>8 DEF IsRegister
  <2> QED BY <1>0, <2>3, <2>6, <2>7, <2>9 DEF Keeps, SameSchools
<1>3. CASE op.op = "rename"
  <2>1. PICK history : history =
          IF op.old_slug = op.new_slug THEN reg.municipality_slug_history
          ELSE MunicipalitySlugHistory(reg, op.id, op.old_slug, at)
    OBVIOUS
  <2>2. new = [reg EXCEPT !.municipality_slug_history = history,
                          !.municipalities[op.id] = [@ EXCEPT !.name = op.name, !.slug = op.new_slug]]
    BY <1>0, <1>3, <2>1 DEF ApplyMunicipalityOp, ApplyRenameMunicipality
  <2>3. reg.municipality_slug_history \subseteq history
    BY <2>1 DEF MunicipalitySlugHistory
  <2>4. /\ DOMAIN new = DOMAIN reg /\ new.numbers = reg.numbers /\ new.schools = reg.schools
        /\ new.municipality_slug_history = history
        /\ new.slug_history = reg.slug_history /\ new.former_orgnrs = reg.former_orgnrs
        /\ new.reviews = reg.reviews
        /\ DOMAIN new.municipalities = DOMAIN reg.municipalities
    BY <2>2 DEF IsRegister
  <2>5. \A m \in DOMAIN reg.municipalities :
          /\ DOMAIN new.municipalities[m] = MunicipalityColumns
          /\ new.municipalities[m].number \in Nat
    BY <2>2 DEF IsRegister, MunicipalityColumns
  <2>6. IsRegister(new)
    BY <2>4, <2>5 DEF IsRegister
  <2> QED BY <1>0, <2>3, <2>4, <2>6 DEF Keeps, SameSchools
<1>4. CASE op.op = "update_details"
  <2>1. new = [reg EXCEPT !.municipalities[op.id].details = op.details]
    BY <1>0, <1>4 DEF ApplyMunicipalityOp
  <2>2. /\ DOMAIN new = DOMAIN reg /\ new.numbers = reg.numbers /\ new.schools = reg.schools
        /\ new.municipality_slug_history = reg.municipality_slug_history
        /\ new.slug_history = reg.slug_history /\ new.former_orgnrs = reg.former_orgnrs
        /\ new.reviews = reg.reviews
        /\ DOMAIN new.municipalities = DOMAIN reg.municipalities
    BY <2>1 DEF IsRegister
  <2>3. \A m \in DOMAIN reg.municipalities :
          /\ DOMAIN new.municipalities[m] = MunicipalityColumns
          /\ new.municipalities[m].number \in Nat
    BY <2>1 DEF IsRegister, MunicipalityColumns
  <2>4. IsRegister(new)
    BY <2>2, <2>3 DEF IsRegister
  <2> QED BY <1>0, <2>2, <2>4 DEF Keeps, SameSchools
<1> QED BY <1>1, <1>2, <1>3, <1>4 DEF IsMunicipalityOp

\* What a school operation leaves alone.
SameMunicipalities(reg, new) ==
  /\ new.municipalities = reg.municipalities /\ new.numbers = reg.numbers
  /\ new.municipality_slug_history = reg.municipality_slug_history

\* A school operation may add one history row.
LEMMA HistoryGrows ==
  ASSUME NEW reg, NEW id, NEW municipality, NEW slug, NEW at
  PROVE  reg.slug_history \subseteq SchoolSlugHistory(reg, id, municipality, slug, at)
BY DEF SchoolSlugHistory

\* apply_school_op leaves a register, forgets nothing and touches no municipality.
LEMMA SchoolOpEffect ==
  ASSUME NEW reg, IsRegister(reg), NEW op, IsSchoolOp(op), NEW ids, AreIds(ids), NEW at
  PROVE  /\ IsRegister(ApplySchoolOp(reg, op, ids, at))
         /\ Keeps(reg, ApplySchoolOp(reg, op, ids, at))
         /\ SameMunicipalities(reg, ApplySchoolOp(reg, op, ids, at))
<1>0. PICK new : new = ApplySchoolOp(reg, op, ids, at)
  OBVIOUS
<1> DEFINE Rest == /\ DOMAIN new = DOMAIN reg /\ new.numbers = reg.numbers
                   /\ new.municipalities = reg.municipalities
                   /\ new.municipality_slug_history = reg.municipality_slug_history
                   /\ new.former_orgnrs = reg.former_orgnrs /\ new.reviews = reg.reviews
           Row(row) == /\ DOMAIN row = SchoolColumns /\ row.orgnr \in Nat
                       /\ row.display_name \in Names /\ row.register_name \in OptionalName
<1>1. ASSUME Rest, reg.slug_history \subseteq new.slug_history,
             DOMAIN new.schools = DOMAIN reg.schools,
             \A s \in DOMAIN reg.schools :
               /\ Row(new.schools[s])
               /\ reg.schools[s].status = "closed" => new.schools[s].status = "closed"
      PROVE  IsRegister(new) /\ Keeps(reg, new) /\ SameMunicipalities(reg, new)
  BY <1>1 DEF IsRegister, Keeps, SameMunicipalities
<1>2. \A s \in DOMAIN reg.schools : Row(reg.schools[s])
  BY DEF IsRegister
<1>3. CASE /\ op.op = "create" /\ op.new \in Int /\ op.new < 0 /\ op.municipality \in Int
           /\ op.orgnr \in Nat /\ op.name \in Names
  <2>1. PICK row : row =
          [municipality_id |-> IdOf(ids.municipalities, op.municipality), origin |-> "register",
           orgnr |-> op.orgnr, register_name |-> op.name, display_name |-> op.name,
           curated |-> FALSE, slug |-> op.slug, verification |-> op.verification,
           verified_at |-> None, status |-> "active", in_scope |-> TRUE,
           scope_override |-> "unset", post_town |-> op.post_town, successor_id |-> None,
           closure_reason |-> "none", created_at |-> at]
    OBVIOUS
  <2>2. PICK k \in Ids : k = IdOf(ids.schools, op.new)
    BY <1>3 DEF IdOf, AreIds, Ids, None
  <2>3. new = [reg EXCEPT !.schools = Added(@, k, row)]
    BY <1>0, <1>3, <2>1, <2>2 DEF ApplySchoolOp, ApplyCreateSchool
  <2>4. Row(row)
    BY <1>3, <2>1 DEF SchoolColumns, OptionalName
  <2>5. Rest /\ new.slug_history = reg.slug_history /\ new.schools = Added(reg.schools, k, row)
    BY <2>3 DEF IsRegister
  <2>6. IsFiniteSet(DOMAIN reg.schools)
    BY DEF IsRegister
  <2>7. /\ DOMAIN new.schools = DOMAIN reg.schools \cup {k}
        /\ IsFiniteSet(DOMAIN reg.schools \cup {k})
    BY <2>5, <2>6, KeyAdded
  <2>8. /\ \A s \in DOMAIN reg.schools : new.schools[s] = reg.schools[s]
        /\ \A s \in DOMAIN reg.schools \cup {k} :
             \/ new.schools[s] = row
             \/ s \in DOMAIN reg.schools /\ new.schools[s] = reg.schools[s]
    BY <2>5, RowAdded
  <2>9. \A s \in DOMAIN new.schools : Row(new.schools[s])
    BY <1>2, <2>4, <2>7, <2>8
  <2>10. IsRegister(new)
    BY <2>5, <2>7, <2>9 DEF IsRegister
  <2> QED BY <1>0, <2>5, <2>7, <2>8, <2>10 DEF Keeps, SameMunicipalities
<1>4. CASE op.op = "rename" /\ op.register_name \in Names /\ op.display_name \in Names
  <2>1. PICK history : history =
          SchoolSlugHistory(reg, op.id, reg.schools[op.id].municipality_id, op.old, at)
    OBVIOUS
  <2>2. new = [reg EXCEPT !.slug_history = history,
                          !.schools[op.id] = [@ EXCEPT !.register_name = op.register_name,
                                              !.display_name = op.display_name, !.slug = op.new]]
    BY <1>0, <1>4, <2>1 DEF ApplySchoolOp, ApplyRenameSchool
  <2>3. Rest /\ DOMAIN new.schools = DOMAIN reg.schools /\ new.slug_history = history
    BY <2>2 DEF IsRegister
  <2>4. \A s \in DOMAIN reg.schools :
          /\ Row(new.schools[s])
          /\ reg.schools[s].status = "closed" => new.schools[s].status = "closed"
    BY <1>2, <1>4, <2>2 DEF IsRegister, SchoolColumns, OptionalName
  <2> QED BY <1>0, <1>1, <2>1, <2>3, <2>4, HistoryGrows
<1>5. CASE op.op = "update_attributes"
  <2>1. new = [reg EXCEPT !.schools[op.id].post_town = op.post_town]
    BY <1>0, <1>5 DEF ApplySchoolOp, UpdateAttributes
  <2>2. Rest /\ DOMAIN new.schools = DOMAIN reg.schools /\ new.slug_history = reg.slug_history
    BY <2>1 DEF IsRegister
  <2>3. \A s \in DOMAIN reg.schools :
          /\ Row(new.schools[s])
          /\ reg.schools[s].status = "closed" => new.schools[s].status = "closed"
    BY <1>2, <2>1 DEF IsRegister, SchoolColumns
  <2> QED BY <1>0, <1>1, <2>2, <2>3
<1>6. CASE op.op = "move"
  <2>1. PICK history : history = SchoolSlugHistory(reg, op.id, op.from, op.old, at)
    OBVIOUS
  <2>2. PICK to : to = IdOf(ids.municipalities, op.to)
    OBVIOUS
  <2>3. new = [reg EXCEPT !.slug_history = history,
                          !.schools[op.id] = [@ EXCEPT !.municipality_id = to, !.slug = op.new]]
    BY <1>0, <1>6, <2>1, <2>2 DEF ApplySchoolOp, ApplyMove
  <2>4. Rest /\ DOMAIN new.schools = DOMAIN reg.schools /\ new.slug_history = history
    BY <2>3 DEF IsRegister
  <2>5. \A s \in DOMAIN reg.schools :
          /\ Row(new.schools[s])
          /\ reg.schools[s].status = "closed" => new.schools[s].status = "closed"
    BY <1>2, <2>3 DEF IsRegister, SchoolColumns
  <2> QED BY <1>0, <1>1, <2>1, <2>4, <2>5, HistoryGrows
<1>7. CASE op.op = "close"
  <2>1. PICK history : history =
          SchoolSlugHistory(reg, op.id, reg.schools[op.id].municipality_id,
                            reg.schools[op.id].slug, at)
    OBVIOUS
  <2>2. PICK row : row = [reg.schools[op.id] EXCEPT
                            !.status = "closed", !.closure_reason = op.reason, !.slug = NoSlug,
                            !.in_scope = @ /\ op.reason # "out_of_scope"]
    OBVIOUS
  <2>3. new = [reg EXCEPT !.slug_history = history, !.schools[op.id] = row]
    <3>1. ApplySchoolOp(reg, op, ids, at) = ApplyClose(reg, op, at)
      BY <1>7 DEF ApplySchoolOp
    <3> QED BY <1>0, <2>1, <2>2, <3>1, Zenon DEF ApplyClose
  <2>4. Rest /\ DOMAIN new.schools = DOMAIN reg.schools /\ new.slug_history = history
    BY <2>3 DEF IsRegister
  <2>5. \A s \in DOMAIN reg.schools :
          /\ Row(new.schools[s])
          /\ reg.schools[s].status = "closed" => new.schools[s].status = "closed"
    <3>1. ASSUME op.id \in DOMAIN reg.schools
          PROVE  Row(row) /\ row.status = "closed"
      BY <1>2, <2>2, <3>1 DEF IsRegister, SchoolColumns
    <3> HIDE DEF Row
    <3> QED BY <1>2, <2>3, <3>1 DEF IsRegister
  <2> QED BY <1>0, <1>1, <2>1, <2>4, <2>5, HistoryGrows
<1> QED BY <1>3, <1>4, <1>5, <1>6, <1>7 DEF IsSchoolOp

\* The links to successors touch no other column.
LEMMA LinkSuccessorsEffect ==
  ASSUME NEW reg, IsRegister(reg), NEW ops, NEW ids
  PROVE  /\ IsRegister(LinkSuccessors(reg, ops, ids))
         /\ Keeps(reg, LinkSuccessors(reg, ops, ids))
         /\ SameMunicipalities(reg, LinkSuccessors(reg, ops, ids))
         /\ LinkSuccessors(reg, ops, ids).slug_history = reg.slug_history
         /\ DOMAIN LinkSuccessors(reg, ops, ids).schools = DOMAIN reg.schools
         /\ \A s \in DOMAIN reg.schools : \A column \in SchoolColumns \ {"successor_id"} :
              LinkSuccessors(reg, ops, ids).schools[s][column] = reg.schools[s][column]
<1>0. PICK new : new = LinkSuccessors(reg, ops, ids)
  OBVIOUS
<1> DEFINE links == {op \in ToSet(ops) : op.op = "close" /\ op.successor # None}
           successor(s) == (CHOOSE op \in links : op.id = s).successor
           linked == [s \in DOMAIN reg.schools |->
                        IF \E op \in links : op.id = s
                        THEN [reg.schools[s] EXCEPT !.successor_id = IdOf(ids.schools, successor(s))]
                        ELSE reg.schools[s]]
<1>1. new = [reg EXCEPT !.schools = linked]
  BY <1>0 DEF LinkSuccessors, IsRegister
<1>2. ASSUME NEW s \in DOMAIN reg.schools
      PROVE  /\ DOMAIN linked[s] = SchoolColumns
             /\ \A column \in SchoolColumns \ {"successor_id"} :
                  linked[s][column] = reg.schools[s][column]
  <2>1. DOMAIN reg.schools[s] = SchoolColumns
    BY DEF IsRegister
  <2>2. PICK id : id = IdOf(ids.schools, successor(s))
    OBVIOUS
  <2>3. linked[s] = reg.schools[s] \/ linked[s] = [reg.schools[s] EXCEPT !.successor_id = id]
    BY <2>2
  <2> HIDE DEF linked
  <2> QED BY <2>1, <2>3
<1>3. DOMAIN linked = DOMAIN reg.schools
  OBVIOUS
<1> HIDE DEF linked
<1>4. /\ DOMAIN new = DOMAIN reg /\ new.numbers = reg.numbers /\ new.schools = linked
      /\ new.municipalities = reg.municipalities /\ new.slug_history = reg.slug_history
      /\ new.municipality_slug_history = reg.municipality_slug_history
      /\ new.former_orgnrs = reg.former_orgnrs /\ new.reviews = reg.reviews
  BY <1>1 DEF IsRegister
<1>5. \A s \in DOMAIN reg.schools :
        /\ linked[s].orgnr = reg.schools[s].orgnr /\ linked[s].status = reg.schools[s].status
        /\ linked[s].display_name = reg.schools[s].display_name
        /\ linked[s].register_name = reg.schools[s].register_name
  BY <1>2 DEF SchoolColumns
<1>6. IsRegister(new)
  BY <1>2, <1>3, <1>4, <1>5 DEF IsRegister
<1> QED BY <1>0, <1>2, <1>3, <1>4, <1>5, <1>6 DEF Keeps, SameMunicipalities

\* The constraints' check changes no table.
LEMMA CheckedParts ==
  ASSUME NEW acc, NEW new
  PROVE  Checked(acc, new).reg = new /\ (Checked(acc, new).ok <=> acc.ok /\ Constraints(new))
BY DEF Checked

\* The operations one after another leave a register that keeps what the first
\* one has.
LEMMA MunicipalityOpsEffect ==
  ASSUME NEW acc, IsRegister(acc.reg), NEW ops, IsSeq(ops),
         \A op \in ToSet(ops) : IsMunicipalityOp(op), NEW ids, AreIds(ids), NEW at
  PROVE  /\ IsRegister(ApplyMunicipalityOps(acc, ops, ids, at).reg)
         /\ Keeps(acc.reg, ApplyMunicipalityOps(acc, ops, ids, at).reg)
         /\ SameSchools(acc.reg, ApplyMunicipalityOps(acc, ops, ids, at).reg)
<1>1. PICK n \in Nat : DOMAIN ops = 1..n /\ \A i \in 1..n : IsMunicipalityOp(ops[i])
  BY SeqDomain
<1>2. PICK run : /\ IsRun("municipality_op", <<ids, at>>, acc, ops, n, run)
                 /\ ApplyMunicipalityOps(acc, ops, ids, at) = run[n]
  BY <1>1, MunicipalityOpsSteps
<1>3. /\ run[0] = acc
      /\ \A i \in 1..n : run[i] = Checked(run[i - 1], ApplyMunicipalityOp(run[i - 1].reg, ops[i], ids, at))
  BY <1>2 DEF IsRun, FoldStep
<1> DEFINE Good(a) == IsRegister(a.reg) /\ Keeps(acc.reg, a.reg) /\ SameSchools(acc.reg, a.reg)
           K == {k \in 0..n : Good(run[k])}
<1>4. 0 \in K
  BY <1>3 DEF Keeps, SameSchools
<1>5. ASSUME NEW k \in 0..n, k \in K, k < n PROVE k + 1 \in K
  <2>1. k + 1 \in 1..n /\ (k + 1) - 1 = k /\ k + 1 \in 0..n
    BY <1>5
  <2>7. run[k + 1] = Checked(run[k], ApplyMunicipalityOp(run[k].reg, ops[k + 1], ids, at))
    BY <1>3, <2>1
  <2>2. run[k + 1].reg = ApplyMunicipalityOp(run[k].reg, ops[k + 1], ids, at)
    BY <2>7, CheckedParts
  <2>3. IsMunicipalityOp(ops[k + 1])
    BY <1>1, <2>1
  <2>4. Good(run[k])
    BY <1>5
  <2>5. /\ IsRegister(run[k + 1].reg) /\ Keeps(run[k].reg, run[k + 1].reg)
        /\ SameSchools(run[k].reg, run[k + 1].reg)
    BY <2>2, <2>3, <2>4, MunicipalityOpEffect
  <2>6. Good(run[k + 1])
    BY <2>4, <2>5, KeepsOn DEF SameSchools
  <2> HIDE DEF Good
  <2> QED BY <2>1, <2>6
<1>6. n \in K
  <2> HIDE DEF K
  <2>1. Climbs(K, n)
    BY <1>4, <1>5 DEF Climbs
  <2> QED BY <2>1, Climb
<1> QED BY <1>2, <1>6

\* The same of all school operations of a plan.
LEMMA SchoolOpsEffect ==
  ASSUME NEW acc, IsRegister(acc.reg), NEW ops, IsSeq(ops),
         \A op \in ToSet(ops) : IsSchoolOp(op), NEW ids, AreIds(ids), NEW at
  PROVE  /\ IsRegister(ApplySchoolOps(acc, ops, ids, at).reg)
         /\ Keeps(acc.reg, ApplySchoolOps(acc, ops, ids, at).reg)
         /\ SameMunicipalities(acc.reg, ApplySchoolOps(acc, ops, ids, at).reg)
<1>1. PICK n \in Nat : DOMAIN ops = 1..n /\ \A i \in 1..n : IsSchoolOp(ops[i])
  BY SeqDomain
<1>2. PICK run : /\ IsRun("school_op", <<ids, at>>, acc, ops, n, run)
                 /\ ApplySchoolOps(acc, ops, ids, at) = run[n]
  BY <1>1, SchoolOpsSteps
<1>3. /\ run[0] = acc
      /\ \A i \in 1..n : run[i] = Checked(run[i - 1], ApplySchoolOp(run[i - 1].reg, ops[i], ids, at))
  BY <1>2 DEF IsRun, FoldStep
<1> DEFINE Good(a) == IsRegister(a.reg) /\ Keeps(acc.reg, a.reg) /\ SameMunicipalities(acc.reg, a.reg)
           K == {k \in 0..n : Good(run[k])}
<1>4. 0 \in K
  BY <1>3 DEF Keeps, SameMunicipalities
<1>5. ASSUME NEW k \in 0..n, k \in K, k < n PROVE k + 1 \in K
  <2>1. k + 1 \in 1..n /\ (k + 1) - 1 = k /\ k + 1 \in 0..n
    BY <1>5
  <2>7. run[k + 1] = Checked(run[k], ApplySchoolOp(run[k].reg, ops[k + 1], ids, at))
    BY <1>3, <2>1
  <2>2. run[k + 1].reg = ApplySchoolOp(run[k].reg, ops[k + 1], ids, at)
    BY <2>7, CheckedParts
  <2>3. IsSchoolOp(ops[k + 1])
    BY <1>1, <2>1
  <2>4. Good(run[k])
    BY <1>5
  <2>5. /\ IsRegister(run[k + 1].reg) /\ Keeps(run[k].reg, run[k + 1].reg)
        /\ SameMunicipalities(run[k].reg, run[k + 1].reg)
    BY <2>2, <2>3, <2>4, SchoolOpEffect
  <2>6. Good(run[k + 1])
    BY <2>4, <2>5, KeepsOn DEF SameMunicipalities
  <2> HIDE DEF Good
  <2> QED BY <2>1, <2>6
<1>6. n \in K
  <2> HIDE DEF K
  <2>1. Climbs(K, n)
    BY <1>4, <1>5 DEF Climbs
  <2> QED BY <2>1, Climb
<1> QED BY <1>2, <1>6

\* The constraints do not look at the review items.
LEMMA ReviewsAreUnconstrained ==
  ASSUME NEW reg, NEW new, SameButReviews(reg, new), Constraints(reg)
  PROVE  Constraints(new)
BY DEF SameButReviews, Constraints

\* The operations and review items of a plan, as far as the columns need it.
IsPlan(plan) ==
  /\ IsSeq(plan.municipality_ops) /\ \A op \in ToSet(plan.municipality_ops) : IsMunicipalityOp(op)
  /\ IsSeq(plan.school_ops) /\ \A op \in ToSet(plan.school_ops) : IsSchoolOp(op)
  /\ plan.reviews \in Seq(ReviewItems)

\* What the register may become: a register again, with every row, history row
\* and review item it had.
Becomes(reg, new) ==
  /\ IsRegister(new) /\ QuestionsAreOpenOnce(new)
  /\ Keeps(reg, [new EXCEPT !.reviews = reg.reviews]) /\ MoreReviews(reg, new)

\* The parts of apply_plan.
Municipal(reg, plan, at) ==
  ApplyMunicipalityOps([reg |-> reg, ok |-> TRUE], plan.municipality_ops, NewIds(reg), at)
Schooled(reg, plan, at) ==
  ApplySchoolOps(Municipal(reg, plan, at), plan.school_ops, NewIds(reg), at)
Linked(reg, plan, at) == LinkSuccessors(Schooled(reg, plan, at).reg, plan.school_ops, NewIds(reg))

\* apply_plan is its parts one after the other, and succeeds when they do.
LEMMA ApplyPlanParts ==
  ASSUME NEW reg, NEW plan, NEW at
  PROVE  /\ ApplyPlan(reg, plan, at).reg = WriteReviews(Linked(reg, plan, at), plan.reviews, NewIds(reg))
         /\ ApplyPlan(reg, plan, at).ok <=> Schooled(reg, plan, at).ok /\ Constraints(Linked(reg, plan, at))
BY DEF ApplyPlan, Checked, Municipal, Schooled, Linked

\* apply_plan as a whole: a register with every row it had, and one that satisfies the
\* constraints if no operation was refused.
LEMMA ApplyPlanEffect ==
  ASSUME NEW reg, IsRegister(reg), QuestionsAreOpenOnce(reg), NEW plan, IsPlan(plan), NEW at
  PROVE  /\ Becomes(reg, ApplyPlan(reg, plan, at).reg)
         /\ SameButReviews(Linked(reg, plan, at), ApplyPlan(reg, plan, at).reg)
         /\ ApplyPlan(reg, plan, at).ok => Constraints(ApplyPlan(reg, plan, at).reg)
<1>1. AreIds(NewIds(reg))
  BY NewIdsType
<1>2. PICK first : first = [reg |-> reg, ok |-> TRUE]
  OBVIOUS
<1>3. /\ IsRegister(Municipal(reg, plan, at).reg) /\ Keeps(reg, Municipal(reg, plan, at).reg)
  <2>1. first.reg = reg /\ IsRegister(first.reg)
    BY <1>2
  <2>2. Municipal(reg, plan, at) = ApplyMunicipalityOps(first, plan.municipality_ops, NewIds(reg), at)
    BY <1>2 DEF Municipal
  <2> QED BY <1>1, <2>1, <2>2, MunicipalityOpsEffect DEF IsPlan
<1>4. /\ IsRegister(Schooled(reg, plan, at).reg)
      /\ Keeps(Municipal(reg, plan, at).reg, Schooled(reg, plan, at).reg)
  BY <1>1, <1>3, SchoolOpsEffect DEF IsPlan, Schooled
<1>5. IsRegister(Linked(reg, plan, at)) /\ Keeps(Schooled(reg, plan, at).reg, Linked(reg, plan, at))
  BY <1>4, LinkSuccessorsEffect DEF Linked
<1>6. PICK linked : linked = Linked(reg, plan, at)
  OBVIOUS
<1>7. IsRegister(linked) /\ Keeps(reg, linked)
  BY <1>3, <1>4, <1>5, <1>6, KeepsOn
<1>8. PICK new : new = ApplyPlan(reg, plan, at).reg
  OBVIOUS
<1>9. new = WriteReviews(linked, plan.reviews, NewIds(reg))
  BY <1>6, <1>8, ApplyPlanParts
<1>10. /\ DOMAIN linked = Tables /\ linked.reviews = reg.reviews
       /\ linked.reviews \in Seq(ReviewRows) /\ QuestionsAreOpenOnce(linked)
  BY <1>7 DEF IsRegister, Keeps, QuestionsAreOpenOnce, Tables
<1>11. SameButReviews(linked, new) /\ MoreReviews(linked, new) /\ QuestionsAreOpenOnce(new)
  BY <1>1, <1>9, <1>10, WriteReviewsEffect DEF IsPlan
<1>12. IsRegister(new)
  BY <1>7, <1>11 DEF IsRegister, SameButReviews, MoreReviews, Tables
<1>13. Keeps(reg, [new EXCEPT !.reviews = reg.reviews])
  BY <1>7, <1>11 DEF Keeps, SameButReviews, Tables
<1>14. MoreReviews(reg, new)
  BY <1>10, <1>11 DEF MoreReviews
<1>15. ApplyPlan(reg, plan, at).ok => Constraints(new)
  BY <1>6, <1>11, ApplyPlanParts, ReviewsAreUnconstrained
<1> QED BY <1>6, <1>8, <1>11, <1>12, <1>13, <1>14, <1>15 DEF Becomes

-----------------------------------------------------------------------------
(* What the planner reads, and the plan of the municipalities. *)

ActiveMunicipalities(snap) ==
  {m \in DOMAIN snap.municipalities : snap.municipalities[m].status = "active"}

\* The snapshot of a register: rows by their ids, numbers and orgnrs unique.
IsSnapshot(snap) ==
  /\ DOMAIN snap.municipalities \subseteq Ids /\ IsFiniteSet(DOMAIN snap.municipalities)
  /\ \A m \in DOMAIN snap.municipalities : snap.municipalities[m].number \in Nat
  /\ \A m, n \in DOMAIN snap.municipalities :
       snap.municipalities[m].number = snap.municipalities[n].number => m = n
  /\ DOMAIN snap.schools \subseteq Ids /\ IsFiniteSet(DOMAIN snap.schools)
  /\ \A s \in DOMAIN snap.schools :
       /\ snap.schools[s].orgnr \in Nat
       /\ snap.schools[s].display_name \in Names
       /\ snap.schools[s].register_name \in OptionalName
       /\ snap.schools[s].municipality_id \in DOMAIN snap.municipalities
  /\ \A s, t \in DOMAIN snap.schools :
       snap.schools[s].orgnr # None /\ snap.schools[s].orgnr = snap.schools[t].orgnr => s = t

IsInputs(inputs) ==
  /\ DOMAIN inputs.municipalities \subseteq Nat /\ IsFiniteSet(DOMAIN inputs.municipalities)
  /\ inputs.municipalities \in [DOMAIN inputs.municipalities -> KartverketRecords]
  /\ inputs.code_changes \in Seq(SsbChanges)
  /\ DOMAIN inputs.units \subseteq Ids /\ IsFiniteSet(DOMAIN inputs.units)
  /\ inputs.units \in [DOMAIN inputs.units -> NsrUnits]

\* A plan under construction: every active municipality has its number, and a
\* number in use is held by such a municipality or by a row to be created.
IsWorking(snap, st) ==
  /\ DOMAIN st = {"by_number", "working", "blocked", "ops", "reviews", "next_new"}
  /\ DOMAIN st.working = ActiveMunicipalities(snap)
  /\ \A m \in DOMAIN st.working :
       /\ st.working[m].number \in Nat
       /\ st.working[m].number \in DOMAIN st.by_number
       /\ st.by_number[st.working[m].number] = m
  /\ \A n \in DOMAIN st.by_number :
       \/ /\ st.by_number[n] \in DOMAIN st.working
          /\ st.working[st.by_number[n]].number = n
       \/ st.by_number[n] \in Int /\ st.by_number[n] < 0
  /\ st.next_new \in Nat

\* What it asks for so far.
AsksWell(st) ==
  /\ IsSeq(st.ops) /\ \A op \in ToSet(st.ops) : IsMunicipalityOp(op)
  /\ st.reviews \in Seq(ReviewItems)

\* The register before step 1 is a good start.
LEMMA UntouchedWorks ==
  ASSUME NEW snap, IsSnapshot(snap)
  PROVE  IsWorking(snap, Untouched(snap)) /\ AsksWell(Untouched(snap))
<1> DEFINE active == ActiveMunicipalities(snap)
           number(m) == snap.municipalities[m].number
<1>1. PICK by_number : by_number = [n \in {number(m) : m \in active} |->
                                      CHOOSE m \in active : number(m) = n]
  OBVIOUS
<1>2. PICK working : working = [m \in active |-> [number |-> number(m),
                                   name |-> snap.municipalities[m].name,
                                   slug |-> snap.municipalities[m].slug]]
  OBVIOUS
<1>3. PICK st : st = Untouched(snap)
  OBVIOUS
<1>4. st = [by_number |-> by_number, working |-> working, blocked |-> {}, ops |-> <<>>,
            reviews |-> <<>>, next_new |-> 0]
  BY <1>1, <1>2, <1>3 DEF Untouched, ActiveMunicipalities
<1>5. active \subseteq DOMAIN snap.municipalities /\ active \subseteq Ids
  BY DEF ActiveMunicipalities, IsSnapshot
<1> HIDE DEF active
<1>6. \A m \in active : number(m) \in Nat
  BY <1>5 DEF IsSnapshot
<1>7. \A m, n \in active : number(m) = number(n) => m = n
  BY <1>5 DEF IsSnapshot
<1> HIDE DEF number
<1>8. \A m \in active : number(m) \in DOMAIN by_number /\ by_number[number(m)] = m
  BY <1>1, <1>7
<1>9. \A n \in DOMAIN by_number : by_number[n] \in active /\ number(by_number[n]) = n
  BY <1>1
<1>10. DOMAIN working = active /\ \A m \in active : working[m].number = number(m)
  BY <1>2
<1>11. IsWorking(snap, st)
  BY <1>4, <1>6, <1>8, <1>9, <1>10 DEF IsWorking, active
<1>12. AsksWell(st)
  BY <1>4, EmptyIsSeq DEF AsksWell
<1> QED BY <1>3, <1>11, <1>12

\* Every group has changes, and leads somewhere.
LEMMA GroupLeads ==
  ASSUME NEW inputs, IsInputs(inputs), NEW old \in GoneCodes(inputs)
  PROVE  /\ old \in Nat
         /\ Targets(inputs, old) # {} /\ Targets(inputs, old) \subseteq Nat
         /\ old \notin DOMAIN inputs.municipalities
<1>1. \A i \in DOMAIN inputs.code_changes :
        inputs.code_changes[i].old_code \in Nat /\ inputs.code_changes[i].new_code \in Nat
  <2>1. \A i \in DOMAIN inputs.code_changes : inputs.code_changes[i] \in SsbChanges
    BY DEF IsInputs
  <2> QED BY <2>1 DEF SsbChanges
<1>2. PICK i \in CodeChanges(inputs) : inputs.code_changes[i].old_code = old
  BY DEF GoneCodes
<1>3. \A j \in CodeChanges(inputs) :
        /\ j \in DOMAIN inputs.code_changes
        /\ inputs.code_changes[j].old_code \notin DOMAIN inputs.municipalities
  BY DEF CodeChanges
<1>4. i \in Group(inputs, old)
  BY <1>2 DEF Group
<1>5. Targets(inputs, old) # {} /\ Targets(inputs, old) \subseteq Nat
  BY <1>1, <1>3, <1>4 DEF Targets, Group
<1> QED BY <1>1, <1>2, <1>3, <1>5

\* A decision to renumber finds the number held and the new one free.
LEMMA DecisionToRenumber ==
  ASSUME NEW snap, NEW inputs, NEW st, NEW old,
         GroupDecision(snap, inputs, st, old).reason = "renumber", Targets(inputs, old) # {}
  PROVE  /\ Cardinality(Targets(inputs, old)) = 1
         /\ old \in DOMAIN st.by_number
         /\ GroupDecision(snap, inputs, st, old).to \in Targets(inputs, old)
         /\ GroupDecision(snap, inputs, st, old).to \notin DOMAIN st.by_number
<1> DEFINE targets == Targets(inputs, old)
           holder == Holder(st, old)
           to == CHOOSE t \in targets : TRUE
           oneToOne == /\ Cardinality(targets) = 1
                       /\ \A t \in targets : Cardinality(GoneGroupsInto(inputs, t)) = 1
<1>1. holder # None /\ oneToOne /\ to \notin DOMAIN st.by_number
      /\ GroupDecision(snap, inputs, st, old).to = to
  BY DEF GroupDecision
<1>2. to \in targets
  OBVIOUS
<1> QED BY <1>1, <1>2 DEF Holder

\* A group is skipped, renumbered or asked about for one of the schema's reasons.
LEMMA DecisionReason ==
  ASSUME NEW snap, NEW inputs, NEW st, NEW old
  PROVE  GroupDecision(snap, inputs, st, old).reason \in ReviewReasons \cup {"skip", "renumber"}
<1> DEFINE targets == Targets(inputs, old)
           holder == Holder(st, old)
           oneToOne == /\ Cardinality(targets) = 1
                       /\ \A t \in targets : Cardinality(GoneGroupsInto(inputs, t)) = 1
           to == CHOOSE t \in targets : TRUE
           name == IF to \in DOMAIN inputs.municipalities
                   THEN inputs.municipalities[to].name ELSE st.working[holder].name
           A == holder = None /\ targets \subseteq DOMAIN st.by_number
           B == holder = None /\ GoneGroupsInto(inputs, old) # {}
           C == holder = None \/ snap.municipalities[holder].source = "manual"
           D == to \in st.blocked \/ old \in st.blocked
<1>1. GroupDecision(snap, inputs, st, old) =
        IF A THEN [reason |-> "skip"]
        ELSE IF B THEN [reason |-> "unresolved_chain"]
        ELSE IF ~oneToOne THEN [reason |-> IF Cardinality(targets) > 1 THEN "split" ELSE "merge"]
        ELSE IF C THEN [reason |-> "skip"]
        ELSE IF D THEN [reason |-> "unresolved_chain"]
        ELSE IF to \in DOMAIN st.by_number THEN [reason |-> "target_in_use"]
        ELSE IF SlugOf[name] = NoSlug THEN [reason |-> "unsluggable"]
        ELSE [reason |-> "renumber", to |-> to, name |-> name]
  BY Zenon DEF GroupDecision
<1> HIDE DEF A, B, C, D, oneToOne, to, name, targets
<1>2. PICK d : d = GroupDecision(snap, inputs, st, old)
  OBVIOUS
<1>3. \/ d = [reason |-> "skip"]
      \/ d = [reason |-> "unresolved_chain"]
      \/ d = [reason |-> "split"]
      \/ d = [reason |-> "merge"]
      \/ d = [reason |-> "target_in_use"]
      \/ d = [reason |-> "unsluggable"]
      \/ d = [reason |-> "renumber", to |-> to, name |-> name]
  BY <1>1, <1>2
<1>4. \/ d.reason = "skip" \/ d.reason = "unresolved_chain" \/ d.reason = "split"
      \/ d.reason = "merge" \/ d.reason = "target_in_use" \/ d.reason = "unsluggable"
      \/ d.reason = "renumber"
  BY <1>3
<1> QED BY <1>2, <1>4 DEF ReviewReasons

\* Number n is m's, and nothing is to be done with m.
LeftAlone(st, m, n) ==
  /\ n \in DOMAIN st.by_number /\ st.by_number[n] = m
  /\ \A op \in ToSet(st.ops) : op.op = "create" \/ op.id # m

\* A number held by an active municipality is that municipality's own.
LEMMA HeldByActive ==
  ASSUME NEW snap, IsSnapshot(snap), NEW st, IsWorking(snap, st),
         NEW n \in DOMAIN st.by_number, st.by_number[n] \in DOMAIN st.working
  PROVE  st.working[st.by_number[n]].number = n
<1>1. st.by_number[n] \in Nat
  BY DEF IsWorking, ActiveMunicipalities, IsSnapshot, Ids
<1> QED BY <1>1 DEF IsWorking

\* A planned renumber moves one number to one that was free and leaves every other
\* municipality alone.
LEMMA RenumberEffect ==
  ASSUME NEW snap, IsSnapshot(snap), NEW inputs, NEW st, IsWorking(snap, st), AsksWell(st),
         NEW old \in DOMAIN st.by_number, NEW to \in Nat, to \notin DOMAIN st.by_number, NEW name
  PROVE  /\ IsWorking(snap, PlanRenumber(st, inputs, old, to, name))
         /\ AsksWell(PlanRenumber(st, inputs, old, to, name))
         /\ PlanRenumber(st, inputs, old, to, name).blocked = st.blocked
         /\ \A m \in DOMAIN st.working : \A n \in Nat : n # old /\ LeftAlone(st, m, n)
              => LeftAlone(PlanRenumber(st, inputs, old, to, name), m, n)
<1>1. PICK id : id = st.by_number[old]
  OBVIOUS
<1>2. PICK op : op = [op |-> "renumber", id |-> id, from |-> old, to |-> to, name |-> name,
                      valid_from |-> inputs.code_changes[Min(Group(inputs, old))].occurred_on,
                      old_slug |-> st.working[id].slug, new_slug |-> MunicipalitySlug(to, name)]
  OBVIOUS
<1>3. PICK by_number : by_number = [n \in (DOMAIN st.by_number \ {old}) \cup {to} |->
                                      IF n = to THEN id ELSE st.by_number[n]]
  OBVIOUS
<1>4. PICK row : row = [number |-> to, name |-> name, slug |-> MunicipalitySlug(to, name)]
  OBVIOUS
<1>5. PICK new : new = PlanRenumber(st, inputs, old, to, name)
  OBVIOUS
<1>6. new = [st EXCEPT !.ops = Append(@, op), !.by_number = by_number, !.working[id] = row]
  BY <1>1, <1>2, <1>3, <1>4, <1>5 DEF PlanRenumber, IsWorking
<1>7. /\ DOMAIN new = DOMAIN st /\ new.ops = Append(st.ops, op) /\ new.by_number = by_number
      /\ new.working = [st.working EXCEPT ![id] = row]
      /\ new.blocked = st.blocked /\ new.reviews = st.reviews /\ new.next_new = st.next_new
  BY <1>6 DEF IsWorking
<1>8. op.op = "renumber" /\ op.id = id /\ op.to = to /\ row.number = to
  BY <1>2, <1>4
<1>9. DOMAIN new.working = DOMAIN st.working
  BY <1>7
<1>10. \A m \in DOMAIN st.working : m # id => new.working[m] = st.working[m]
  BY <1>7
<1>11. id \in DOMAIN st.working => new.working[id].number = to /\ st.working[id].number = old
  BY <1>1, <1>7, <1>8 DEF IsWorking, ActiveMunicipalities, IsSnapshot, Ids
<1>12. /\ DOMAIN by_number = (DOMAIN st.by_number \ {old}) \cup {to} /\ by_number[to] = id
       /\ \A n \in DOMAIN st.by_number : n # old => by_number[n] = st.by_number[n]
  BY <1>3
<1>13. ASSUME NEW m \in DOMAIN st.working
       PROVE  /\ new.working[m].number \in Nat
              /\ new.working[m].number \in DOMAIN new.by_number
              /\ new.by_number[new.working[m].number] = m
  <2>1. CASE m = id
    BY <1>7, <1>11, <1>12, <2>1
  <2>2. CASE m # id
    <3>1. new.working[m] = st.working[m] /\ st.working[m].number # old
      BY <1>1, <1>10, <2>2 DEF IsWorking
    <3> QED BY <1>7, <1>12, <3>1 DEF IsWorking
  <2> QED BY <2>1, <2>2
<1>14. ASSUME NEW n \in DOMAIN new.by_number
       PROVE  \/ /\ new.by_number[n] \in DOMAIN new.working
                 /\ new.working[new.by_number[n]].number = n
              \/ new.by_number[n] \in Int /\ new.by_number[n] < 0
  <2>1. CASE n = to
    BY <1>1, <1>7, <1>9, <1>11, <1>12, <2>1 DEF IsWorking
  <2>2. CASE n # to
    <3>1. n \in DOMAIN st.by_number /\ n # old /\ new.by_number[n] = st.by_number[n]
      BY <1>7, <1>12, <2>2
    <3>2. st.by_number[n] # id \/ id \notin DOMAIN st.working
      BY <1>11, <3>1, HeldByActive
    <3> QED BY <1>9, <1>10, <3>1, <3>2 DEF IsWorking
  <2> QED BY <2>1, <2>2
<1>15. IsWorking(snap, new)
  BY <1>7, <1>9, <1>13, <1>14 DEF IsWorking
<1>16. IsMunicipalityOp(op)
  BY <1>8 DEF IsMunicipalityOp
<1>17. IsSeq(new.ops) /\ ToSet(new.ops) \subseteq ToSet(st.ops) \cup {op}
  BY <1>7, AppendSeq DEF AsksWell
<1>18. AsksWell(new)
  BY <1>7, <1>16, <1>17 DEF AsksWell
<1>19. ASSUME NEW m \in DOMAIN st.working, NEW n \in Nat, n # old, LeftAlone(st, m, n)
       PROVE  LeftAlone(new, m, n)
  <2>1. n \in DOMAIN st.by_number /\ st.by_number[n] = m /\ st.working[m].number = n
    BY <1>19, HeldByActive DEF LeftAlone
  <2>2. m # id
    BY <1>11, <1>19, <2>1
  <2> QED BY <1>7, <1>8, <1>12, <1>17, <1>19, <2>1, <2>2 DEF LeftAlone
<1> QED BY <1>5, <1>7, <1>15, <1>18, <1>19

\* A number in use has a holder.
LEMMA HolderType ==
  ASSUME NEW snap, IsSnapshot(snap), NEW st, IsWorking(snap, st), NEW n
  PROVE  /\ Holder(st, n) \in Int
         /\ Holder(st, n) # None => n \in DOMAIN st.by_number /\ Holder(st, n) = st.by_number[n]
         /\ n \in DOMAIN st.by_number => Holder(st, n) # None
BY DEF Holder, IsWorking, ActiveMunicipalities, IsSnapshot, Ids, None

\* The questions of step 1 are review items.
LEMMA SplitOrMergeType ==
  ASSUME NEW municipality \in Int, NEW reason \in ReviewReasons, NEW code \in Int
  PROVE  SplitOrMerge(municipality, reason, code) \in ReviewItems
BY DEF SplitOrMerge, Review, ReviewItems, ReviewKinds, None

\* One group of SSB changes: a renumber, a review with the codes blocked, or
\* nothing.
LEMMA PlanGroupEffect ==
  ASSUME NEW snap, IsSnapshot(snap), NEW inputs, IsInputs(inputs),
         NEW st, IsWorking(snap, st), AsksWell(st), NEW old \in GoneCodes(inputs)
  PROVE  /\ IsWorking(snap, PlanGroup(snap, inputs, st, old))
         /\ AsksWell(PlanGroup(snap, inputs, st, old))
         /\ st.blocked \subseteq PlanGroup(snap, inputs, st, old).blocked
         /\ \A m \in DOMAIN st.working : \A n \in Nat : n # old /\ LeftAlone(st, m, n)
              => LeftAlone(PlanGroup(snap, inputs, st, old), m, n)
<1>1. PICK d : d = GroupDecision(snap, inputs, st, old)
  OBVIOUS
<1>2. PICK new : new = PlanGroup(snap, inputs, st, old)
  OBVIOUS
<1>3. old \in Nat /\ Targets(inputs, old) # {} /\ Targets(inputs, old) \subseteq Nat
  BY GroupLeads
<1>4. CASE d.reason = "skip"
  BY <1>1, <1>2, <1>4 DEF PlanGroup
<1>5. CASE d.reason = "renumber"
  <2>1. new = PlanRenumber(st, inputs, old, d.to, d.name)
    BY <1>1, <1>2, <1>5 DEF PlanGroup
  <2>2. d.to \in Nat /\ d.to \notin DOMAIN st.by_number /\ old \in DOMAIN st.by_number
    BY <1>1, <1>3, <1>5, DecisionToRenumber
  <2> QED BY <1>2, <2>1, <2>2, RenumberEffect
<1>6. CASE d.reason # "skip" /\ d.reason # "renumber"
  <2>1. PICK item : item = SplitOrMerge(Holder(st, old), d.reason, old)
    OBVIOUS
  <2>2. PICK more : more = st.blocked \cup {old} \cup Targets(inputs, old)
    OBVIOUS
  <2>3. new = [st EXCEPT !.blocked = more, !.reviews = Append(@, item)]
    BY <1>1, <1>2, <1>6, <2>1, <2>2 DEF PlanGroup
  <2>4. d.reason \in ReviewReasons
    BY <1>1, <1>6, DecisionReason
  <2>5. item \in ReviewItems
    BY <1>3, <2>1, <2>4, HolderType, SplitOrMergeType
  <2>6. /\ DOMAIN new = DOMAIN st /\ new.ops = st.ops /\ new.by_number = st.by_number
        /\ new.working = st.working /\ new.next_new = st.next_new
        /\ new.reviews = Append(st.reviews, item) /\ new.blocked = more
    BY <2>3 DEF IsWorking
  <2>7. IsWorking(snap, new)
    BY <2>6 DEF IsWorking
  <2>8. AsksWell(new)
    BY <2>5, <2>6 DEF AsksWell
  <2> QED BY <1>2, <2>2, <2>6, <2>7, <2>8 DEF LeftAlone
<1> QED BY <1>4, <1>5, <1>6

\* The codes that are gone are finitely many: each has a change of its own.
LEMMA GoneCodesAreFinite ==
  ASSUME NEW inputs, IsInputs(inputs)
  PROVE  IsFiniteSet(GoneCodes(inputs)) /\ GoneCodes(inputs) \subseteq Nat
<1>1. PICK n \in Nat : DOMAIN inputs.code_changes = 1..n
  BY DEF IsInputs
<1>2. CodeChanges(inputs) \subseteq 1..n
  BY <1>1 DEF CodeChanges
<1>3. IsFiniteSet(CodeChanges(inputs))
  <2>1. IsFiniteSet(1..n)
    BY FS_Interval
  <2> QED BY <1>2, <2>1, FS_Subset
<1>4. PICK f : f = [i \in CodeChanges(inputs) |-> inputs.code_changes[i].old_code]
  OBVIOUS
<1>5. f \in Surjection(CodeChanges(inputs), GoneCodes(inputs))
  BY <1>4 DEF Surjection, GoneCodes
<1>6. IsFiniteSet(GoneCodes(inputs))
  BY <1>3, <1>5, FS_Surjection
<1> QED BY <1>6, GroupLeads

\* A group has an earliest change.
LEMMA EarliestChange ==
  ASSUME NEW inputs, IsInputs(inputs), NEW old \in GoneCodes(inputs)
  PROVE  Min({inputs.code_changes[i].occurred_on : i \in Group(inputs, old)}) \in Nat
<1>1. PICK T : T = {inputs.code_changes[i].occurred_on : i \in Group(inputs, old)}
  OBVIOUS
<1>2. \A i \in DOMAIN inputs.code_changes : inputs.code_changes[i].occurred_on \in Nat
  <2>1. \A i \in DOMAIN inputs.code_changes : inputs.code_changes[i] \in SsbChanges
    BY DEF IsInputs
  <2> QED BY <2>1 DEF SsbChanges
<1>3. T \in SUBSET Nat
  BY <1>1, <1>2 DEF Group, CodeChanges
<1>4. T # {}
  <2>1. Group(inputs, old) # {}
    BY GroupLeads DEF Targets
  <2> QED BY <1>1, <2>1
<1>5. PICK m \in T : \A k \in T : m <= k
  BY <1>3, <1>4, LeastNumber
<1>6. Min(T) \in T
  BY <1>5 DEF Min
<1> QED BY <1>1, <1>3, <1>6

\* Every group is planned once.
LEMMA OrderedGroupsEnumerate ==
  ASSUME NEW inputs, IsInputs(inputs)
  PROVE  \E n \in Nat : /\ DOMAIN OrderedGroups(inputs) = 1..n
                        /\ \A i \in 1..n : OrderedGroups(inputs)[i] \in GoneCodes(inputs)
                        /\ \A old \in GoneCodes(inputs) : \E i \in 1..n : OrderedGroups(inputs)[i] = old
<1> DEFINE S == GoneCodes(inputs)
           first == [old \in S |->
                       Min({inputs.code_changes[i].occurred_on : i \in Group(inputs, old)})]
           before == {p \in S \X S : \/ first[p[1]] < first[p[2]]
                                     \/ first[p[1]] = first[p[2]] /\ p[1] < p[2]}
<1>1. OrderedGroups(inputs) = InOrder(S, before)
  BY DEF OrderedGroups
<1>2. \A x \in S : x \in Nat /\ first[x] \in Nat
  BY EarliestChange, GoneCodesAreFinite
<1> HIDE DEF S, first
<1>3. \A x, y \in S : <<x, y>> \in before <=> first[x] < first[y] \/ (first[x] = first[y] /\ x < y)
  OBVIOUS
<1> HIDE DEF before
<1>4. Orders(before, S)
  BY <1>2, <1>3 DEF Orders
<1>5. IsFiniteSet(S)
  BY GoneCodesAreFinite DEF S
<1>6. PICK n \in Nat : n = Cardinality(S)
  BY <1>5, FS_CardinalityType
<1>7. PICK seq : seq = InOrder(S, before)
  OBVIOUS
<1>8. /\ DOMAIN seq = 1..n /\ \A i \in 1..n : seq[i] \in S
      /\ \A x \in S : \E i \in 1..n : seq[i] = x
  BY <1>4, <1>5, <1>6, <1>7, InOrderIsSorted
<1> QED BY <1>1, <1>7, <1>8 DEF S

\* A code split into several is blocked, and its municipality left alone.
LEMMA SplitIsBlocked ==
  ASSUME NEW snap, IsSnapshot(snap), NEW inputs, IsInputs(inputs),
         NEW st, IsWorking(snap, st), NEW old \in GoneCodes(inputs),
         NEW m, LeftAlone(st, m, old), Cardinality(Targets(inputs, old)) # 1
  PROVE  /\ LeftAlone(PlanGroup(snap, inputs, st, old), m, old)
         /\ old \in PlanGroup(snap, inputs, st, old).blocked
<1>1. PICK d : d = GroupDecision(snap, inputs, st, old)
  OBVIOUS
<1>2. Holder(st, old) # None
  BY HolderType DEF LeftAlone
<1>3. d.reason = "split" \/ d.reason = "merge"
  <2>1. d = [reason |-> IF Cardinality(Targets(inputs, old)) > 1 THEN "split" ELSE "merge"]
    BY <1>1, <1>2 DEF GroupDecision
  <2> QED BY <2>1
<1>4. PICK new : new = PlanGroup(snap, inputs, st, old)
  OBVIOUS
<1>5. new = [st EXCEPT !.blocked = @ \cup {old} \cup Targets(inputs, old),
                       !.reviews = Append(@, SplitOrMerge(Holder(st, old), d.reason, old))]
  BY <1>1, <1>3, <1>4 DEF PlanGroup
<1>6. /\ new.ops = st.ops /\ new.by_number = st.by_number
      /\ new.blocked = st.blocked \cup {old} \cup Targets(inputs, old)
  BY <1>5 DEF IsWorking
<1> QED BY <1>4, <1>6 DEF LeftAlone

\* The municipalities whose number SSB splits.
IsSplit(snap, inputs, m) ==
  /\ m \in ActiveMunicipalities(snap)
  /\ snap.municipalities[m].number \in GoneCodes(inputs)
  /\ Cardinality(Targets(inputs, snap.municipalities[m].number)) # 1

\* Step 1, the groups: the plan stays well-formed, and leaves what is split
\* alone.
LEMMA AfterGroupsEffect ==
  ASSUME NEW snap, IsSnapshot(snap), NEW inputs, IsInputs(inputs)
  PROVE  /\ IsWorking(snap, AfterGroups(snap, inputs)) /\ AsksWell(AfterGroups(snap, inputs))
         /\ \A m : IsSplit(snap, inputs, m) =>
              /\ LeftAlone(AfterGroups(snap, inputs), m, snap.municipalities[m].number)
              /\ snap.municipalities[m].number \in AfterGroups(snap, inputs).blocked
<1>1. PICK seq : seq = OrderedGroups(inputs)
  OBVIOUS
<1>2. PICK n \in Nat :
        /\ DOMAIN seq = 1..n /\ \A i \in 1..n : seq[i] \in GoneCodes(inputs)
        /\ \A old \in GoneCodes(inputs) : \E i \in 1..n : seq[i] = old
  BY <1>1, OrderedGroupsEnumerate
<1>3. PICK run : /\ IsRun("group", <<snap, inputs>>, Untouched(snap), seq, n, run)
                 /\ AfterGroups(snap, inputs) = run[n]
  BY <1>1, <1>2, AfterGroupsSteps
<1>4. /\ run[0] = Untouched(snap)
      /\ \A i \in 1..n : run[i] = PlanGroup(snap, inputs, run[i - 1], seq[i])
  BY <1>3 DEF IsRun, FoldStep
<1> DEFINE number(m) == snap.municipalities[m].number
           Good(k) == /\ IsWorking(snap, run[k]) /\ AsksWell(run[k])
                      /\ \A m : IsSplit(snap, inputs, m) =>
                           /\ LeftAlone(run[k], m, number(m))
                           /\ \A i \in 1..k : seq[i] = number(m) => number(m) \in run[k].blocked
           K == {k \in 0..n : Good(k)}
<1>5. 0 \in K
  <2>1. \A m \in ActiveMunicipalities(snap) : LeftAlone(run[0], m, number(m))
    <3>1. run[0].working = [m \in ActiveMunicipalities(snap) |->
             [number |-> number(m), name |-> snap.municipalities[m].name,
              slug |-> snap.municipalities[m].slug]] /\ run[0].ops = <<>>
      BY <1>4 DEF Untouched, ActiveMunicipalities
    <3>2. \A m \in ActiveMunicipalities(snap) : run[0].working[m].number = number(m)
      BY <3>1
    <3> QED BY <1>4, <3>1, <3>2, UntouchedWorks, EmptyIsSeq DEF LeftAlone, IsWorking
  <2>2. Good(0)
    BY <1>4, <2>1, UntouchedWorks DEF IsSplit
  <2> HIDE DEF Good
  <2> QED BY <2>2
<1>6. ASSUME NEW k \in 0..n, k \in K, k < n PROVE k + 1 \in K
  <2>1. k + 1 \in 1..n /\ (k + 1) - 1 = k /\ k + 1 \in 0..n
    BY <1>6
  <2>2. run[k + 1] = PlanGroup(snap, inputs, run[k], seq[k + 1]) /\ seq[k + 1] \in GoneCodes(inputs)
    BY <1>2, <1>4, <2>1
  <2>3. Good(k)
    BY <1>6
  <2>4. /\ IsWorking(snap, run[k + 1]) /\ AsksWell(run[k + 1]) /\ run[k].blocked \subseteq run[k + 1].blocked
        /\ \A m \in DOMAIN run[k].working : \A x \in Nat :
             x # seq[k + 1] /\ LeftAlone(run[k], m, x) => LeftAlone(run[k + 1], m, x)
    BY <2>2, <2>3, PlanGroupEffect
  <2>5. ASSUME NEW m, IsSplit(snap, inputs, m)
        PROVE  /\ LeftAlone(run[k + 1], m, number(m))
               /\ \A i \in 1..(k + 1) : seq[i] = number(m) => number(m) \in run[k + 1].blocked
    <3>1. m \in DOMAIN run[k].working /\ number(m) \in Nat /\ LeftAlone(run[k], m, number(m))
          /\ Cardinality(Targets(inputs, number(m))) # 1
      BY <2>3, <2>5 DEF IsSplit, IsWorking, IsSnapshot, ActiveMunicipalities
    <3>2. \A i \in 1..k : seq[i] = number(m) => number(m) \in run[k + 1].blocked
      BY <2>3, <2>4, <2>5
    <3>3. CASE seq[k + 1] = number(m)
      <4>1. LeftAlone(run[k + 1], m, number(m)) /\ number(m) \in run[k + 1].blocked
        BY <2>2, <2>3, <3>1, <3>3, SplitIsBlocked
      <4> QED BY <4>1
    <3>4. CASE seq[k + 1] # number(m)
      <4>1. LeftAlone(run[k + 1], m, number(m))
        BY <2>4, <3>1, <3>4
      <4>2. \A i \in 1..(k + 1) : i \in 1..k \/ i = k + 1
        OBVIOUS
      <4> HIDE DEF number
      <4> QED BY <3>2, <3>4, <4>1, <4>2
    <3> QED BY <3>3, <3>4
  <2>6. Good(k + 1)
    BY <2>4, <2>5
  <2> HIDE DEF Good
  <2> QED BY <2>1, <2>6
<1>7. n \in K
  <2> HIDE DEF K
  <2>1. Climbs(K, n)
    BY <1>5, <1>6 DEF Climbs
  <2> QED BY <2>1, Climb
<1> QED BY <1>2, <1>3, <1>7 DEF IsSplit

\* The plan of st with more operations, none of which touches a split
\* municipality, and more reviews.
LEMMA PlanGrows ==
  ASSUME NEW snap, NEW st, IsWorking(snap, st), AsksWell(st), NEW new,
         new.by_number = st.by_number, new.working = st.working, new.next_new = st.next_new,
         new.blocked = st.blocked, DOMAIN new = DOMAIN st,
         NEW ops, IsSeq(ops), \A op \in ToSet(ops) : IsMunicipalityOp(op), new.ops = st.ops \o ops,
         NEW items \in Seq(ReviewItems), new.reviews = st.reviews \o items
  PROVE  /\ IsWorking(snap, new) /\ AsksWell(new)
         /\ \A m, n : LeftAlone(st, m, n) /\ (\A op \in ToSet(ops) : op.id # m) => LeftAlone(new, m, n)
<1>1. IsSeq(new.ops) /\ ToSet(new.ops) \subseteq ToSet(st.ops) \cup ToSet(ops)
  BY ConcatSeq DEF AsksWell
<1>2. new.reviews \in Seq(ReviewItems)
  BY DEF AsksWell
<1> QED BY <1>1, <1>2 DEF IsWorking, AsksWell, LeftAlone

\* A sequence of one.
LEMMA OneIsSeq ==
  ASSUME NEW x
  PROVE  IsSeq(<<x>>) /\ ToSet(<<x>>) = {x}
<1>1. <<x>> \in Seq({x})
  OBVIOUS
<1>2. IsSeq(<<x>>) /\ ToSet(<<x>>) \subseteq {x}
  BY <1>1, SeqOfSet
<1>3. x \in ToSet(<<x>>)
  BY DEF ToSet
<1> QED BY <1>2, <1>3

\* Kartverket's record of a municipality: renamed, updated, or asked about.
LEMMA PlanKnownRecordEffect ==
  ASSUME NEW snap, IsSnapshot(snap), NEW st, IsWorking(snap, st), AsksWell(st),
         NEW number \in Nat, NEW r, NEW id \in Int
  PROVE  /\ IsWorking(snap, PlanKnownRecord(snap, st, number, r, id))
         /\ AsksWell(PlanKnownRecord(snap, st, number, r, id))
         /\ PlanKnownRecord(snap, st, number, r, id).blocked = st.blocked
         /\ PlanKnownRecord(snap, st, number, r, id).by_number = st.by_number
         /\ \A m, n : id # m /\ LeftAlone(st, m, n)
              => LeftAlone(PlanKnownRecord(snap, st, number, r, id), m, n)
<1> DEFINE w == st.working[id]
           rename == [op |-> "rename", id |-> id, name |-> r.name, old_slug |-> w.slug,
                      new_slug |-> MunicipalitySlug(number, r.name)]
           update == [op |-> "update_details", id |-> id, details |-> r.details]
           renamed == r.name # w.name
<1>1. PICK one : one = IF renamed /\ SlugOf[r.name] # NoSlug THEN <<rename>> ELSE <<>>
  OBVIOUS
<1>2. PICK two : two = IF snap.municipalities[id].details # r.details THEN <<update>> ELSE <<>>
  OBVIOUS
<1>3. PICK items : items = IF renamed /\ SlugOf[r.name] = NoSlug
                           THEN <<SplitOrMerge(id, "unsluggable", number)>> ELSE <<>>
  OBVIOUS
<1>4. PICK new : new = PlanKnownRecord(snap, st, number, r, id)
  OBVIOUS
<1>5. new = [st EXCEPT !.ops = @ \o one \o two, !.reviews = @ \o items]
  BY <1>1, <1>2, <1>3, <1>4, Zenon DEF PlanKnownRecord
<1>6. /\ rename.op = "rename" /\ rename.id = id /\ IsMunicipalityOp(rename)
      /\ update.op = "update_details" /\ update.id = id /\ IsMunicipalityOp(update)
  BY DEF IsMunicipalityOp
<1> HIDE DEF rename, update, renamed
<1>7. IsSeq(one) /\ \A op \in ToSet(one) : IsMunicipalityOp(op) /\ op.id = id
  BY <1>1, <1>6, OneIsSeq, EmptyIsSeq
<1>8. IsSeq(two) /\ \A op \in ToSet(two) : IsMunicipalityOp(op) /\ op.id = id
  BY <1>2, <1>6, OneIsSeq, EmptyIsSeq
<1>9. items \in Seq(ReviewItems)
  <2>1. SplitOrMerge(id, "unsluggable", number) \in ReviewItems
    <3>1. "unsluggable" \in ReviewReasons
      BY DEF ReviewReasons
    <3> QED BY <3>1, SplitOrMergeType
  <2> QED BY <1>3, <2>1
<1>10. PICK ops : ops = one \o two
  OBVIOUS
<1>11. IsSeq(ops) /\ \A op \in ToSet(ops) : IsMunicipalityOp(op) /\ op.id = id
  BY <1>7, <1>8, <1>10, ConcatSeq
<1>12. (st.ops \o one) \o two = st.ops \o ops
  <2>2. PICK base : base = st.ops
    OBVIOUS
  <2>1. IsSeq(base) /\ IsSeq(one) /\ IsSeq(two)
    BY <1>7, <1>8, <2>2 DEF AsksWell
  <2>3. (base \o one) \o two = base \o (one \o two)
    BY <2>1, ConcatThrice, SMTT(60)
  <2> QED BY <1>10, <2>2, <2>3, Zenon
<1>13. /\ DOMAIN new = DOMAIN st /\ new.by_number = st.by_number /\ new.working = st.working
       /\ new.next_new = st.next_new /\ new.blocked = st.blocked
       /\ new.ops = st.ops \o ops /\ new.reviews = st.reviews \o items
  BY <1>5, <1>12 DEF IsWorking
<1>14. /\ IsWorking(snap, new) /\ AsksWell(new)
       /\ \A m, n : LeftAlone(st, m, n) /\ (\A op \in ToSet(ops) : op.id # m) => LeftAlone(new, m, n)
  BY <1>9, <1>11, <1>13, PlanGrows
<1> QED BY <1>4, <1>11, <1>13, <1>14

\* A municipality a seed creates.
LEMMA PlanCreateMunicipalityEffect ==
  ASSUME NEW snap, IsSnapshot(snap), NEW st, IsWorking(snap, st), AsksWell(st),
         NEW number \in Nat, number \notin DOMAIN st.by_number, NEW name, NEW details, NEW source
  PROVE  /\ IsWorking(snap, PlanCreateMunicipality(st, number, name, details, source))
         /\ AsksWell(PlanCreateMunicipality(st, number, name, details, source))
         /\ PlanCreateMunicipality(st, number, name, details, source).blocked = st.blocked
         /\ \A m, n : LeftAlone(st, m, n)
              => LeftAlone(PlanCreateMunicipality(st, number, name, details, source), m, n)
<1>1. PICK op : op = [op |-> "create", new |-> New(st.next_new), number |-> number,
                      name |-> name, details |-> details, source |-> source,
                      slug |-> MunicipalitySlug(number, name)]
  OBVIOUS
<1>2. PICK k \in Int : k = New(st.next_new) /\ k < 0
  BY DEF IsWorking, New
<1>3. PICK new : new = PlanCreateMunicipality(st, number, name, details, source)
  OBVIOUS
<1>4. new = [st EXCEPT !.ops = Append(@, op), !.by_number = Added(@, number, k), !.next_new = @ + 1]
  BY <1>1, <1>2, <1>3 DEF PlanCreateMunicipality
<1>5. /\ DOMAIN new = DOMAIN st /\ new.by_number = Added(st.by_number, number, k)
      /\ new.working = st.working /\ new.next_new = st.next_new + 1 /\ new.blocked = st.blocked
      /\ new.ops = Append(st.ops, op) /\ new.reviews = st.reviews
  BY <1>4 DEF IsWorking
<1>6. /\ \A n \in DOMAIN st.by_number : new.by_number[n] = st.by_number[n]
      /\ new.by_number[number] = k /\ DOMAIN new.by_number = DOMAIN st.by_number \cup {number}
  BY <1>5 DEF Added
<1>7. IsWorking(snap, new)
  BY <1>2, <1>5, <1>6 DEF IsWorking
<1>8. op.op = "create" /\ IsMunicipalityOp(op)
  BY <1>1, <1>2 DEF IsMunicipalityOp
<1>9. IsSeq(new.ops) /\ ToSet(new.ops) \subseteq ToSet(st.ops) \cup {op}
  BY <1>5, AppendSeq DEF AsksWell
<1> QED BY <1>3, <1>5, <1>6, <1>7, <1>8, <1>9 DEF AsksWell, LeftAlone

\* One record of Kartverket.
LEMMA PlanRecordEffect ==
  ASSUME NEW snap, IsSnapshot(snap), NEW inputs, NEW st, IsWorking(snap, st), AsksWell(st),
         NEW number \in Nat
  PROVE  /\ IsWorking(snap, PlanRecord(snap, inputs, st, number))
         /\ AsksWell(PlanRecord(snap, inputs, st, number))
         /\ PlanRecord(snap, inputs, st, number).blocked = st.blocked
         /\ \A m, n : m \in DOMAIN st.working /\ n # number /\ LeftAlone(st, m, n)
              => LeftAlone(PlanRecord(snap, inputs, st, number), m, n)
<1> DEFINE r == inputs.municipalities[number]
           id == Holder(st, number)
           Ask(reason) == [st EXCEPT !.reviews = Append(@, SplitOrMerge(None, reason, number))]
<1>1. PICK new : new = PlanRecord(snap, inputs, st, number)
  OBVIOUS
<1>2. CASE new = st
  BY <1>1, <1>2
<1>3. ASSUME NEW reason \in ReviewReasons, new = Ask(reason)
      PROVE  /\ IsWorking(snap, new) /\ AsksWell(new) /\ new.blocked = st.blocked
             /\ \A m, n : LeftAlone(st, m, n) => LeftAlone(new, m, n)
  <2>1. SplitOrMerge(None, reason, number) \in ReviewItems
    BY SplitOrMergeType DEF None
  <2>2. /\ DOMAIN new = DOMAIN st /\ new.ops = st.ops /\ new.by_number = st.by_number
        /\ new.working = st.working /\ new.next_new = st.next_new /\ new.blocked = st.blocked
        /\ new.reviews = Append(st.reviews, SplitOrMerge(None, reason, number))
    BY <1>3 DEF IsWorking
  <2> QED BY <2>1, <2>2 DEF IsWorking, AsksWell, LeftAlone
<1>4. CASE new = PlanKnownRecord(snap, st, number, r, id) /\ id # None
  <2>1. id \in Int /\ number \in DOMAIN st.by_number /\ id = st.by_number[number]
    BY <1>4, HolderType
  <2>2. \A m, n : m \in DOMAIN st.working /\ n # number /\ LeftAlone(st, m, n) => id # m
    BY <2>1, HeldByActive DEF LeftAlone
  <2> HIDE DEF id, r
  <2>3. /\ IsWorking(snap, new) /\ AsksWell(new) /\ new.blocked = st.blocked
        /\ \A m, n : id # m /\ LeftAlone(st, m, n) => LeftAlone(new, m, n)
    BY <1>4, <2>1, PlanKnownRecordEffect
  <2> QED BY <1>1, <2>2, <2>3
<1>5. CASE new = PlanCreateMunicipality(st, number, r.name, r.details, "kartverket") /\ id = None
  <2>1. number \notin DOMAIN st.by_number
    BY <1>5, HolderType
  <2> HIDE DEF r
  <2> QED BY <1>1, <1>5, <2>1, PlanCreateMunicipalityEffect
<1>6. \/ new = st
      \/ new = Ask("unknown_number")
      \/ new = Ask("unsluggable")
      \/ new = PlanKnownRecord(snap, st, number, r, id) /\ id # None
      \/ new = PlanCreateMunicipality(st, number, r.name, r.details, "kartverket") /\ id = None
  BY <1>1, Zenon DEF PlanRecord
<1>7. "unknown_number" \in ReviewReasons /\ "unsluggable" \in ReviewReasons
  BY DEF ReviewReasons
<1> HIDE DEF Ask, id, r
<1> QED BY <1>1, <1>2, <1>3, <1>4, <1>5, <1>6, <1>7

\* Step 1, Kartverket's records.
LEMMA AfterRecordsEffect ==
  ASSUME NEW snap, IsSnapshot(snap), NEW inputs, IsInputs(inputs)
  PROVE  /\ IsWorking(snap, AfterRecords(snap, inputs)) /\ AsksWell(AfterRecords(snap, inputs))
         /\ \A m : IsSplit(snap, inputs, m) =>
              /\ LeftAlone(AfterRecords(snap, inputs), m, snap.municipalities[m].number)
              /\ snap.municipalities[m].number \in AfterRecords(snap, inputs).blocked
<1>1. PICK seq : seq = SortedRecords(inputs)
  OBVIOUS
<1>2. PICK n \in Nat : DOMAIN seq = 1..n /\ \A i \in 1..n : seq[i] \in DOMAIN inputs.municipalities
  <2>1. DOMAIN inputs.municipalities \in SUBSET Int /\ IsFiniteSet(DOMAIN inputs.municipalities)
    BY DEF IsInputs
  <2> QED BY <1>1, <2>1, AscendingEnumerates DEF SortedRecords
<1>3. PICK run : /\ IsRun("record", <<snap, inputs>>, AfterGroups(snap, inputs), seq, n, run)
                 /\ AfterRecords(snap, inputs) = run[n]
  BY <1>1, <1>2, AfterRecordsSteps
<1>4. /\ run[0] = AfterGroups(snap, inputs)
      /\ \A i \in 1..n : run[i] = PlanRecord(snap, inputs, run[i - 1], seq[i])
  BY <1>3 DEF IsRun, FoldStep
<1> DEFINE number(m) == snap.municipalities[m].number
           Good(k) == /\ IsWorking(snap, run[k]) /\ AsksWell(run[k])
                      /\ \A m : IsSplit(snap, inputs, m) =>
                           LeftAlone(run[k], m, number(m)) /\ number(m) \in run[k].blocked
           K == {k \in 0..n : Good(k)}
<1>5. 0 \in K
  BY <1>4, AfterGroupsEffect
<1>6. ASSUME NEW k \in 0..n, k \in K, k < n PROVE k + 1 \in K
  <2>1. k + 1 \in 1..n /\ (k + 1) - 1 = k /\ k + 1 \in 0..n
    BY <1>6
  <2>2. /\ run[k + 1] = PlanRecord(snap, inputs, run[k], seq[k + 1])
        /\ seq[k + 1] \in DOMAIN inputs.municipalities
    BY <1>2, <1>4, <2>1
  <2>3. Good(k)
    BY <1>6
  <2>4. seq[k + 1] \in Nat
    BY <2>2 DEF IsInputs
  <2>5. /\ IsWorking(snap, run[k + 1]) /\ AsksWell(run[k + 1]) /\ run[k + 1].blocked = run[k].blocked
        /\ \A m, x : m \in DOMAIN run[k].working /\ x # seq[k + 1] /\ LeftAlone(run[k], m, x)
             => LeftAlone(run[k + 1], m, x)
    <3>1. PICK a, b, code : a = run[k] /\ b = run[k + 1] /\ code = seq[k + 1]
      OBVIOUS
    <3>2. IsWorking(snap, a) /\ AsksWell(a) /\ code \in Nat /\ b = PlanRecord(snap, inputs, a, code)
          /\ code \in DOMAIN inputs.municipalities
      BY <2>2, <2>3, <2>4, <3>1
    <3>3. /\ IsWorking(snap, b) /\ AsksWell(b) /\ b.blocked = a.blocked
          /\ \A m, x : m \in DOMAIN a.working /\ x # code /\ LeftAlone(a, m, x) => LeftAlone(b, m, x)
      <4> HIDE DEF K, Good
      <4> QED BY <3>2, PlanRecordEffect
    <3> QED BY <3>1, <3>3
  <2>6. ASSUME NEW m, IsSplit(snap, inputs, m)
        PROVE  LeftAlone(run[k + 1], m, number(m)) /\ number(m) \in run[k + 1].blocked
    <3>1. m \in DOMAIN run[k].working /\ number(m) # seq[k + 1]
      BY <2>2, <2>3, <2>6, GroupLeads DEF IsSplit, IsWorking
    <3> QED BY <2>3, <2>5, <2>6, <3>1
  <2>7. Good(k + 1)
    BY <2>5, <2>6
  <2> HIDE DEF Good
  <2> QED BY <2>1, <2>7
<1>7. n \in K
  <2> HIDE DEF K
  <2>1. Climbs(K, n)
    BY <1>5, <1>6 DEF Climbs
  <2> QED BY <2>1, Climb
<1> QED BY <1>3, <1>7

\* A function on the places of a sequence, with values in S, is a sequence.
LEMMA SeqOfItems ==
  ASSUME NEW n \in Nat, NEW S, NEW f, DOMAIN f = 1..n, f = [i \in 1..n |-> f[i]],
         \A i \in 1..n : f[i] \in S
  PROVE  f \in Seq(S)
<1>1. f \in [1..n -> S]
  OBVIOUS
<1> QED BY <1>1

\* Step 1 as a whole.
LEMMA PlanMunicipalitiesEffect ==
  ASSUME NEW snap, IsSnapshot(snap), NEW inputs, IsInputs(inputs)
  PROVE  /\ IsWorking(snap, PlanMunicipalities(snap, inputs))
         /\ AsksWell(PlanMunicipalities(snap, inputs))
         /\ \A m : IsSplit(snap, inputs, m) =>
              /\ LeftAlone(PlanMunicipalities(snap, inputs), m, snap.municipalities[m].number)
              /\ snap.municipalities[m].number \in PlanMunicipalities(snap, inputs).blocked
<1>1. PICK st : st = AfterRecords(snap, inputs)
  OBVIOUS
<1>2. PICK mid : mid = WithAbsent(snap, inputs, st)
  OBVIOUS
<1>3. PICK new : new = WithSvalbard(inputs, mid)
  OBVIOUS
<1>4. new = PlanMunicipalities(snap, inputs)
  BY <1>1, <1>2, <1>3 DEF PlanMunicipalities
<1>5. /\ IsWorking(snap, st) /\ AsksWell(st)
      /\ \A m : IsSplit(snap, inputs, m) =>
           /\ LeftAlone(st, m, snap.municipalities[m].number)
           /\ snap.municipalities[m].number \in st.blocked
  BY <1>1, AfterRecordsEffect
<1>6. PICK S : S = AbsentFromKartverket(snap, inputs, st)
  OBVIOUS
<1>7. S \subseteq DOMAIN st.working
  BY <1>6 DEF AbsentFromKartverket
<1>8. S \in SUBSET Int /\ IsFiniteSet(S)
  <2>1. S \subseteq DOMAIN snap.municipalities
    BY <1>5, <1>7 DEF IsWorking, ActiveMunicipalities
  <2>2. IsFiniteSet(S)
    BY <2>1, FS_Subset DEF IsSnapshot
  <2> QED BY <2>1, <2>2 DEF IsSnapshot, Ids
<1>9. PICK n \in Nat : n = Cardinality(S)
  BY <1>8, FS_CardinalityType
<1>10. \A i \in 1..n : Ascending(S)[i] \in S
  BY <1>8, <1>9, AscendingEnumerates
<1>11. PICK items : items = [i \in 1..n |-> SplitOrMerge(Ascending(S)[i], "absent_from_kartverket",
                                                         st.working[Ascending(S)[i]].number)]
  OBVIOUS
<1>12. mid = [st EXCEPT !.reviews = @ \o items]
  BY <1>2, <1>6, <1>9, <1>11 DEF WithAbsent, Each
<1>13. items \in Seq(ReviewItems)
  <2>1. ASSUME NEW i \in 1..n PROVE items[i] \in ReviewItems
    <3>1. PICK id \in S : id = Ascending(S)[i]
      BY <1>10
    <3>2. id \in Int /\ st.working[id].number \in Int
      BY <1>5, <1>7, <1>8 DEF IsWorking
    <3>3. "absent_from_kartverket" \in ReviewReasons
      BY DEF ReviewReasons
    <3>4. items[i] = SplitOrMerge(id, "absent_from_kartverket", st.working[id].number)
      BY <1>11, <3>1
    <3> QED BY <3>2, <3>3, <3>4, SplitOrMergeType
  <2>2. DOMAIN items = 1..n /\ items = [i \in 1..n |-> items[i]]
    BY <1>11
  <2> QED BY <2>1, <2>2, SeqOfItems
<1>14. /\ DOMAIN mid = DOMAIN st /\ mid.ops = st.ops /\ mid.by_number = st.by_number
       /\ mid.working = st.working /\ mid.next_new = st.next_new /\ mid.blocked = st.blocked
       /\ mid.reviews = st.reviews \o items
  BY <1>5, <1>12 DEF IsWorking
<1>15. /\ IsWorking(snap, mid) /\ AsksWell(mid)
       /\ \A m, x : LeftAlone(st, m, x) => LeftAlone(mid, m, x)
  <2>1. IsWorking(snap, mid)
    BY <1>5, <1>14 DEF IsWorking
  <2>2. AsksWell(mid)
    BY <1>5, <1>13, <1>14 DEF AsksWell
  <2> QED BY <1>14, <2>1, <2>2 DEF LeftAlone
<1>16. CASE SvalbardNeeded(inputs, mid)
  <2>1. new = PlanCreateMunicipality(mid, Svalbard, SvalbardName, NoDetails, "manual")
    BY <1>3, <1>16 DEF WithSvalbard
  <2>2. Svalbard \in Nat /\ Svalbard \notin DOMAIN mid.by_number
    BY <1>16, NumbersAssumption DEF SvalbardNeeded
  <2>3. /\ IsWorking(snap, new) /\ AsksWell(new) /\ new.blocked = mid.blocked
        /\ \A m, x : LeftAlone(mid, m, x) => LeftAlone(new, m, x)
    BY <1>15, <2>1, <2>2, PlanCreateMunicipalityEffect
  <2> QED BY <1>4, <1>5, <1>14, <1>15, <2>3
<1>17. CASE ~SvalbardNeeded(inputs, mid)
  BY <1>3, <1>4, <1>5, <1>14, <1>15, <1>17 DEF WithSvalbard
<1> QED BY <1>16, <1>17

-----------------------------------------------------------------------------
(* The order of the matches (place_all).                                   *)

IsFraction(x) == x[1] \in Nat /\ x[2] \in Nat
Denominator(x) == IF x[2] = 0 THEN 1 ELSE x[2]

\* Comparing by cross products is comparing fractions.
LEMMA CrossProducts ==
  ASSUME NEW a \in Nat, NEW b \in Nat, NEW c \in Nat,
         NEW d \in Nat \ {0}, NEW e \in Nat \ {0}, NEW f \in Nat \ {0},
         a * e >= b * d, b * f >= c * e
  PROVE  /\ a * f >= c * d
         /\ a * e > b * d \/ b * f > c * e => a * f > c * d
<1>1. (a * e) * f >= (b * d) * f /\ (b * f) * d >= (c * e) * d
  OBVIOUS
<1>2. (b * d) * f = (b * f) * d
  OBVIOUS
<1>3. (a * e) * f = (a * f) * e /\ (c * e) * d = (c * d) * e
  OBVIOUS
<1>4. PICK x \in Nat, y \in Nat : x = a * f /\ y = c * d
  OBVIOUS
<1>5. x * e >= y * e
  BY <1>1, <1>2, <1>3, <1>4
<1>6. x >= y
  BY <1>5
<1>7. ASSUME a * e > b * d \/ b * f > c * e PROVE x > y
  <2>1. (a * e) * f > (b * d) * f \/ (b * f) * d > (c * e) * d
    BY <1>7
  <2>2. x * e > y * e
    BY <1>1, <1>2, <1>3, <1>4, <2>1
  <2> QED BY <2>2
<1> QED BY <1>4, <1>6, <1>7

\* MoreSimilar is a weak order of fractions.
LEMMA MoreSimilarOrders ==
  ASSUME NEW x, NEW y, NEW z, IsFraction(x), IsFraction(y), IsFraction(z)
  PROVE  /\ ~MoreSimilar(x, x)
         /\ ~MoreSimilar(x, y) \/ ~MoreSimilar(y, x)
         /\ ~MoreSimilar(y, x) /\ ~MoreSimilar(z, y) => ~MoreSimilar(z, x)
         /\ /\ ~MoreSimilar(y, x) /\ ~MoreSimilar(z, y)
            /\ MoreSimilar(x, y) \/ MoreSimilar(y, z)
            => MoreSimilar(x, z)
<1>1. PICK a \in Nat, b \in Nat, c \in Nat : a = x[1] /\ b = y[1] /\ c = z[1]
  BY DEF IsFraction
<1>2. PICK d \in Nat \ {0}, e \in Nat \ {0}, f \in Nat \ {0} :
        d = Denominator(x) /\ e = Denominator(y) /\ f = Denominator(z)
  BY DEF IsFraction, Denominator
<1>3. /\ MoreSimilar(x, x) <=> a * d > a * d
      /\ MoreSimilar(x, y) <=> a * e > b * d
      /\ MoreSimilar(y, x) <=> b * d > a * e
      /\ MoreSimilar(y, z) <=> b * f > c * e
      /\ MoreSimilar(z, y) <=> c * e > b * f
      /\ MoreSimilar(x, z) <=> a * f > c * d
      /\ MoreSimilar(z, x) <=> c * d > a * f
  BY <1>1, <1>2 DEF MoreSimilar, Denominator
<1>4. /\ a * d \in Int /\ a * e \in Int /\ b * d \in Int /\ b * f \in Int /\ c * e \in Int
      /\ a * f \in Int /\ c * d \in Int
  OBVIOUS
<1>5. a * e >= b * d /\ b * f >= c * e =>
        /\ a * f >= c * d
        /\ a * e > b * d \/ b * f > c * e => a * f > c * d
  BY CrossProducts
<1> QED BY <1>3, <1>4, <1>5

\* A similarity is a fraction, for any two names.
LEMMA SimilarityIsFraction ==
  ASSUME NEW a \in Names, NEW b \in Names
  PROVE  IsFraction(Similarity(a, b))
<1>1. IsFiniteSet(Trigrams[a]) /\ IsFiniteSet(Trigrams[b])
  BY NamesAssumption
<1>2. IsFiniteSet(Trigrams[a] \cap Trigrams[b]) /\ IsFiniteSet(Trigrams[a] \cup Trigrams[b])
  BY <1>1, FS_Union, FS_Intersection
<1> QED BY <1>2, FS_CardinalityType DEF IsFraction, Similarity

\* The similarity of two names is a fraction, so it can be compared.
LEMMA NameSimilarityIsFraction ==
  ASSUME NEW school, school.display_name \in Names, school.register_name \in OptionalName,
         NEW name \in Names
  PROVE  IsFraction(NameSimilarity(school, name))
<1>1. school.register_name # NoName => school.register_name \in Names
  BY DEF OptionalName
<1> QED BY <1>1, SimilarityIsFraction DEF NameSimilarity

\* Matches of units with schools that have an orgnr.
AreMatches(snap, inputs, matches) ==
  /\ IsFiniteSet(matches)
  /\ \A m \in matches :
       /\ m = [unit |-> m.unit, pred |-> m.pred]
       /\ m.unit \in DOMAIN inputs.units
       /\ m.pred \in DOMAIN snap.schools /\ snap.schools[m.pred].orgnr # None

\* The tie-break is an order.
LEMMA EarlierOrders ==
  ASSUME NEW snap, IsSnapshot(snap), NEW inputs, IsInputs(inputs), NEW matches,
         AreMatches(snap, inputs, matches), NEW fauClosing,
         NEW a \in matches, NEW b \in matches, NEW c \in matches
  PROVE  /\ ~EarlierMatch(snap, fauClosing, a, a)
         /\ EarlierMatch(snap, fauClosing, a, b) /\ EarlierMatch(snap, fauClosing, b, c)
              => EarlierMatch(snap, fauClosing, a, c)
         /\ a # b => EarlierMatch(snap, fauClosing, a, b) \/ EarlierMatch(snap, fauClosing, b, a)
<1> DEFINE orgnr(m) == snap.schools[m.pred].orgnr
           fau(m) == m.pred \in fauClosing
<1>1. \A m \in matches : m.unit \in Nat /\ orgnr(m) \in Nat /\ fau(m) \in BOOLEAN
  BY DEF AreMatches, IsSnapshot, IsInputs, Ids
<1>2. \A m, n \in matches : m.unit = n.unit /\ orgnr(m) = orgnr(n) => m = n
  BY DEF AreMatches, IsSnapshot
<1>3. \A m, n \in matches :
        EarlierMatch(snap, fauClosing, m, n) <=>
          \/ m.unit < n.unit
          \/ /\ m.unit = n.unit
             /\ \/ fau(m) /\ ~fau(n)
                \/ (fau(m) <=> fau(n)) /\ orgnr(m) < orgnr(n)
  BY DEF EarlierMatch
<1> HIDE DEF orgnr, fau
<1> QED BY <1>1, <1>2, <1>3

\* A weak order, its ties broken by a total one, is a total order.
LEMMA TiesBroken ==
  ASSUME NEW S, NEW more, NEW first, NEW before, Orders(first, S),
         \A a, b \in S : <<a, b>> \in more => <<b, a>> \notin more,
         \A a, b, c \in S : <<b, a>> \notin more /\ <<c, b>> \notin more =>
           /\ <<c, a>> \notin more
           /\ <<a, b>> \in more \/ <<b, c>> \in more => <<a, c>> \in more,
         \A a, b \in S : <<a, b>> \in before <=>
           <<a, b>> \in more \/ (<<b, a>> \notin more /\ <<a, b>> \in first)
  PROVE  Orders(before, S)
<1>1. ASSUME NEW a \in S PROVE <<a, a>> \notin before
  BY DEF Orders
<1>2. ASSUME NEW a \in S, NEW b \in S, NEW c \in S, <<a, b>> \in before, <<b, c>> \in before
      PROVE  <<a, c>> \in before
  <2>1. <<b, a>> \notin more /\ <<c, b>> \notin more
    BY <1>2
  <2>2. CASE <<a, b>> \in more \/ <<b, c>> \in more
    BY <2>1, <2>2
  <2>3. CASE ~(<<a, b>> \in more \/ <<b, c>> \in more)
    <3>1. <<a, b>> \in first /\ <<b, c>> \in first
      BY <1>2, <2>3
    <3>2. <<a, c>> \in first /\ <<c, a>> \notin more
      BY <2>1, <3>1 DEF Orders
    <3> QED BY <3>2
  <2> QED BY <2>2, <2>3
<1>3. ASSUME NEW a \in S, NEW b \in S, a # b PROVE <<a, b>> \in before \/ <<b, a>> \in before
  <2>1. <<a, b>> \in first \/ <<b, a>> \in first
    BY <1>3 DEF Orders
  <2> QED BY <2>1
<1> QED BY <1>1, <1>2, <1>3 DEF Orders

\* BetterMatch puts any two matches in one order.
LEMMA BetterMatchOrders ==
  ASSUME NEW snap, IsSnapshot(snap), NEW inputs, IsInputs(inputs), NEW matches,
         AreMatches(snap, inputs, matches), NEW fauClosing
  PROVE  Orders({p \in matches \X matches : BetterMatch(snap, inputs, fauClosing, p[1], p[2])},
                matches)
<1> DEFINE sim(m) == NameSimilarity(snap.schools[m.pred], inputs.units[m.unit].name)
<1>1. \A m \in matches : IsFraction(sim(m))
  <2> TAKE m \in matches
  <2>1. /\ snap.schools[m.pred].display_name \in Names
        /\ snap.schools[m.pred].register_name \in OptionalName
    BY DEF AreMatches, IsSnapshot
  <2>2. inputs.units[m.unit].name \in Names
    <3>1. inputs.units[m.unit] \in NsrUnits
      BY DEF AreMatches, IsInputs
    <3> QED BY <3>1 DEF NsrUnits
  <2> QED BY <2>1, <2>2, NameSimilarityIsFraction
<1>2. PICK more : more = {p \in matches \X matches : MoreSimilar(sim(p[1]), sim(p[2]))}
  OBVIOUS
<1>3. PICK first : first = {p \in matches \X matches :
                              EarlierMatch(snap, fauClosing, p[1], p[2])}
  OBVIOUS
<1>4. PICK before : before = {p \in matches \X matches :
                                BetterMatch(snap, inputs, fauClosing, p[1], p[2])}
  OBVIOUS
<1>5. \A a, b \in matches : <<a, b>> \in before <=>
        <<a, b>> \in more \/ (<<b, a>> \notin more /\ <<a, b>> \in first)
  <2> TAKE a, b \in matches
  <2>1. <<a, b>> \in before <=> BetterMatch(snap, inputs, fauClosing, a, b)
    BY <1>4
  <2>2. /\ <<a, b>> \in more <=> MoreSimilar(sim(a), sim(b))
        /\ <<b, a>> \in more <=> MoreSimilar(sim(b), sim(a))
    <3> HIDE DEF sim
    <3> QED BY <1>2
  <2>3. <<a, b>> \in first <=> EarlierMatch(snap, fauClosing, a, b)
    BY <1>3
  <2> QED BY <2>1, <2>2, <2>3, Zenon DEF BetterMatch
<1> HIDE DEF sim
<1>6. ASSUME NEW a \in matches, NEW b \in matches
      PROVE  <<a, b>> \in more <=> MoreSimilar(sim(a), sim(b))
  BY <1>2
<1>7. ASSUME NEW a \in matches, NEW b \in matches, NEW c \in matches
      PROVE  /\ <<a, b>> \in more => <<b, a>> \notin more
             /\ <<b, a>> \notin more /\ <<c, b>> \notin more =>
                  /\ <<c, a>> \notin more
                  /\ <<a, b>> \in more \/ <<b, c>> \in more => <<a, c>> \in more
  <2>1. PICK x, y, z : x = sim(a) /\ y = sim(b) /\ z = sim(c)
    OBVIOUS
  <2>2. IsFraction(x) /\ IsFraction(y) /\ IsFraction(z)
    BY <1>1, <2>1
  <2>3. /\ <<a, b>> \in more <=> MoreSimilar(x, y)
        /\ <<b, a>> \in more <=> MoreSimilar(y, x)
        /\ <<b, c>> \in more <=> MoreSimilar(y, z)
        /\ <<c, b>> \in more <=> MoreSimilar(z, y)
        /\ <<a, c>> \in more <=> MoreSimilar(x, z)
        /\ <<c, a>> \in more <=> MoreSimilar(z, x)
    BY <1>6, <2>1
  <2> QED BY <2>2, <2>3, MoreSimilarOrders
<1>8. Orders(first, matches)
  <2>1. \A a, b \in matches : <<a, b>> \in first <=> EarlierMatch(snap, fauClosing, a, b)
    BY <1>3
  <2>2. \A a, b, c \in matches :
          /\ ~EarlierMatch(snap, fauClosing, a, a)
          /\ EarlierMatch(snap, fauClosing, a, b) /\ EarlierMatch(snap, fauClosing, b, c)
               => EarlierMatch(snap, fauClosing, a, c)
          /\ a # b => EarlierMatch(snap, fauClosing, a, b) \/ EarlierMatch(snap, fauClosing, b, a)
    BY EarlierOrders
  <2> QED BY <2>1, <2>2 DEF Orders
<1>9. Orders(before, matches)
  <2>1. \A a, b \in matches : <<a, b>> \in more => <<b, a>> \notin more
    BY <1>7
  <2>2. \A a, b, c \in matches : <<b, a>> \notin more /\ <<c, b>> \notin more =>
          /\ <<c, a>> \notin more
          /\ <<a, b>> \in more \/ <<b, c>> \in more => <<a, c>> \in more
    BY <1>7
  <2> QED BY <1>5, <1>8, <2>1, <2>2, TiesBroken
<1> QED BY <1>4, <1>9

\* Every unit that gets a predecessor is matched with it.
LEMMA PredecessorsMatch ==
  ASSUME NEW snap, IsSnapshot(snap), NEW inputs, IsInputs(inputs), NEW matches,
         AreMatches(snap, inputs, matches), NEW fauClosing
  PROVE  \A o \in DOMAIN PredecessorOf(snap, inputs, matches, fauClosing) :
           [unit |-> o, pred |-> PredecessorOf(snap, inputs, matches, fauClosing)[o]] \in matches
<1>1. PICK seq : seq = BestFirst(snap, inputs, matches, fauClosing)
  OBVIOUS
<1>2. PICK n \in Nat : DOMAIN seq = 1..n /\ \A i \in 1..n : seq[i] \in matches
  <2>1. PICK before : before = {p \in matches \X matches :
                                  BetterMatch(snap, inputs, fauClosing, p[1], p[2])}
    OBVIOUS
  <2>2. Orders(before, matches) /\ IsFiniteSet(matches)
    BY <2>1, BetterMatchOrders DEF AreMatches
  <2>3. seq = InOrder(matches, before)
    BY <1>1, <2>1 DEF BestFirst
  <2> QED BY <2>2, <2>3, InOrderIsSorted
<1>3. PICK run : /\ IsRun("match", <<fauClosing>>, NoneAssigned, seq, n, run)
                 /\ PredecessorOf(snap, inputs, matches, fauClosing) = run[n].pred
  BY <1>1, <1>2, PredecessorSteps
<1>4. /\ run[0] = NoneAssigned
      /\ \A i \in 1..n : run[i] = AssignMatch(fauClosing, run[i - 1], seq[i])
  BY <1>3 DEF IsRun, FoldStep
<1> DEFINE Good(a) == \A o \in DOMAIN a.pred : [unit |-> o, pred |-> a.pred[o]] \in matches
           K == {k \in 0..n : Good(run[k])}
<1>5. 0 \in K
  BY <1>4 DEF NoneAssigned
<1>6. ASSUME NEW k \in 0..n, k \in K, k < n PROVE k + 1 \in K
  <2>1. k + 1 \in 1..n /\ (k + 1) - 1 = k /\ k + 1 \in 0..n
    BY <1>6
  <2>2. PICK a, b, m : a = run[k] /\ b = run[k + 1] /\ m = seq[k + 1]
    OBVIOUS
  <2>3. b = AssignMatch(fauClosing, a, m) /\ m \in matches /\ Good(a)
    BY <1>2, <1>4, <1>6, <2>1, <2>2
  <2>4. b.pred = a.pred \/ b.pred = Added(a.pred, m.unit, m.pred)
    BY <2>3 DEF AssignMatch
  <2>5. m = [unit |-> m.unit, pred |-> m.pred]
    BY <2>3 DEF AreMatches
  <2>6. Good(b)
    BY <2>3, <2>4, <2>5 DEF Added
  <2> HIDE DEF Good
  <2> QED BY <2>1, <2>2, <2>6
<1>7. n \in K
  <2> HIDE DEF K
  <2>1. Climbs(K, n)
    BY <1>5, <1>6 DEF Climbs
  <2> QED BY <2>1, Climb
<1> QED BY <1>3, <1>7

-----------------------------------------------------------------------------
(* What becomes of a unit (plan_schools).                                  *)

LEMMA SchoolOfEffect ==
  ASSUME NEW snap, NEW o
  PROVE  SchoolOf(snap, o) # None =>
           SchoolOf(snap, o) \in DOMAIN snap.schools /\ snap.schools[SchoolOf(snap, o)].orgnr = o
<1> DEFINE found == {s \in DOMAIN snap.schools : snap.schools[s].orgnr = o}
<1>1. SchoolOf(snap, o) = IF found = {} THEN None ELSE CHOOSE s \in found : TRUE
  BY DEF SchoolOf
<1> QED BY <1>1

\* The schools a plan may change: open, known to the public, and not in a
\* municipality that awaits an operator.
MayChange(snap, st, s) ==
  /\ s \in DOMAIN snap.schools /\ snap.schools[s].status # "closed"
  /\ snap.schools[s].verification \in {"listed", "verified"}
  /\ snap.schools[s].municipality_id \notin BlockedIds(st)

\* What a unit's fate says of its school: an update or closure is of a school that may
\* change, and one with an FAU is not closed.
LEMMA FateEffect ==
  ASSUME NEW snap, NEW inputs, NEW st, NEW o \in DOMAIN inputs.units,
         NEW fate, fate = Fate(snap, inputs, st, o)
  PROVE  /\ fate \in {"candidate", "update"} =>
              inputs.units[o].municipality_number \in DOMAIN st.by_number
         /\ fate = "candidate" => SchoolOf(snap, o) = None
         /\ fate \in {"update", "closing", "fau_closing"} =>
              MayChange(snap, st, SchoolOf(snap, o)) /\ snap.schools[SchoolOf(snap, o)].orgnr = o
         /\ fate = "closing" => SchoolOf(snap, o) \notin snap.live_fau
<1>1. PICK id : id = SchoolOf(snap, o)
  OBVIOUS
<1>2. PICK number : number = inputs.units[o].municipality_number
  OBVIOUS
<1>3. PICK leads : leads = Resolved(st, number)
  OBVIOUS
<1>4. PICK classified : classified = (Classify(inputs.units[o]) = "in_scope")
  OBVIOUS
<1>5. fate =
        IF id = None
        THEN IF ~classified \/ o \in snap.former_orgnrs THEN "ignored"
             ELSE IF leads = "to" THEN "candidate" ELSE leads
        ELSE IF snap.schools[id].status = "closed"
                \/ snap.schools[id].verification \notin {"listed", "verified"}
          THEN "ignored"
        ELSE IF snap.schools[id].municipality_id \in BlockedIds(st) THEN "blocked"
        ELSE IF ~inputs.units[o].is_active
                \/ ~EffectiveInScope(classified, snap.schools[id].scope_override)
          THEN IF id \in snap.live_fau THEN "fau_closing" ELSE "closing"
        ELSE IF leads = "to" THEN "update" ELSE leads
  BY <1>1, <1>2, <1>3, <1>4 DEF Fate
<1>6. leads \in {"blocked", "to", "unknown"}
      /\ (leads = "to" => number \in DOMAIN st.by_number)
  BY <1>3 DEF Resolved
<1>7. id # None => id \in DOMAIN snap.schools /\ snap.schools[id].orgnr = o
  BY <1>1, SchoolOfEffect
<1>8. fate \in {"candidate", "update"} => number \in DOMAIN st.by_number
  BY <1>5, <1>6
<1>9. fate = "candidate" => id = None
  BY <1>5, <1>6
<1>10. fate \in {"update", "closing", "fau_closing"} =>
         MayChange(snap, st, id) /\ snap.schools[id].orgnr = o
  BY <1>5, <1>6, <1>7 DEF MayChange
<1>11. fate = "closing" => id \notin snap.live_fau
  BY <1>5, <1>6
<1> QED BY <1>1, <1>2, <1>8, <1>9, <1>10, <1>11

\* The units of one fate.
LEMMA FatedAreUnits ==
  ASSUME NEW snap, NEW inputs, IsInputs(inputs), NEW st, NEW fate
  PROVE  /\ Fated(snap, inputs, st, fate) \subseteq DOMAIN inputs.units
         /\ Fated(snap, inputs, st, fate) \in SUBSET Int
         /\ IsFiniteSet(Fated(snap, inputs, st, fate))
         /\ \A o \in Fated(snap, inputs, st, fate) : o \in Ids /\ inputs.units[o] \in NsrUnits
<1>1. Fated(snap, inputs, st, fate) \subseteq DOMAIN inputs.units
  BY DEF Fated
<1>2. DOMAIN inputs.units \subseteq Ids /\ IsFiniteSet(DOMAIN inputs.units)
      /\ \A o \in DOMAIN inputs.units : inputs.units[o] \in NsrUnits
  BY DEF IsInputs
<1>3. IsFiniteSet(Fated(snap, inputs, st, fate))
  BY <1>1, <1>2, FS_Subset
<1> QED BY <1>1, <1>2, <1>3 DEF Ids

\* Where a number leads is a row or a reference to one.
LEMMA HoldersAreReferences ==
  ASSUME NEW snap, IsSnapshot(snap), NEW st, IsWorking(snap, st)
  PROVE  \A n \in DOMAIN st.by_number : st.by_number[n] \in Int
BY DEF IsWorking, ActiveMunicipalities, IsSnapshot, Ids

-----------------------------------------------------------------------------
(* The placement of the new units (place_all).                             *)

\* The schools of the units of one fate (ids in plan_schools).
SchoolsOf(snap, inputs, st, fate) ==
  {SchoolOf(snap, o) : o \in Fated(snap, inputs, st, fate)}

\* Finitely many units and schools make finitely many matches.
LEMMA PairsAreFinite ==
  ASSUME NEW A, NEW B, IsFiniteSet(A), IsFiniteSet(B)
  PROVE  IsFiniteSet([unit : A, pred : B])
<1>1. IsFiniteSet(A \X B)
  BY FS_Product
<1>2. PICK f : f = [p \in A \X B |-> [unit |-> p[1], pred |-> p[2]]]
  OBVIOUS
<1>3. f \in Surjection(A \X B, [unit : A, pred : B])
  <2>1. f \in [A \X B -> [unit : A, pred : B]]
    BY <1>2
  <2>2. ASSUME NEW m \in [unit : A, pred : B] PROVE \E p \in A \X B : f[p] = m
    <3>1. <<m.unit, m.pred>> \in A \X B /\ f[<<m.unit, m.pred>>] = m
      BY <1>2
    <3> QED BY <3>1
  <2> QED BY <2>1, <2>2 DEF Surjection
<1> QED BY <1>1, <1>3, FS_Surjection

\* The schools that share a fate are finitely many and may change.
LEMMA SchoolsOfFated ==
  ASSUME NEW snap, IsSnapshot(snap), NEW inputs, IsInputs(inputs), NEW st,
         NEW fate \in {"update", "closing", "fau_closing"}
  PROVE  /\ IsFiniteSet(SchoolsOf(snap, inputs, st, fate))
         /\ \A s \in SchoolsOf(snap, inputs, st, fate) :
              MayChange(snap, st, s) /\ snap.schools[s].orgnr # None
<1> DEFINE units == Fated(snap, inputs, st, fate)
<1>1. ASSUME NEW o \in units
      PROVE  /\ MayChange(snap, st, SchoolOf(snap, o))
             /\ snap.schools[SchoolOf(snap, o)].orgnr # None
  <2>1. o \in DOMAIN inputs.units /\ Fate(snap, inputs, st, o) = fate /\ o # None
    BY FatedAreUnits DEF Fated, Ids
  <2> QED BY <2>1, FateEffect
<1>2. \A s \in SchoolsOf(snap, inputs, st, fate) : s \in DOMAIN snap.schools
  BY <1>1 DEF SchoolsOf, MayChange
<1>3. IsFiniteSet(SchoolsOf(snap, inputs, st, fate))
  BY <1>2, FS_Subset DEF IsSnapshot
<1> QED BY <1>1, <1>3 DEF SchoolsOf

\* A placement: the candidates have references of their own and municipalities,
\* and who succeeds whom stays in the municipality.
IsPlaced(snap, inputs, st, placed) ==
  /\ placed.candidates = Fated(snap, inputs, st, "candidate")
  /\ placed.closing = SchoolsOf(snap, inputs, st, "closing")
  /\ placed.fauClosing = SchoolsOf(snap, inputs, st, "fau_closing")
  /\ \A o \in placed.candidates :
       /\ placed.newOf[o] \in Int /\ placed.newOf[o] < 0
       /\ placed.municipalityOf[o] \in Int
       /\ placed.municipalityOf[o] = st.by_number[inputs.units[o].municipality_number]
       /\ o \notin DOMAIN placed.pred => placed.submission[o] \in Int
  /\ \A o, p \in placed.candidates : placed.newOf[o] = placed.newOf[p] => o = p
  /\ \A o \in DOMAIN placed.pred :
       /\ o \in placed.candidates
       /\ placed.pred[o] \in placed.closing \cup placed.fauClosing
       /\ snap.schools[placed.pred[o]].municipality_id = placed.municipalityOf[o]

\* A submission match is a school's id or None.
LEMMA SubmissionIsSchool ==
  ASSUME NEW snap, IsSnapshot(snap), NEW unit, NEW municipality
  PROVE  SubmissionMatch(snap, unit, municipality) \in Int
<1>1. ASSUME NEW best \in SUBSET DOMAIN snap.schools, best # {} PROVE Min(best) \in Int
  <2>1. best \in SUBSET Nat
    BY DEF IsSnapshot, Ids
  <2>2. \E m \in best : \A k \in best : m <= k
    BY <1>1, <2>1, LeastNumber
  <2>3. Min(best) \in best
    BY <2>2 DEF Min
  <2> QED BY <2>1, <2>3
<1> DEFINE sim(s) == NameSimilarity(snap.schools[s], unit.name)
           similar == {s \in DOMAIN snap.schools :
                    /\ snap.schools[s].origin = "submitted"
                    /\ snap.schools[s].orgnr = None
                    /\ snap.schools[s].status = "active"
                    /\ snap.schools[s].verification \in {"pending", "verified"}
                    /\ snap.schools[s].municipality_id = municipality
                    /\ AtLeast(sim(s), SubmissionMatchPercent)}
           best == {s \in similar : \A t \in similar : ~MoreSimilar(sim(t), sim(s))}
<1>2. SubmissionMatch(snap, unit, municipality) = IF best = {} THEN None ELSE Min(best)
  BY DEF SubmissionMatch
<1>3. best \in SUBSET DOMAIN snap.schools
  OBVIOUS
<1> HIDE DEF best
<1>4. None \in Int
  BY DEF None
<1> QED BY <1>1, <1>2, <1>3, <1>4

\* The candidates are numbered one below the other.
LEMMA NewReferences ==
  ASSUME NEW candidates \in SUBSET Int, IsFiniteSet(candidates)
  PROVE  /\ \A o \in candidates :
              /\ New(Cardinality({p \in candidates : p < o})) \in Int
              /\ New(Cardinality({p \in candidates : p < o})) < 0
         /\ \A o, p \in candidates :
              New(Cardinality({q \in candidates : q < o})) = New(Cardinality({q \in candidates : q < p}))
                => o = p
<1> DEFINE below(o) == {p \in candidates : p < o}
<1>1. \A o \in candidates : IsFiniteSet(below(o)) /\ Cardinality(below(o)) \in Nat
  BY FS_Subset, FS_CardinalityType
<1>2. ASSUME NEW o \in candidates, NEW p \in candidates, o < p
      PROVE  Cardinality(below(o)) # Cardinality(below(p))
  <2>1. below(o) \subseteq below(p) /\ o \in below(p) /\ o \notin below(o)
    <3>1. \A q \in candidates : q \in Int /\ o \in Int /\ p \in Int
      OBVIOUS
    <3>2. \A q \in below(o) : q \in candidates /\ q < p
      BY <1>2, <3>1
    <3>3. o \in below(p) /\ o \notin below(o)
      BY <1>2, <3>1
    <3> QED BY <3>2, <3>3
  <2>2. below(o) # below(p)
    BY <2>1
  <2> QED BY <1>1, <2>1, <2>2, FS_Subset
<1> HIDE DEF below
<1>3. \A o \in candidates : New(Cardinality(below(o))) \in Int /\ New(Cardinality(below(o))) < 0
  BY <1>1 DEF New
<1>4. ASSUME NEW o \in candidates, NEW p \in candidates,
             New(Cardinality(below(o))) = New(Cardinality(below(p)))
      PROVE  o = p
  <2>1. Cardinality(below(o)) = Cardinality(below(p))
    BY <1>1, <1>4 DEF New
  <2>2. ~(o < p) /\ ~(p < o)
    BY <1>2, <2>1
  <2> QED BY <2>2
<1> QED BY <1>3, <1>4 DEF below

\* A match is of a new unit with a school that ends in the same municipality.
LEMMA MatchesFit ==
  ASSUME NEW snap, NEW inputs, NEW st, NEW candidates, NEW ending,
         NEW m \in Matches(snap, inputs, st, candidates, ending)
  PROVE  /\ m = [unit |-> m.unit, pred |-> m.pred] /\ m.unit \in candidates /\ m.pred \in ending
         /\ st.by_number[inputs.units[m.unit].municipality_number]
              = snap.schools[m.pred].municipality_id
<1>1. /\ m \in [unit : candidates, pred : ending]
      /\ st.by_number[inputs.units[m.unit].municipality_number]
           = snap.schools[m.pred].municipality_id
  BY Zenon DEF Matches
<1>2. m = [unit |-> m.unit, pred |-> m.pred] /\ m.unit \in candidates /\ m.pred \in ending
  BY <1>1
<1> QED BY <1>1, <1>2

\* place_all: each new unit has a municipality and a reference of its own, and succeeds only a
\* school that ends in that municipality.
LEMMA PlacedEffect ==
  ASSUME NEW snap, IsSnapshot(snap), NEW inputs, IsInputs(inputs), NEW st, IsWorking(snap, st)
  PROVE  IsPlaced(snap, inputs, st, Placed(snap, inputs, st))
<1>1. PICK candidates, closing, fauClosing :
        /\ candidates = Fated(snap, inputs, st, "candidate")
        /\ closing = SchoolsOf(snap, inputs, st, "closing")
        /\ fauClosing = SchoolsOf(snap, inputs, st, "fau_closing")
  OBVIOUS
<1>2. PICK municipalityOf :
        municipalityOf = [o \in candidates |-> st.by_number[inputs.units[o].municipality_number]]
  OBVIOUS
<1>3. PICK matches : matches = Matches(snap, inputs, st, candidates, closing \cup fauClosing)
  OBVIOUS
<1>4. PICK pred : pred = PredecessorOf(snap, inputs, matches, fauClosing)
  OBVIOUS
<1>5. PICK newOf : newOf = [o \in candidates |-> New(Cardinality({p \in candidates : p < o}))]
  OBVIOUS
<1>6. PICK submission :
        submission = [o \in candidates \ DOMAIN pred |->
                        SubmissionMatch(snap, inputs.units[o], municipalityOf[o])]
  OBVIOUS
<1>7. PICK placed : placed = Placed(snap, inputs, st)
  OBVIOUS
<1>8. placed = [candidates |-> candidates, closing |-> closing, fauClosing |-> fauClosing,
                newOf |-> newOf, municipalityOf |-> municipalityOf, pred |-> pred,
                submission |-> submission]
  BY <1>1, <1>2, <1>3, <1>4, <1>5, <1>6, <1>7, Zenon DEF Placed, SchoolsOf
<1>9. /\ candidates \in SUBSET Int /\ IsFiniteSet(candidates)
      /\ candidates \subseteq DOMAIN inputs.units
  BY <1>1, FatedAreUnits
<1>10. \A o \in candidates : municipalityOf[o] \in Int
  <2> TAKE o \in candidates
  <2>1. inputs.units[o].municipality_number \in DOMAIN st.by_number
    <3>1. o \in DOMAIN inputs.units /\ Fate(snap, inputs, st, o) = "candidate"
      BY <1>1 DEF Fated
    <3> QED BY <3>1, FateEffect
  <2> QED BY <1>2, <2>1, HoldersAreReferences
<1>11. /\ \A o \in candidates : newOf[o] \in Int /\ newOf[o] < 0
       /\ \A o, p \in candidates : newOf[o] = newOf[p] => o = p
  BY <1>5, <1>9, NewReferences
<1>12. \A o \in candidates : o \notin DOMAIN pred => submission[o] \in Int
  BY <1>6, SubmissionIsSchool
<1>13. /\ IsFiniteSet(closing \cup fauClosing)
       /\ \A s \in closing \cup fauClosing :
            s \in DOMAIN snap.schools /\ snap.schools[s].orgnr # None
  <2>1. /\ IsFiniteSet(closing) /\ IsFiniteSet(fauClosing)
        /\ \A s \in closing : s \in DOMAIN snap.schools /\ snap.schools[s].orgnr # None
        /\ \A s \in fauClosing : s \in DOMAIN snap.schools /\ snap.schools[s].orgnr # None
    BY <1>1, SchoolsOfFated DEF MayChange
  <2> QED BY <2>1, FS_Union
<1>14. \A m \in matches :
         /\ m = [unit |-> m.unit, pred |-> m.pred]
         /\ m.unit \in candidates /\ m.pred \in closing \cup fauClosing
         /\ st.by_number[inputs.units[m.unit].municipality_number]
              = snap.schools[m.pred].municipality_id
  BY <1>3, MatchesFit
<1>15. IsFiniteSet(matches)
  <2>1. matches \subseteq [unit : candidates, pred : closing \cup fauClosing]
    BY <1>3 DEF Matches
  <2>2. IsFiniteSet([unit : candidates, pred : closing \cup fauClosing])
    BY <1>9, <1>13, PairsAreFinite
  <2> QED BY <2>1, <2>2, FS_Subset
<1>16. AreMatches(snap, inputs, matches)
  BY <1>9, <1>13, <1>14, <1>15 DEF AreMatches
<1>17. \A o \in DOMAIN pred : [unit |-> o, pred |-> pred[o]] \in matches
  BY <1>4, <1>16, PredecessorsMatch
<1>18. \A o \in DOMAIN pred :
         /\ o \in candidates /\ pred[o] \in closing \cup fauClosing
         /\ snap.schools[pred[o]].municipality_id = municipalityOf[o]
  <2> TAKE o \in DOMAIN pred
  <2>1. PICK m \in matches : m.unit = o /\ m.pred = pred[o]
    BY <1>17
  <2> QED BY <1>2, <1>14, <2>1
<1>19. \A o \in candidates :
         municipalityOf[o] = st.by_number[inputs.units[o].municipality_number]
  BY <1>2
<1> QED BY <1>1, <1>7, <1>8, <1>10, <1>11, <1>12, <1>18, <1>19 DEF IsPlaced

-----------------------------------------------------------------------------
(* The slug book, and the addresses a plan may give away.                  *)

\* No school that stays open has the address or has had it, but the one it is
\* given to.
Clear(snap, closing, municipality, slug, me) ==
  slug # NoSlug =>
    /\ \A s \in DOMAIN snap.schools :
         /\ snap.schools[s].municipality_id = municipality /\ snap.schools[s].slug = slug
         /\ s \notin closing
         => s = me
    /\ \A h \in snap.slug_history :
         h.municipality_id = municipality /\ h.slug = slug =>
           \/ h.school_id = me
           \/ h.school_id \in closing \/ snap.schools[h.school_id].status = "closed"

\* The book knows who holds an address and stays open, and all former holders.
KnowsAddresses(snap, closing, book) ==
  /\ \A s \in DOMAIN snap.schools \ closing :
       snap.schools[s].slug # NoSlug =>
         /\ <<snap.schools[s].municipality_id, snap.schools[s].slug>> \in DOMAIN book.current
         /\ book.current[<<snap.schools[s].municipality_id, snap.schools[s].slug>>] = s
  /\ book.history = {<<h.municipality_id, h.slug, h.school_id>> : h \in snap.slug_history}
  /\ book.closed = closing \cup {s \in DOMAIN snap.schools : snap.schools[s].status = "closed"}
  /\ DOMAIN book = {"current", "history", "closed"}

\* One holder per address, former holders are schools, and former addresses
\* mislead nobody.
HasAddresses(snap) ==
  /\ \A s, t \in DOMAIN snap.schools :
       /\ snap.schools[s].slug # NoSlug /\ snap.schools[s].slug = snap.schools[t].slug
       /\ snap.schools[s].municipality_id = snap.schools[t].municipality_id
       => s = t
  /\ \A s \in DOMAIN snap.schools : snap.schools[s].status \in {"active", "closed"}
  /\ \A h \in snap.slug_history : h.school_id \in DOMAIN snap.schools /\ h.slug # NoSlug
  /\ AddressesHold(snap)

\* What SlugBook::is_taken calls free leads nobody astray.
LEMMA FreeIsClear ==
  ASSUME NEW snap, HasAddresses(snap), NEW closing, NEW book, KnowsAddresses(snap, closing, book),
         NEW municipality, NEW slug, NEW me, ~IsTaken(book, municipality, slug, me)
  PROVE  Clear(snap, closing, municipality, slug, me)
<1>1. SUFFICES ASSUME slug # NoSlug
      PROVE  /\ \A s \in DOMAIN snap.schools :
                  /\ snap.schools[s].municipality_id = municipality /\ snap.schools[s].slug = slug
                  /\ s \notin closing
                  => s = me
             /\ \A h \in snap.slug_history :
                  h.municipality_id = municipality /\ h.slug = slug =>
                    \/ h.school_id = me
                    \/ h.school_id \in closing \/ snap.schools[h.school_id].status = "closed"
  BY DEF Clear
<1>2. ASSUME NEW s \in DOMAIN snap.schools, snap.schools[s].municipality_id = municipality,
             snap.schools[s].slug = slug, s \notin closing
      PROVE  s = me
  <2>1. /\ <<municipality, slug>> \in DOMAIN book.current
        /\ book.current[<<municipality, slug>>] = s
    BY <1>1, <1>2 DEF KnowsAddresses
  <2> QED BY <2>1 DEF IsTaken
<1>3. ASSUME NEW h \in snap.slug_history, h.municipality_id = municipality, h.slug = slug,
             h.school_id # me
      PROVE  h.school_id \in closing \/ snap.schools[h.school_id].status = "closed"
  <2>1. <<municipality, slug, h.school_id>> \in book.history
    BY <1>3 DEF KnowsAddresses
  <2>2. h.school_id \in book.closed
    BY <1>3, <2>1 DEF IsTaken
  <2> QED BY <2>2 DEF KnowsAddresses
<1> QED BY <1>2, <1>3

\* A slug that is minted is clear (resolve_slug).
LEMMA MintedIsClear ==
  ASSUME NEW snap, HasAddresses(snap), NEW closing, NEW book, KnowsAddresses(snap, closing, book),
         NEW municipality, NEW base, NEW town, NEW me
  PROVE  Clear(snap, closing, municipality, MintedSlug(book, municipality, base, town, me), me)
<1>1. PICK tried : tried = SlugCandidates(base, town)
  OBVIOUS
<1>2. PICK taken : taken = {slug \in ToSet(tried) : IsTaken(book, municipality, slug, me)}
  OBVIOUS
<1>3. PICK free : free = {i \in DOMAIN tried : tried[i] \notin taken}
  OBVIOUS
<1>4. PICK minted : minted = MintedSlug(book, municipality, base, town, me)
  OBVIOUS
<1>5. minted = IF free = {} THEN NoSlug ELSE tried[Min(free)]
  BY <1>1, <1>2, <1>3, <1>4 DEF MintedSlug, FirstFreeSlug
<1>6. CASE free = {}
  BY <1>4, <1>5, <1>6 DEF Clear
<1>7. CASE free # {}
  <2>1. free \in SUBSET Nat
    <3>1. DOMAIN tried \subseteq Nat
      BY <1>1, NumbersAssumption DEF SlugCandidates
    <3> QED BY <1>3, <3>1
  <2>2. \E i \in free : \A j \in free : i <= j
    BY <1>7, <2>1, LeastNumber
  <2>3. Min(free) \in free
    BY <2>2 DEF Min
  <2>4. minted \in ToSet(tried) /\ minted \notin taken
    BY <1>3, <1>5, <1>7, <2>3 DEF ToSet
  <2>5. ~IsTaken(book, municipality, minted, me)
    BY <1>2, <2>4
  <2> QED BY <1>4, <2>5, FreeIsClear
<1> QED BY <1>6, <1>7

\* SlugBook::take of a free slug keeps the book right.
LEMMA TakeKeepsAddresses ==
  ASSUME NEW snap, NEW closing, NEW book, KnowsAddresses(snap, closing, book),
         NEW municipality, NEW slug, NEW me, Clear(snap, closing, municipality, slug, me)
  PROVE  KnowsAddresses(snap, closing, Take(book, municipality, slug, me))
<1>1. PICK current : current = With(book.current, <<municipality, slug>>, me)
  OBVIOUS
<1>2. PICK new : new = Take(book, municipality, slug, me)
  OBVIOUS
<1>3. /\ new.current = current /\ new.history = book.history /\ new.closed = book.closed
      /\ DOMAIN new = DOMAIN book
  BY <1>1, <1>2 DEF Take, KnowsAddresses
<1>4. ASSUME NEW s \in DOMAIN snap.schools \ closing, snap.schools[s].slug # NoSlug,
             NEW key, key = <<snap.schools[s].municipality_id, snap.schools[s].slug>>
      PROVE  key \in DOMAIN current /\ current[key] = s
  <2>1. key \in DOMAIN book.current /\ book.current[key] = s
    BY <1>4 DEF KnowsAddresses
  <2>2. CASE key = <<municipality, slug>>
    <3>1. s = me
      BY <1>4, <2>2 DEF Clear
    <3> QED BY <1>1, <2>2, <3>1 DEF With
  <2>3. CASE key # <<municipality, slug>>
    BY <1>1, <2>1, <2>3 DEF With
  <2> QED BY <2>2, <2>3
<1> QED BY <1>2, <1>3, <1>4 DEF KnowsAddresses

\* A school that closes leaves a clear address to its successor.
LEMMA InheritedIsClear ==
  ASSUME NEW snap, IsSnapshot(snap), HasAddresses(snap), NEW closing, NEW p \in DOMAIN snap.schools, p \in closing,
         NEW me
  PROVE  Clear(snap, closing, snap.schools[p].municipality_id, snap.schools[p].slug, me)
<1>1. PICK municipality, slug :
        municipality = snap.schools[p].municipality_id /\ slug = snap.schools[p].slug
  OBVIOUS
<1>2. SUFFICES ASSUME slug # NoSlug PROVE Clear(snap, closing, municipality, slug, me)
  BY <1>1 DEF Clear
<1>3. \A s \in DOMAIN snap.schools :
        snap.schools[s].municipality_id = municipality /\ snap.schools[s].slug = slug => s = p
  BY <1>1, <1>2 DEF HasAddresses
<1>4. CurrentHolder(snap, municipality, slug) = p
  BY <1>1, <1>3 DEF CurrentHolder
<1>5. ASSUME NEW h \in snap.slug_history, h.municipality_id = municipality, h.slug = slug,
             snap.schools[h.school_id].status # "closed"
      PROVE  h.school_id = p \/ p = None
  <2>1. snap.schools[h.school_id].status = "active"
    BY <1>5 DEF HasAddresses
  <2>2. PICK former : former = {g.school_id : g \in {g \in snap.slug_history :
                 g.municipality_id = h.municipality_id /\ g.slug = h.slug}}
    OBVIOUS
  <2>3. Resolve(p, former) \in {h.school_id, None}
    BY <1>4, <1>5, <2>1, <2>2 DEF HasAddresses, AddressesHold
  <2> QED BY <2>3 DEF Resolve
<1>6. p # None
  BY DEF IsSnapshot, Ids
<1> QED BY <1>1, <1>3, <1>5, <1>6 DEF Clear

\* SlugBook::new starts with a book that is right.
LEMMA SlugBookKnows ==
  ASSUME NEW snap, HasAddresses(snap), NEW closing
  PROVE  KnowsAddresses(snap, closing, SlugBook(snap, closing))
<1> DEFINE held == {s \in DOMAIN snap.schools :
                      snap.schools[s].slug # NoSlug /\ s \notin closing}
           key(s) == <<snap.schools[s].municipality_id, snap.schools[s].slug>>
<1>1. PICK current : current = [k \in {key(s) : s \in held} |-> CHOOSE s \in held : key(s) = k]
  OBVIOUS
<1>2. PICK book : book = SlugBook(snap, closing)
  OBVIOUS
<1>3. book = [current |-> current,
              history |-> {<<h.municipality_id, h.slug, h.school_id>> : h \in snap.slug_history},
              closed |-> closing \cup {s \in DOMAIN snap.schools : snap.schools[s].status = "closed"}]
  BY <1>1, <1>2 DEF SlugBook
<1>4. \A s, t \in held : key(s) = key(t) => s = t
  BY DEF HasAddresses
<1> HIDE DEF key
<1>5. \A s \in held : key(s) \in DOMAIN current /\ current[key(s)] = s
  BY <1>1, <1>4
<1> QED BY <1>2, <1>3, <1>5 DEF KnowsAddresses, key

\* Handing over the addresses of the schools that close takes none from the
\* others.
LEMMA HandOverKnows ==
  ASSUME NEW snap, IsSnapshot(snap), HasAddresses(snap), NEW inputs, NEW st, NEW placed,
         IsPlaced(snap, inputs, st, placed), placed.closing \subseteq DOMAIN snap.schools,
         NEW book, KnowsAddresses(snap, placed.closing, book)
  PROVE  KnowsAddresses(snap, placed.closing, HandOver(book, snap, placed))
<1> DEFINE heirs == {o \in placed.candidates :
                       /\ o \in DOMAIN placed.pred /\ placed.pred[o] \in placed.closing
                       /\ snap.schools[placed.pred[o]].slug # NoSlug}
           key(o) == <<placed.municipalityOf[o], snap.schools[placed.pred[o]].slug>>
           handed == {key(o) : o \in heirs}
<1>1. PICK current : current = [k \in handed \cup DOMAIN book.current |->
                                  IF k \in handed
                                  THEN placed.newOf[CHOOSE o \in heirs : key(o) = k]
                                  ELSE book.current[k]]
  OBVIOUS
<1>2. PICK new : new = HandOver(book, snap, placed)
  OBVIOUS
<1>3. new = [book EXCEPT !.current = current]
  BY <1>1, <1>2, Zenon DEF HandOver, KnowsAddresses
<1>4. /\ new.current = current /\ new.history = book.history /\ new.closed = book.closed
      /\ DOMAIN new = DOMAIN book
  BY <1>3 DEF KnowsAddresses
<1>5. ASSUME NEW s \in DOMAIN snap.schools \ placed.closing, snap.schools[s].slug # NoSlug,
             NEW k, k = <<snap.schools[s].municipality_id, snap.schools[s].slug>>
      PROVE  k \in DOMAIN current /\ current[k] = s
  <2>1. k \in DOMAIN book.current /\ book.current[k] = s
    BY <1>5 DEF KnowsAddresses
  <2>2. k \notin handed
    <3>1. SUFFICES ASSUME NEW o \in heirs, k = key(o) PROVE FALSE
      OBVIOUS
    <3>2. PICK p \in placed.closing : p = placed.pred[o] /\ o \in DOMAIN placed.pred
      OBVIOUS
    <3>3. snap.schools[p].municipality_id = placed.municipalityOf[o]
      BY <3>2 DEF IsPlaced
    <3>4. /\ snap.schools[p].municipality_id = snap.schools[s].municipality_id
          /\ snap.schools[p].slug = snap.schools[s].slug
      BY <1>5, <3>1, <3>2, <3>3
    <3> QED BY <1>5, <3>4 DEF HasAddresses
  <2> HIDE DEF handed, heirs, key
  <2> QED BY <1>1, <2>1, <2>2
<1> QED BY <1>2, <1>4, <1>5 DEF KnowsAddresses

-----------------------------------------------------------------------------
(* The operations on schools, as far as the addresses need them.           *)

\* No school is renamed after it has moved: the rename would keep the old slug
\* in the new municipality.
Ordered(ops) ==
  \A j, k \in 1..Len(ops) :
    j < k /\ ops[j].op = "move" /\ ops[k].op = "rename" => ops[j].id # ops[k].id

\* An operation fits the snapshot: it says where the school was, and gives it
\* an address nobody else is reached by.
OpFits(snap, closing, op) ==
  \/ /\ op.op = "create" /\ op.new \in Int /\ op.new < 0 /\ op.municipality \in Int
     /\ op.orgnr \in Nat /\ op.name \in Names
     /\ Clear(snap, closing, op.municipality, op.slug, op.new)
  \/ /\ op.op = "rename" /\ op.id \in DOMAIN snap.schools \ closing
     /\ op.register_name \in Names /\ op.display_name \in Names
     /\ op.old \in {NoSlug, snap.schools[op.id].slug}
     /\ \/ op.new = snap.schools[op.id].slug
        \/ Clear(snap, closing, snap.schools[op.id].municipality_id, op.new, op.id)
  \/ op.op = "update_attributes" /\ op.id \in DOMAIN snap.schools \ closing
  \/ /\ op.op = "move" /\ op.id \in DOMAIN snap.schools \ closing
     /\ op.from = snap.schools[op.id].municipality_id /\ op.old = snap.schools[op.id].slug
     /\ op.to \in Int /\ Clear(snap, closing, op.to, op.new, op.id)
  \/ op.op = "close" /\ op.id \in closing

\* Only the schools and the old addresses decide what fits.
LEMMA SameFits ==
  ASSUME NEW a, NEW b, b.schools = a.schools, b.slug_history = a.slug_history,
         NEW closing, NEW op, OpFits(a, closing, op)
  PROVE  OpFits(b, closing, op)
<1>1. \A municipality, slug, me :
        Clear(a, closing, municipality, slug, me) => Clear(b, closing, municipality, slug, me)
  BY Zenon DEF Clear
<1> QED BY <1>1 DEF OpFits

\* Two lists in order are in order together if no move of the first meets a rename of the
\* second.
LEMMA OrderedConcat ==
  ASSUME NEW s, NEW t, IsSeq(s), IsSeq(t), Ordered(s), Ordered(t),
         \A x \in ToSet(s) : \A y \in ToSet(t) :
           ~(x.op = "move" /\ y.op = "rename" /\ x.id = y.id)
  PROVE  Ordered(s \o t)
<1>1. PICK m \in Nat, n \in Nat : m = Len(s) /\ n = Len(t)
  BY SeqDomain
<1>2. PICK u : u = s \o t
  OBVIOUS
<1>3. /\ Len(u) = m + n
      /\ \A i \in 1..m : u[i] = s[i] /\ s[i] \in ToSet(s)
      /\ \A i \in (m + 1)..(m + n) : u[i] = t[i - m] /\ i - m \in 1..n /\ t[i - m] \in ToSet(t)
  <2>1. /\ Len(u) = m + n /\ \A i \in 1..m : u[i] = s[i]
        /\ \A i \in (m + 1)..(m + n) : u[i] = t[i - m]
    BY <1>1, <1>2, ConcatSeq
  <2>2. /\ \A i \in 1..m : s[i] \in ToSet(s)
        /\ \A i \in 1..n : t[i] \in ToSet(t)
    BY <1>1, SeqDomain
  <2>3. \A i \in (m + 1)..(m + n) : i - m \in 1..n
    OBVIOUS
  <2> QED BY <2>1, <2>2, <2>3
<1>4. ASSUME NEW j \in 1..(m + n), NEW k \in 1..(m + n), j < k, u[j].op = "move",
             u[k].op = "rename", u[j].id = u[k].id
      PROVE  FALSE
  <2>1. CASE k \in 1..m
    <3>1. j \in 1..m /\ u[j] = s[j] /\ u[k] = s[k]
      BY <1>3, <1>4, <2>1
    <3> QED BY <1>1, <1>4, <2>1, <3>1 DEF Ordered
  <2>2. CASE j \in (m + 1)..(m + n)
    <3>1. k \in (m + 1)..(m + n)
      BY <1>4, <2>2
    <3>2. PICK a \in 1..n, b \in 1..n : a < b /\ u[j] = t[a] /\ u[k] = t[b]
      <4>1. j - m \in 1..n /\ k - m \in 1..n /\ j - m < k - m
        BY <1>4, <2>2, <3>1
      <4>2. u[j] = t[j - m] /\ u[k] = t[k - m]
        BY <1>3, <2>2, <3>1
      <4> QED BY <4>1, <4>2
    <3> QED BY <1>1, <1>4, <3>2 DEF Ordered
  <2>3. CASE j \in 1..m /\ k \in (m + 1)..(m + n)
    BY <1>3, <1>4, <2>3
  <2> QED BY <1>4, <2>1, <2>2, <2>3
<1> QED BY <1>2, <1>3, <1>4 DEF Ordered

\* A list of at most one operation is in order.
LEMMA AtMostOne ==
  ASSUME NEW x, NEW s, s = <<x>> \/ s = <<>>
  PROVE  IsSeq(s) /\ ToSet(s) \subseteq {x} /\ Ordered(s)
<1>1. CASE s = <<>>
  BY <1>1, EmptyIsSeq DEF Ordered
<1>2. CASE s = <<x>>
  <2>1. Len(s) = 1
    BY <1>2
  <2> QED BY <1>2, <2>1, OneIsSeq DEF Ordered
<1> QED BY <1>1, <1>2

\* new adds a block of operations on the unit's school, and knows the addresses.
Updates(snap, closing, o, acc, new) ==
  /\ KnowsAddresses(snap, closing, new.book)
  /\ \E block :
       /\ new.ops = acc.ops \o block /\ IsSeq(block) /\ Ordered(block)
       /\ \A op \in ToSet(block) :
            /\ OpFits(snap, closing, op) /\ op.id = SchoolOf(snap, o)
            /\ op.op \notin {"create", "close"}

\* The operations of one continuing school fit, and leave the book right.
LEMMA PlanUpdateEffect ==
  ASSUME NEW snap, IsSnapshot(snap), HasAddresses(snap), NEW inputs, NEW st, NEW closing,
         NEW acc, IsSeq(acc.ops), KnowsAddresses(snap, closing, acc.book),
         NEW o, inputs.units[o].name \in Names, SchoolOf(snap, o) \in DOMAIN snap.schools \ closing,
         st.by_number[inputs.units[o].municipality_number] \in Int
  PROVE  Updates(snap, closing, o, acc, PlanUpdate(snap, inputs, st, acc, o))
<1> DEFINE id == SchoolOf(snap, o)
           school == snap.schools[id]
           unit == inputs.units[o]
           here == school.municipality_id
           to == st.by_number[unit.municipality_number]
           town == PostTown(unit)
           base == SlugOf[unit.name]
           moving == to # here
           renamed == Renamed(school, unit)
           minted == MintedSlug(acc.book, here, base, town, id)
           reslugs == /\ renamed /\ ~moving /\ ~school.curated
                      /\ base # NoSlug /\ base # school.slug
           book1 == IF reslugs THEN Take(acc.book, here, minted, id) ELSE acc.book
           rename == [op |-> "rename", id |-> id, register_name |-> unit.name,
                      display_name |-> IF school.curated THEN school.display_name ELSE unit.name,
                      old |-> IF reslugs /\ minted # school.slug THEN school.slug ELSE NoSlug,
                      new |-> IF reslugs THEN minted ELSE school.slug]
           attributes == [op |-> "update_attributes", id |-> id, post_town |-> town]
           shown == IF renamed /\ ~school.curated THEN unit.name ELSE school.display_name
           moveBase == IF SlugOf[shown] = NoSlug THEN school.slug ELSE SlugOf[shown]
           moved == IF school.slug = NoSlug THEN NoSlug
                    ELSE MintedSlug(book1, to, moveBase, town, id)
           move == [op |-> "move", id |-> id, from |-> here, to |-> to,
                    old |-> school.slug, new |-> moved]
           A == IF renamed THEN <<rename>> ELSE <<>>
           B == IF school.post_town # town THEN <<attributes>> ELSE <<>>
           C == IF moving THEN <<move>> ELSE <<>>
<1>13. PICK new : new = PlanUpdate(snap, inputs, st, acc, o)
  OBVIOUS
<1>14. new = [book |-> IF moving /\ moved # NoSlug THEN Take(book1, to, moved, id) ELSE book1,
              ops |-> acc.ops \o A \o B \o C]
  BY <1>13 DEF PlanUpdate
<1>29. to \in Int
  OBVIOUS
<1> HIDE DEF id, school, unit, here, to, town, base, moving, renamed, minted, reslugs, book1, rename,
             attributes, shown, moveBase, moved, move, A, B, C
<1>1. id \in DOMAIN snap.schools \ closing
  BY DEF id
<1>15. Clear(snap, closing, here, minted, id)
  BY MintedIsClear DEF minted
<1>16. KnowsAddresses(snap, closing, book1)
  <2>1. KnowsAddresses(snap, closing, Take(acc.book, here, minted, id))
    BY <1>15, TakeKeepsAddresses
  <2> QED BY <2>1 DEF book1
<1>17. Clear(snap, closing, to, moved, id)
  <2>1. CASE school.slug = NoSlug
    BY <2>1 DEF moved, Clear
  <2>2. CASE school.slug # NoSlug
    BY <1>16, <2>2, MintedIsClear DEF moved
  <2> QED BY <2>1, <2>2
<1>18. KnowsAddresses(snap, closing, new.book)
  <2>1. KnowsAddresses(snap, closing, Take(book1, to, moved, id))
    BY <1>16, <1>17, TakeKeepsAddresses
  <2>2. new.book = book1 \/ new.book = Take(book1, to, moved, id)
    BY <1>14
  <2> QED BY <1>16, <2>1, <2>2
<1>19. /\ OpFits(snap, closing, rename) /\ rename.id = id /\ rename.op = "rename"
  <2>1. school.display_name \in Names /\ unit.name \in Names
    BY <1>1 DEF school, unit, IsSnapshot
  <2>2. /\ rename.op = "rename" /\ rename.id = id /\ rename.register_name = unit.name
        /\ rename.display_name \in {school.display_name, unit.name}
        /\ rename.old \in {NoSlug, school.slug} /\ rename.new \in {minted, school.slug}
    BY DEF rename
  <2> QED BY <1>1, <1>15, <2>1, <2>2 DEF OpFits, school, here
<1>20. /\ OpFits(snap, closing, attributes) /\ attributes.id = id
       /\ attributes.op = "update_attributes"
  BY <1>1 DEF attributes, OpFits
<1>21. /\ OpFits(snap, closing, move) /\ move.id = id /\ move.op = "move"
  <2>1. /\ move.op = "move" /\ move.id = id /\ move.from = here /\ move.to = to
        /\ move.old = school.slug /\ move.new = moved
    BY DEF move
  <2> QED BY <1>1, <1>17, <1>29, <2>1 DEF OpFits, school, here
<1>22. /\ IsSeq(A) /\ ToSet(A) \subseteq {rename} /\ Ordered(A)
       /\ IsSeq(B) /\ ToSet(B) \subseteq {attributes} /\ Ordered(B)
       /\ IsSeq(C) /\ ToSet(C) \subseteq {move} /\ Ordered(C)
  BY AtMostOne DEF A, B, C
<1>23. PICK AB : AB = A \o B
  OBVIOUS
<1>24. PICK block : block = AB \o C
  OBVIOUS
<1>25. IsSeq(AB) /\ ToSet(AB) \subseteq {rename, attributes} /\ Ordered(AB)
  BY <1>19, <1>20, <1>22, <1>23, ConcatSeq, OrderedConcat
<1>26. IsSeq(block) /\ ToSet(block) \subseteq {rename, attributes, move} /\ Ordered(block)
  BY <1>19, <1>20, <1>22, <1>24, <1>25, ConcatSeq, OrderedConcat
<1>27. new.ops = acc.ops \o block
  <2>1. PICK first, a, b, c : /\ first = acc.ops /\ a = A /\ b = B /\ c = C
                              /\ IsSeq(first) /\ IsSeq(a) /\ IsSeq(b) /\ IsSeq(c)
    BY <1>22
  <2>2. new.ops = ((first \o a) \o b) \o c
    BY <1>14, <2>1
  <2>3. AB = a \o b /\ IsSeq(AB) /\ block = AB \o c
    BY <1>23, <1>24, <1>25, <2>1
  <2>6. IsSeq(first) /\ IsSeq(a) /\ IsSeq(b)
    BY <2>1
  <2>7. IsSeq(first) /\ IsSeq(AB) /\ IsSeq(c)
    BY <2>1, <2>3
  <2>4. (first \o a) \o b = first \o (a \o b)
    BY <2>6, ConcatThrice, SMTT(60)
  <2>5. (first \o AB) \o c = first \o (AB \o c)
    BY <2>7, ConcatThrice, SMTT(60)
  <2> QED BY <2>1, <2>2, <2>3, <2>4, <2>5
<1>28. \A op \in ToSet(block) :
         OpFits(snap, closing, op) /\ op.id = id /\ op.op \notin {"create", "close"}
  BY <1>19, <1>20, <1>21, <1>26
<1> QED BY <1>13, <1>18, <1>26, <1>27, <1>28 DEF id, Updates

\* A school has one unit, and that unit one fate.
LEMMA FatesAreApart ==
  ASSUME NEW snap, NEW inputs, NEW st,
         NEW f \in {"update", "closing", "fau_closing"}, NEW g \in {"update", "closing", "fau_closing"},
         NEW o \in Fated(snap, inputs, st, f), NEW p \in Fated(snap, inputs, st, g),
         SchoolOf(snap, o) = SchoolOf(snap, p)
  PROVE  o = p /\ f = g
<1>1. /\ o \in DOMAIN inputs.units /\ Fate(snap, inputs, st, o) = f
      /\ p \in DOMAIN inputs.units /\ Fate(snap, inputs, st, p) = g
  BY DEF Fated
<1>2. snap.schools[SchoolOf(snap, o)].orgnr = o /\ snap.schools[SchoolOf(snap, p)].orgnr = p
  BY <1>1, FateEffect
<1> QED BY <1>1, <1>2

\* Step 5, the continuing schools.
LEMMA PlanUpdatesEffect ==
  ASSUME NEW snap, IsSnapshot(snap), HasAddresses(snap), NEW inputs, IsInputs(inputs),
         NEW st, IsWorking(snap, st),
         NEW closing, closing = SchoolsOf(snap, inputs, st, "closing"),
         NEW book, KnowsAddresses(snap, closing, book)
  PROVE  /\ KnowsAddresses(snap, closing, PlanUpdates(snap, inputs, st, book).book)
         /\ IsSeq(PlanUpdates(snap, inputs, st, book).ops)
         /\ Ordered(PlanUpdates(snap, inputs, st, book).ops)
         /\ \A op \in ToSet(PlanUpdates(snap, inputs, st, book).ops) :
              /\ OpFits(snap, closing, op) /\ op.op \notin {"create", "close"}
              /\ op.id \in SchoolsOf(snap, inputs, st, "update")
<1>1. PICK seq : seq = Continuing(snap, inputs, st)
  OBVIOUS
<1>2. PICK units : units = Fated(snap, inputs, st, "update")
  OBVIOUS
<1>3. PICK n \in Nat : /\ DOMAIN seq = 1..n /\ \A i \in 1..n : seq[i] \in units
                       /\ \A i, j \in 1..n : seq[i] = seq[j] => i = j
  <2>1. units \in SUBSET Int /\ IsFiniteSet(units)
    BY <1>2, FatedAreUnits
  <2>2. seq = Ascending(units)
    BY <1>1, <1>2 DEF Continuing
  <2> QED BY <2>1, <2>2, AscendingEnumerates
<1>4. PICK run : /\ IsRun("update", <<snap, inputs, st>>, NothingYet(book), seq, n, run)
                 /\ PlanUpdates(snap, inputs, st, book) = run[n]
  BY <1>1, <1>3, PlanUpdatesSteps
<1>5. /\ run[0] = NothingYet(book)
      /\ \A i \in 1..n : run[i] = PlanUpdate(snap, inputs, st, run[i - 1], seq[i])
  BY <1>4 DEF IsRun, FoldStep
<1>6. ASSUME NEW o \in units
      PROVE  /\ inputs.units[o].name \in Names /\ SchoolOf(snap, o) \in DOMAIN snap.schools \ closing
             /\ st.by_number[inputs.units[o].municipality_number] \in Int
  <2>1. o \in DOMAIN inputs.units /\ Fate(snap, inputs, st, o) = "update"
    BY <1>2 DEF Fated
  <2>2. SchoolOf(snap, o) \in DOMAIN snap.schools
    BY <2>1, FateEffect DEF MayChange
  <2>3. SchoolOf(snap, o) \notin closing
    <3>1. SUFFICES ASSUME NEW p \in Fated(snap, inputs, st, "closing"),
                          SchoolOf(snap, o) = SchoolOf(snap, p)
                   PROVE  FALSE
      BY DEF SchoolsOf
    <3>2. "update" = "closing"
      BY <1>2, <3>1, FatesAreApart
    <3> QED BY <3>2
  <2>4. inputs.units[o] \in NsrUnits
    BY <2>1 DEF IsInputs
  <2>5. inputs.units[o].municipality_number \in DOMAIN st.by_number
    BY <2>1, FateEffect
  <2>6. st.by_number[inputs.units[o].municipality_number] \in Int
    BY <2>5, HoldersAreReferences
  <2> QED BY <2>2, <2>3, <2>4, <2>6 DEF NsrUnits
<1> DEFINE Before(k, op) == \E i \in 1..n : i <= k /\ op.id = SchoolOf(snap, seq[i])
           Good(k) == /\ KnowsAddresses(snap, closing, run[k].book)
                      /\ IsSeq(run[k].ops) /\ Ordered(run[k].ops)
                      /\ \A op \in ToSet(run[k].ops) :
                           /\ OpFits(snap, closing, op) /\ op.op \notin {"create", "close"}
                           /\ Before(k, op)
           K == {k \in 0..n : Good(k)}
<1>7. 0 \in K
  BY <1>5, EmptyIsSeq DEF NothingYet, Ordered
<1>8. ASSUME NEW k \in 0..n, k \in K, k < n PROVE k + 1 \in K
  <2>1. k + 1 \in 1..n /\ (k + 1) - 1 = k /\ k + 1 \in 0..n
    BY <1>8
  <2>2. PICK a, b, o, ops : a = run[k] /\ b = run[k + 1] /\ o = seq[k + 1] /\ ops = a.ops
    OBVIOUS
  <2>3. b = PlanUpdate(snap, inputs, st, a, o) /\ o \in units
    BY <1>3, <1>5, <2>1, <2>2
  <2>4. /\ KnowsAddresses(snap, closing, a.book) /\ IsSeq(a.ops) /\ Ordered(ops)
        /\ \A op \in ToSet(ops) :
             OpFits(snap, closing, op) /\ op.op \notin {"create", "close"} /\ Before(k, op)
    BY <1>8, <2>2
  <2>5. /\ KnowsAddresses(snap, closing, b.book)
        /\ \E block : /\ b.ops = a.ops \o block /\ IsSeq(block) /\ Ordered(block)
                      /\ \A op \in ToSet(block) :
                           /\ OpFits(snap, closing, op) /\ op.id = SchoolOf(snap, o)
                           /\ op.op \notin {"create", "close"}
    <3> HIDE DEF K, Good, Before
    <3>1. /\ inputs.units[o].name \in Names /\ SchoolOf(snap, o) \in DOMAIN snap.schools \ closing
          /\ st.by_number[inputs.units[o].municipality_number] \in Int
          /\ IsSeq(a.ops) /\ KnowsAddresses(snap, closing, a.book)
      BY <1>6, <2>3, <2>4
    <3>2. Updates(snap, closing, o, a, PlanUpdate(snap, inputs, st, a, o))
      BY <3>1, PlanUpdateEffect
    <3>3. b = PlanUpdate(snap, inputs, st, a, o)
      BY <2>3
    <3> QED BY <3>2, <3>3 DEF Updates
  <2>6. PICK block : /\ b.ops = ops \o block /\ IsSeq(block) /\ Ordered(block)
                     /\ \A op \in ToSet(block) :
                          /\ OpFits(snap, closing, op) /\ op.id = SchoolOf(snap, o)
                          /\ op.op \notin {"create", "close"}
    BY <2>2, <2>5
  <2>7. ASSUME NEW x \in ToSet(ops), NEW y \in ToSet(block) PROVE x.id # y.id
    <3>1. PICK i \in 1..n : i <= k /\ x.id = SchoolOf(snap, seq[i])
      BY <2>4
    <3>2. seq[i] \in units /\ seq[i] # o
      BY <1>3, <2>1, <2>2, <3>1
    <3>3. SchoolOf(snap, seq[i]) # SchoolOf(snap, o)
      BY <1>2, <2>3, <3>2, FatesAreApart
    <3> QED BY <2>6, <3>1, <3>3
  <2>8. /\ IsSeq(ops \o block) /\ ToSet(ops \o block) \subseteq ToSet(ops) \cup ToSet(block)
        /\ Ordered(ops \o block)
    <3>1. IsSeq(ops) /\ IsSeq(block) /\ Ordered(ops) /\ Ordered(block)
      BY <2>2, <2>4, <2>6
    <3>2. \A x \in ToSet(ops) : \A y \in ToSet(block) :
            ~(x.op = "move" /\ y.op = "rename" /\ x.id = y.id)
      BY <2>7
    <3> HIDE DEF K, Good, Before
    <3> QED BY <3>1, <3>2, ConcatSeq, OrderedConcat
  <2>9. ASSUME NEW op \in ToSet(b.ops)
        PROVE  OpFits(snap, closing, op) /\ op.op \notin {"create", "close"} /\ Before(k + 1, op)
    <3>1. op \in ToSet(ops) \/ op \in ToSet(block)
      BY <2>6, <2>8
    <3>2. CASE op \in ToSet(ops)
      <4>1. PICK i \in 1..n : i <= k /\ op.id = SchoolOf(snap, seq[i])
        BY <2>4, <3>2
      <4>2. i <= k + 1
        BY <4>1
      <4> QED BY <2>4, <3>2, <4>1, <4>2
    <3>3. CASE op \in ToSet(block)
      <4>1. op.id = SchoolOf(snap, seq[k + 1]) /\ k + 1 <= k + 1
        BY <2>2, <2>6, <3>3
      <4> QED BY <2>1, <2>6, <3>3, <4>1
    <3> QED BY <3>1, <3>2, <3>3
  <2>10. Good(k + 1)
    BY <2>2, <2>5, <2>6, <2>8, <2>9
  <2> HIDE DEF Good
  <2> QED BY <2>1, <2>10
<1>9. n \in K
  <2> HIDE DEF K
  <2>1. Climbs(K, n)
    BY <1>7, <1>8 DEF Climbs
  <2> QED BY <2>1, Climb
<1>10. \A op : Before(n, op) => op.id \in SchoolsOf(snap, inputs, st, "update")
  BY <1>2, <1>3 DEF SchoolsOf
<1> QED BY <1>4, <1>9, <1>10

\* new adds one school to create, and knows the addresses.
Creates(snap, closing, acc, new) ==
  /\ KnowsAddresses(snap, closing, new.book)
  /\ \E op : new.ops = Append(acc.ops, op) /\ OpFits(snap, closing, op) /\ op.op = "create"

\* The operation of one new unit fits, and leaves the book right.
LEMMA PlanCreateEffect ==
  ASSUME NEW snap, IsSnapshot(snap), HasAddresses(snap), NEW inputs, NEW st, NEW placed,
         IsPlaced(snap, inputs, st, placed), placed.closing \subseteq DOMAIN snap.schools,
         NEW acc, IsSeq(acc.ops), KnowsAddresses(snap, placed.closing, acc.book),
         NEW o \in placed.candidates, o \in Nat, inputs.units[o].name \in Names
  PROVE  Creates(snap, placed.closing, acc, PlanCreate(snap, inputs, placed, acc, o))
<1> DEFINE closing == placed.closing
           unit == inputs.units[o]
           municipality == placed.municipalityOf[o]
           me == placed.newOf[o]
           succeeds == o \in DOMAIN placed.pred
           held == IF succeeds THEN placed.pred[o] \in placed.fauClosing
                   ELSE placed.submission[o] # None
           inherited == IF succeeds /\ ~held THEN snap.schools[placed.pred[o]].slug ELSE NoSlug
           mints == ~held /\ inherited = NoSlug /\ SlugOf[unit.name] # NoSlug
           minted == MintedSlug(acc.book, municipality, SlugOf[unit.name], PostTown(unit), me)
           slug == IF mints THEN minted ELSE inherited
           op == [op |-> "create", new |-> me, municipality |-> municipality, orgnr |-> o,
                  name |-> unit.name, slug |-> slug, post_town |-> PostTown(unit),
                  verification |-> IF held THEN "held" ELSE "listed"]
<1>1. PICK new : new = PlanCreate(snap, inputs, placed, acc, o)
  OBVIOUS
<1>2. new = [book |-> IF mints THEN Take(acc.book, municipality, slug, me) ELSE acc.book,
             ops |-> Append(acc.ops, op)]
  BY <1>1 DEF PlanCreate
<1>3. unit.name \in Names
  OBVIOUS
<1>4. /\ me \in Int /\ me < 0 /\ municipality \in Int
  BY DEF IsPlaced
<1>5. ASSUME succeeds, ~held
      PROVE  /\ placed.pred[o] \in closing
             /\ snap.schools[placed.pred[o]].municipality_id = municipality
  BY <1>5 DEF IsPlaced
<1> HIDE DEF unit, me, mints, minted, held, succeeds
<1>6. Clear(snap, closing, municipality, minted, me)
  BY MintedIsClear DEF minted
<1>7. Clear(snap, closing, municipality, inherited, me)
  <2>1. CASE succeeds /\ ~held
    <3>1. PICK p \in closing : p = placed.pred[o] /\ snap.schools[p].municipality_id = municipality
      BY <1>5, <2>1
    <3>2. Clear(snap, closing, snap.schools[p].municipality_id, snap.schools[p].slug, me)
      BY InheritedIsClear
    <3> QED BY <2>1, <3>1, <3>2
  <2>2. CASE ~(succeeds /\ ~held)
    BY <2>2 DEF Clear
  <2> QED BY <2>1, <2>2
<1>8. Clear(snap, closing, municipality, slug, me)
  BY <1>6, <1>7
<1> HIDE DEF slug, inherited, municipality
<1>9. KnowsAddresses(snap, closing, new.book)
  <2>1. KnowsAddresses(snap, closing, Take(acc.book, municipality, slug, me))
    BY <1>8, TakeKeepsAddresses
  <2>2. new.book = acc.book \/ new.book = Take(acc.book, municipality, slug, me)
    BY <1>2
  <2> QED BY <2>1, <2>2
<1>10. OpFits(snap, closing, op) /\ op.op = "create"
  <2>1. /\ op.op = "create" /\ op.new = me /\ op.municipality = municipality /\ op.orgnr = o
        /\ op.name = unit.name /\ op.slug = slug
    OBVIOUS
  <2> HIDE DEF op
  <2> QED BY <1>3, <1>4, <1>8, <2>1 DEF OpFits
<1>11. new.ops = Append(acc.ops, op)
  BY <1>2
<1> HIDE DEF op
<1> QED BY <1>1, <1>9, <1>10, <1>11 DEF Creates

\* Step 5, the new units.
LEMMA PlanCreatesEffect ==
  ASSUME NEW snap, IsSnapshot(snap), HasAddresses(snap), NEW inputs, IsInputs(inputs), NEW st,
         NEW placed, IsPlaced(snap, inputs, st, placed),
         placed.closing \subseteq DOMAIN snap.schools,
         NEW book, KnowsAddresses(snap, placed.closing, book)
  PROVE  /\ IsSeq(PlanCreates(snap, inputs, placed, book).ops)
         /\ \A op \in ToSet(PlanCreates(snap, inputs, placed, book).ops) :
              OpFits(snap, placed.closing, op) /\ op.op = "create"
<1>1. PICK seq : seq = SortedCandidates(placed)
  OBVIOUS
<1>2. PICK n \in Nat : DOMAIN seq = 1..n /\ \A i \in 1..n : seq[i] \in placed.candidates
  <2>1. placed.candidates \in SUBSET Int /\ IsFiniteSet(placed.candidates)
    BY FatedAreUnits DEF IsPlaced
  <2> QED BY <1>1, <2>1, AscendingEnumerates DEF SortedCandidates
<1>3. PICK run : /\ IsRun("create", <<snap, inputs, placed>>, NothingYet(book), seq, n, run)
                 /\ PlanCreates(snap, inputs, placed, book) = run[n]
  BY <1>1, <1>2, PlanCreatesSteps
<1>4. /\ run[0] = NothingYet(book)
      /\ \A i \in 1..n : run[i] = PlanCreate(snap, inputs, placed, run[i - 1], seq[i])
  BY <1>3 DEF IsRun, FoldStep
<1>5. ASSUME NEW o \in placed.candidates
      PROVE  o \in Nat /\ inputs.units[o].name \in Names
  <2>1. o \in Ids /\ inputs.units[o] \in NsrUnits
    BY FatedAreUnits DEF IsPlaced
  <2> QED BY <2>1 DEF Ids, NsrUnits
<1>6. PICK closing : closing = placed.closing
  OBVIOUS
<1> DEFINE Good(a) == /\ KnowsAddresses(snap, closing, a.book) /\ IsSeq(a.ops)
                      /\ \A op \in ToSet(a.ops) : OpFits(snap, closing, op) /\ op.op = "create"
           K == {k \in 0..n : Good(run[k])}
<1>7. 0 \in K
  BY <1>4, <1>6, EmptyIsSeq DEF NothingYet
<1>8. ASSUME NEW k \in 0..n, k \in K, k < n PROVE k + 1 \in K
  <2>1. k + 1 \in 1..n /\ (k + 1) - 1 = k /\ k + 1 \in 0..n
    BY <1>8
  <2>2. PICK a, b, o : a = run[k] /\ b = run[k + 1] /\ o = seq[k + 1]
    OBVIOUS
  <2>3. b = PlanCreate(snap, inputs, placed, a, o) /\ o \in placed.candidates
    BY <1>2, <1>4, <2>1, <2>2
  <2>4. Good(a)
    BY <1>8, <2>2
  <2>5. Creates(snap, closing, a, b)
    <3>1. IsSeq(a.ops) /\ KnowsAddresses(snap, placed.closing, a.book)
      BY <1>6, <2>4
    <3>2. Creates(snap, placed.closing, a, PlanCreate(snap, inputs, placed, a, o))
      BY <1>5, <2>3, <3>1, PlanCreateEffect
    <3> QED BY <1>6, <2>3, <3>2
  <2>6. PICK op, ops : /\ b.ops = Append(ops, op) /\ ops = a.ops
                       /\ OpFits(snap, closing, op) /\ op.op = "create"
    BY <2>5 DEF Creates
  <2>7. IsSeq(Append(ops, op)) /\ ToSet(Append(ops, op)) \subseteq ToSet(ops) \cup {op}
    <3>1. IsSeq(ops)
      BY <2>4, <2>6
    <3> QED BY <3>1, AppendSeq
  <2>8. KnowsAddresses(snap, closing, b.book)
    BY <2>5 DEF Creates
  <2>9. Good(b)
    BY <2>4, <2>6, <2>7, <2>8
  <2> HIDE DEF Good
  <2> QED BY <2>1, <2>2, <2>9
<1>9. n \in K
  <2> HIDE DEF K
  <2>1. Climbs(K, n)
    BY <1>7, <1>8 DEF Climbs
  <2> QED BY <2>1, Climb
<1> QED BY <1>3, <1>6, <1>9

-----------------------------------------------------------------------------
(* The plan of the schools as a whole (plan_schools).                      *)

\* A sequence with one item for every element of a finite set of numbers.
LEMMA EachIsSeq ==
  ASSUME NEW S \in SUBSET Int, IsFiniteSet(S), NEW f, NEW items,
         items = [i \in 1..Cardinality(S) |-> f[Ascending(S)[i]]]
  PROVE  /\ IsSeq(items)
         /\ \A x \in ToSet(items) : \E o \in S : x = f[o]
         /\ \A o \in S : f[o] \in ToSet(items)
         /\ \A T : (\A o \in S : f[o] \in T) => items \in Seq(T)
<1>1. PICK n \in Nat : n = Cardinality(S)
  BY FS_CardinalityType
<1>2. PICK order : order = Ascending(S)
  OBVIOUS
<1>3. /\ \A i \in 1..n : order[i] \in S
      /\ \A o \in S : \E i \in 1..n : order[i] = o
  BY <1>1, <1>2, AscendingEnumerates
<1>4. DOMAIN items = 1..n /\ \A i \in 1..n : items[i] = f[order[i]]
  BY <1>1, <1>2
<1>5. items = [i \in 1..n |-> items[i]]
  BY <1>1, <1>2
<1>6. IsSeq(items)
  BY <1>4, <1>5, SeqOfFunction
<1>7. \A x \in ToSet(items) : \E i \in 1..n : x = items[i]
  BY <1>4 DEF ToSet
<1>8. ASSUME NEW x \in ToSet(items) PROVE \E o \in S : x = f[o]
  <2>1. PICK i \in 1..n : x = items[i]
    BY <1>7
  <2>2. PICK o \in S : o = order[i]
    BY <1>3
  <2>3. x = f[o]
    BY <1>4, <2>1, <2>2
  <2> QED BY <2>3
<1>9. ASSUME NEW o \in S PROVE f[o] \in ToSet(items)
  <2>1. PICK i \in 1..n : order[i] = o
    BY <1>3
  <2>2. items[i] = f[o]
    BY <1>4, <2>1
  <2> QED BY <1>4, <2>2 DEF ToSet
<1>10. ASSUME NEW T, \A o \in S : f[o] \in T PROVE items \in Seq(T)
  <2>1. \A i \in 1..n : items[i] \in T
    BY <1>3, <1>4, <1>10
  <2> QED BY <1>4, <1>5, <2>1, SeqOfItems
<1> QED BY <1>6, <1>8, <1>9, <1>10

\* Units held back are asked about.
LEMMA PlacementReviewsType ==
  ASSUME NEW snap, IsSnapshot(snap), NEW inputs, IsInputs(inputs), NEW st, NEW placed,
         IsPlaced(snap, inputs, st, placed),
         placed.closing \cup placed.fauClosing \subseteq DOMAIN snap.schools
  PROVE  PlacementReviews(placed) \in Seq(ReviewItems)
<1> DEFINE Held(kind, school, o) ==
             Review(kind, school, placed.newOf[o], placed.municipalityOf[o], "", None)
           reregistered == {o \in placed.candidates : /\ o \in DOMAIN placed.pred
                                                       /\ placed.pred[o] \in placed.fauClosing}
           submitted == {o \in placed.candidates : /\ o \notin DOMAIN placed.pred
                                                    /\ placed.submission[o] # None}
<1>1. PICK f : f = [o \in reregistered |-> Held("possible_reregistration", placed.pred[o], o)]
  OBVIOUS
<1>2. PICK g : g = [o \in submitted |-> Held("possible_submission_match", placed.submission[o], o)]
  OBVIOUS
<1>3. PICK a : a = Each(reregistered, LAMBDA o : Held("possible_reregistration", placed.pred[o], o))
  OBVIOUS
<1>4. PICK b : b = Each(submitted, LAMBDA o : Held("possible_submission_match", placed.submission[o], o))
  OBVIOUS
<1>5. PlacementReviews(placed) = a \o b
  BY <1>3, <1>4 DEF PlacementReviews
<1>6. placed.candidates \in SUBSET Int /\ IsFiniteSet(placed.candidates)
  BY FatedAreUnits DEF IsPlaced
<1>7. /\ reregistered \in SUBSET Int /\ IsFiniteSet(reregistered)
      /\ submitted \in SUBSET Int /\ IsFiniteSet(submitted)
  BY <1>6, FS_Subset
<1>8. ASSUME NEW kind \in ReviewKinds, NEW school \in Int, NEW o \in placed.candidates
      PROVE  Held(kind, school, o) \in ReviewItems
  <2>1. placed.newOf[o] \in Int /\ placed.municipalityOf[o] \in Int /\ None \in Int
    BY DEF IsPlaced, None
  <2>2. "" \in ReviewReasons
    BY DEF ReviewReasons
  <2> QED BY <2>1, <2>2 DEF Review, ReviewItems
<1>9. \A o \in reregistered : f[o] \in ReviewItems
  <2> TAKE o \in reregistered
  <2>1. placed.pred[o] \in Int
    BY DEF IsSnapshot, Ids
  <2>2. "possible_reregistration" \in ReviewKinds
    BY DEF ReviewKinds
  <2> HIDE DEF Held
  <2> QED BY <1>1, <1>8, <2>1, <2>2
<1>10. \A o \in submitted : g[o] \in ReviewItems
  <2> TAKE o \in submitted
  <2>1. placed.submission[o] \in Int
    BY DEF IsPlaced
  <2>2. "possible_submission_match" \in ReviewKinds
    BY DEF ReviewKinds
  <2> HIDE DEF Held
  <2> QED BY <1>2, <1>8, <2>1, <2>2
<1>11. a = [i \in 1..Cardinality(reregistered) |-> f[Ascending(reregistered)[i]]]
  <2>1. a = [i \in 1..Cardinality(reregistered) |->
               Held("possible_reregistration", placed.pred[Ascending(reregistered)[i]],
                    Ascending(reregistered)[i])]
    BY <1>3 DEF Each
  <2>2. \A i \in 1..Cardinality(reregistered) : Ascending(reregistered)[i] \in reregistered
    BY <1>7, AscendingEnumerates
  <2> HIDE DEF Held, reregistered
  <2> QED BY <1>1, <2>1, <2>2
<1>12. b = [i \in 1..Cardinality(submitted) |-> g[Ascending(submitted)[i]]]
  <2>1. b = [i \in 1..Cardinality(submitted) |->
               Held("possible_submission_match", placed.submission[Ascending(submitted)[i]],
                    Ascending(submitted)[i])]
    BY <1>4 DEF Each
  <2>2. \A i \in 1..Cardinality(submitted) : Ascending(submitted)[i] \in submitted
    BY <1>7, AscendingEnumerates
  <2> HIDE DEF Held, submitted
  <2> QED BY <1>2, <2>1, <2>2
<1>13. a \in Seq(ReviewItems) /\ b \in Seq(ReviewItems)
  <2> HIDE DEF reregistered, submitted
  <2> QED BY <1>7, <1>9, <1>10, <1>11, <1>12, EachIsSeq
<1> QED BY <1>5, <1>13

\* The numbers of units of one fate.
NumbersOf(snap, inputs, st, fate) ==
  {inputs.units[o].municipality_number : o \in Fated(snap, inputs, st, fate)}

\* The municipality numbers of the units that share a fate.
LEMMA NumbersOfFated ==
  ASSUME NEW snap, NEW inputs, IsInputs(inputs), NEW st, NEW fate
  PROVE  /\ NumbersOf(snap, inputs, st, fate) \subseteq Nat
         /\ IsFiniteSet(NumbersOf(snap, inputs, st, fate))
<1>1. PICK units : units = Fated(snap, inputs, st, fate)
  OBVIOUS
<1>2. IsFiniteSet(units) /\ \A o \in units : inputs.units[o].municipality_number \in Nat
  BY <1>1, FatedAreUnits DEF NsrUnits
<1>3. PICK f : f = [o \in units |-> inputs.units[o].municipality_number]
  OBVIOUS
<1>4. f \in Surjection(units, NumbersOf(snap, inputs, st, fate))
  BY <1>1, <1>3 DEF Surjection, NumbersOf
<1>5. IsFiniteSet(NumbersOf(snap, inputs, st, fate))
  BY <1>2, <1>4, FS_Surjection
<1> QED BY <1>1, <1>2, <1>5 DEF NumbersOf

\* Schools with an FAU whose unit closed, and numbers that lead nowhere, are
\* asked about.
LEMMA SchoolReviewsType ==
  ASSUME NEW snap, IsSnapshot(snap), NEW inputs, IsInputs(inputs), NEW st, NEW pred
  PROVE  SchoolReviews(snap, inputs, st, pred) \in Seq(ReviewItems)
<1> DEFINE closing == {o \in Fated(snap, inputs, st, "fau_closing") :
                         \A c \in DOMAIN pred : pred[c] # SchoolOf(snap, o)}
           numbers == NumbersOf(snap, inputs, st, "unknown")
           Closure(o) == Review("closure_with_fau", SchoolOf(snap, o), None,
                                snap.schools[SchoolOf(snap, o)].municipality_id, "", None)
           Unknown(n) == Review("unknown_municipality_number", None, None, None, "", n)
<1>1. PICK f : f = [o \in closing |-> Closure(o)]
  OBVIOUS
<1>2. PICK g : g = [n \in numbers |-> Unknown(n)]
  OBVIOUS
<1>3. PICK a : a = Each(closing, LAMBDA o : Closure(o))
  OBVIOUS
<1>4. PICK b : b = Each(numbers, LAMBDA n : Unknown(n))
  OBVIOUS
<1>5. SchoolReviews(snap, inputs, st, pred) = a \o b
  BY <1>3, <1>4 DEF SchoolReviews, NumbersOf
<1>6. closing \in SUBSET Int /\ IsFiniteSet(closing)
  <2>1. /\ Fated(snap, inputs, st, "fau_closing") \in SUBSET Int
        /\ IsFiniteSet(Fated(snap, inputs, st, "fau_closing"))
    BY FatedAreUnits
  <2> QED BY <2>1, FS_Subset
<1>7. numbers \in SUBSET Int /\ IsFiniteSet(numbers) /\ \A n \in numbers : n \in Nat
  BY NumbersOfFated
<1>8. /\ None \in Int /\ "" \in ReviewReasons
      /\ "closure_with_fau" \in ReviewKinds /\ "unknown_municipality_number" \in ReviewKinds
  BY DEF None, ReviewReasons, ReviewKinds
<1>9. \A o \in closing : f[o] \in ReviewItems
  <2> TAKE o \in closing
  <2>1. o \in DOMAIN inputs.units /\ Fate(snap, inputs, st, o) = "fau_closing"
    BY DEF Fated
  <2>2. PICK s \in DOMAIN snap.schools : s = SchoolOf(snap, o)
    BY <2>1, FateEffect DEF MayChange
  <2>3. s \in Int /\ snap.schools[s].municipality_id \in Int
    BY DEF IsSnapshot, Ids
  <2> HIDE DEF closing
  <2> QED BY <1>1, <1>8, <2>2, <2>3 DEF Review, ReviewItems
<1>10. \A n \in numbers : g[n] \in ReviewItems
  <2> TAKE n \in numbers
  <2>1. n \in Int
    BY <1>7
  <2> HIDE DEF numbers
  <2> QED BY <1>2, <1>8, <2>1 DEF Review, ReviewItems
<1>11. a = [i \in 1..Cardinality(closing) |-> f[Ascending(closing)[i]]]
  <2>1. a = [i \in 1..Cardinality(closing) |-> Closure(Ascending(closing)[i])]
    BY <1>3 DEF Each
  <2>2. \A i \in 1..Cardinality(closing) : Ascending(closing)[i] \in closing
    BY <1>6, AscendingEnumerates
  <2> HIDE DEF Closure, closing
  <2> QED BY <1>1, <2>1, <2>2
<1>12. b = [i \in 1..Cardinality(numbers) |-> g[Ascending(numbers)[i]]]
  <2>1. b = [i \in 1..Cardinality(numbers) |-> Unknown(Ascending(numbers)[i])]
    BY <1>4 DEF Each
  <2>2. \A i \in 1..Cardinality(numbers) : Ascending(numbers)[i] \in numbers
    BY <1>7, AscendingEnumerates
  <2> HIDE DEF Unknown, numbers
  <2> QED BY <1>2, <2>1, <2>2
<1>13. a \in Seq(ReviewItems) /\ b \in Seq(ReviewItems)
  <2> HIDE DEF closing, numbers
  <2> QED BY <1>6, <1>7, <1>9, <1>10, <1>11, <1>12, EachIsSeq
<1> QED BY <1>5, <1>13

\* The schools that operations close.
ClosedBy(ops) == {op.id : op \in {op \in ToSet(ops) : op.op = "close"}}

\* One close for every school whose unit closed or left scope, unless it has
\* an FAU.
Closes(snap, inputs, st, placed) ==
  Each(Fated(snap, inputs, st, "closing"), LAMBDA o : PlanClose(snap, inputs, placed, o))

\* The planned closes close exactly the schools whose fate it is.
LEMMA ClosesEffect ==
  ASSUME NEW snap, NEW inputs, IsInputs(inputs), NEW st, NEW placed, NEW closes,
         closes = Closes(snap, inputs, st, placed)
  PROVE  /\ IsSeq(closes)
         /\ \A op \in ToSet(closes) :
              op.op = "close" /\ op.id \in SchoolsOf(snap, inputs, st, "closing")
         /\ SchoolsOf(snap, inputs, st, "closing") = ClosedBy(closes)
<1>1. PICK units : units = Fated(snap, inputs, st, "closing")
  OBVIOUS
<1>2. PICK f : f = [o \in units |-> PlanClose(snap, inputs, placed, o)]
  OBVIOUS
<1>3. units \in SUBSET Int /\ IsFiniteSet(units)
  BY <1>1, FatedAreUnits
<1>4. closes = [i \in 1..Cardinality(units) |-> f[Ascending(units)[i]]]
  <2>1. closes = [i \in 1..Cardinality(units) |->
                    PlanClose(snap, inputs, placed, Ascending(units)[i])]
    BY <1>1 DEF Each, Closes
  <2>2. \A i \in 1..Cardinality(units) : Ascending(units)[i] \in units
    BY <1>3, AscendingEnumerates
  <2> QED BY <1>2, <2>1, <2>2
<1>5. /\ IsSeq(closes)
      /\ \A x \in ToSet(closes) : \E o \in units : x = f[o]
      /\ \A o \in units : f[o] \in ToSet(closes)
  <2>1. PICK items : items = [i \in 1..Cardinality(units) |-> f[Ascending(units)[i]]]
    OBVIOUS
  <2>2. /\ IsSeq(items)
        /\ \A x \in ToSet(items) : \E o \in units : x = f[o]
        /\ \A o \in units : f[o] \in ToSet(items)
    BY <1>3, <2>1, EachIsSeq
  <2>3. items = closes
    BY <1>4, <2>1
  <2> QED BY <2>2, <2>3
<1>6. \A o \in units : f[o].op = "close" /\ f[o].id = SchoolOf(snap, o)
  BY <1>2 DEF PlanClose
<1>7. SchoolsOf(snap, inputs, st, "closing") = {SchoolOf(snap, o) : o \in units}
  BY <1>1 DEF SchoolsOf
<1>8. \A op \in ToSet(closes) :
        op.op = "close" /\ op.id \in SchoolsOf(snap, inputs, st, "closing")
  <2> TAKE op \in ToSet(closes)
  <2>1. PICK o \in units : op = f[o]
    BY <1>5
  <2>2. op.op = "close" /\ op.id = SchoolOf(snap, o)
    BY <1>6, <2>1
  <2> QED BY <1>7, <2>2
<1>9. \A s \in SchoolsOf(snap, inputs, st, "closing") : s \in ClosedBy(closes)
  <2> TAKE s \in SchoolsOf(snap, inputs, st, "closing")
  <2>1. PICK o \in units : s = SchoolOf(snap, o)
    BY <1>7
  <2>2. PICK op \in ToSet(closes) : op = f[o]
    BY <1>5
  <2> QED BY <1>6, <2>1, <2>2 DEF ClosedBy
<1> QED BY <1>5, <1>8, <1>9 DEF ClosedBy

\* The school operations of a plan: they fit the snapshot, change only schools
\* that may change, and close none that has an FAU.
SchoolsPlanned(snap, st, ops) ==
  /\ IsSeq(ops) /\ Ordered(ops)
  /\ \A op \in ToSet(ops) :
       OpFits(snap, ClosedBy(ops), op) /\ (op.op # "create" => MayChange(snap, st, op.id))
  /\ ClosedBy(ops) \cap snap.live_fau = {} /\ ClosedBy(ops) \subseteq DOMAIN snap.schools

\* plan_schools: operations that suit the snapshot, and review items.
LEMMA PlanSchoolsEffect ==
  ASSUME NEW snap, IsSnapshot(snap), HasAddresses(snap), NEW inputs, IsInputs(inputs),
         NEW st, IsWorking(snap, st)
  PROVE  /\ SchoolsPlanned(snap, st, PlanSchools(snap, inputs, st).ops)
         /\ PlanSchools(snap, inputs, st).reviews \in Seq(ReviewItems)
<1>1. PICK placed : placed = Placed(snap, inputs, st)
  OBVIOUS
<1>2. IsPlaced(snap, inputs, st, placed)
  BY <1>1, PlacedEffect
<1>3. PICK closing : closing = SchoolsOf(snap, inputs, st, "closing") /\ closing = placed.closing
  BY <1>2 DEF IsPlaced
<1>4. /\ \A s \in closing : MayChange(snap, st, s)
      /\ \A s \in placed.fauClosing : s \in DOMAIN snap.schools
  BY <1>2, <1>3, SchoolsOfFated DEF IsPlaced, MayChange
<1>5. closing \subseteq DOMAIN snap.schools
  BY <1>4 DEF MayChange
<1>6. PICK book : book = HandOver(SlugBook(snap, placed.closing), snap, placed)
  OBVIOUS
<1>7. KnowsAddresses(snap, closing, book)
  <2>1. KnowsAddresses(snap, placed.closing, SlugBook(snap, placed.closing))
    BY SlugBookKnows
  <2>2. placed.closing \subseteq DOMAIN snap.schools
    BY <1>3, <1>5
  <2> QED BY <1>2, <1>3, <1>6, <2>1, <2>2, HandOverKnows
<1>8. PICK updated, created, a, b, c :
        /\ updated = PlanUpdates(snap, inputs, st, book)
        /\ created = PlanCreates(snap, inputs, placed, updated.book)
        /\ a = Closes(snap, inputs, st, placed)
        /\ b = created.ops /\ c = updated.ops
  OBVIOUS
<1>9. /\ KnowsAddresses(snap, closing, updated.book) /\ IsSeq(c) /\ Ordered(c)
      /\ \A op \in ToSet(c) : /\ OpFits(snap, closing, op) /\ op.op \notin {"create", "close"}
                              /\ op.id \in SchoolsOf(snap, inputs, st, "update")
  BY <1>3, <1>7, <1>8, PlanUpdatesEffect
<1>10. /\ IsSeq(b)
       /\ \A op \in ToSet(b) : OpFits(snap, closing, op) /\ op.op = "create"
  <2>1. placed.closing \subseteq DOMAIN snap.schools
    BY <1>3, <1>5
  <2>2. KnowsAddresses(snap, placed.closing, updated.book)
    BY <1>3, <1>9
  <2>3. /\ IsSeq(PlanCreates(snap, inputs, placed, updated.book).ops)
        /\ \A op \in ToSet(PlanCreates(snap, inputs, placed, updated.book).ops) :
             OpFits(snap, placed.closing, op) /\ op.op = "create"
    BY <1>2, <2>1, <2>2, PlanCreatesEffect
  <2> QED BY <1>3, <1>8, <2>3
<1>11. /\ IsSeq(a) /\ ClosedBy(a) = closing
       /\ \A op \in ToSet(a) : op.op = "close" /\ op.id \in closing
  BY <1>3, <1>8, ClosesEffect
<1>12. PICK ab, ops : ab = a \o b /\ ops = ab \o c
  OBVIOUS
<1>13. /\ PlanSchools(snap, inputs, st).ops = ops
       /\ PlanSchools(snap, inputs, st).reviews
            = PlacementReviews(placed) \o SchoolReviews(snap, inputs, st, placed.pred)
  <2> DEFINE p == Placed(snap, inputs, st)
             u == PlanUpdates(snap, inputs, st, HandOver(SlugBook(snap, p.closing), snap, p))
             all == Closes(snap, inputs, st, p) \o PlanCreates(snap, inputs, p, u.book).ops \o u.ops
             asked == PlacementReviews(p) \o SchoolReviews(snap, inputs, st, p.pred)
  <2>1. PlanSchools(snap, inputs, st) = [ops |-> all, reviews |-> asked]
    BY Zenon DEF PlanSchools, Closes
  <2>2. p = placed /\ u = updated
    BY <1>1, <1>6, <1>8
  <2>3. all = ops
    BY <1>8, <1>12, <2>2
  <2>4. asked = PlacementReviews(placed) \o SchoolReviews(snap, inputs, st, placed.pred)
    BY <2>2
  <2> HIDE DEF all, asked
  <2> QED BY <2>1, <2>3, <2>4
<1>14. /\ IsSeq(ab) /\ Ordered(ab) /\ ToSet(ab) = ToSet(a) \cup ToSet(b)
  <2>1. IsSeq(ab) /\ ToSet(ab) = ToSet(a) \cup ToSet(b)
    BY <1>10, <1>11, <1>12, ConcatSet
  <2>2. \A op \in ToSet(ab) : op.op # "move"
    BY <1>10, <1>11, <2>1
  <2>3. \A i \in 1..Len(ab) : ab[i] \in ToSet(ab)
    BY <2>1, SeqDomain
  <2> QED BY <2>1, <2>2, <2>3 DEF Ordered
<1>15. /\ IsSeq(ops) /\ ToSet(ops) = ToSet(ab) \cup ToSet(c)
  BY <1>9, <1>12, <1>14, ConcatSet
<1>16. Ordered(ops)
  <2>1. \A x \in ToSet(ab) : \A y \in ToSet(c) :
          ~(x.op = "move" /\ y.op = "rename" /\ x.id = y.id)
    BY <1>10, <1>11, <1>14
  <2> QED BY <1>9, <1>12, <1>14, <2>1, OrderedConcat
<1>17. ClosedBy(ops) = closing
  <2>1. {op \in ToSet(ops) : op.op = "close"} = {op \in ToSet(a) : op.op = "close"}
    BY <1>9, <1>10, <1>14, <1>15
  <2> QED BY <1>11, <2>1 DEF ClosedBy
<1>18. \A op \in ToSet(ops) :
         OpFits(snap, closing, op) /\ (op.op # "create" => MayChange(snap, st, op.id))
  <2> TAKE op \in ToSet(ops)
  <2>1. CASE op \in ToSet(a)
    BY <1>4, <1>11, <2>1 DEF OpFits
  <2>2. CASE op \in ToSet(b)
    BY <1>10, <2>2
  <2>3. CASE op \in ToSet(c)
    <3>1. \A s \in SchoolsOf(snap, inputs, st, "update") : MayChange(snap, st, s)
      BY SchoolsOfFated
    <3> QED BY <1>9, <2>3, <3>1
  <2> QED BY <1>14, <1>15, <2>1, <2>2, <2>3
<1>19. closing \cap snap.live_fau = {}
  <2>1. SUFFICES ASSUME NEW s \in closing PROVE s \notin snap.live_fau
    OBVIOUS
  <2>2. PICK o \in Fated(snap, inputs, st, "closing") : s = SchoolOf(snap, o)
    BY <1>3 DEF SchoolsOf
  <2>3. o \in DOMAIN inputs.units /\ Fate(snap, inputs, st, o) = "closing"
    BY DEF Fated
  <2> QED BY <2>2, <2>3, FateEffect
<1>20. PlanSchools(snap, inputs, st).reviews \in Seq(ReviewItems)
  <2>1. placed.closing \cup placed.fauClosing \subseteq DOMAIN snap.schools
    BY <1>3, <1>4, <1>5
  <2>2. PlacementReviews(placed) \in Seq(ReviewItems)
    BY <1>2, <2>1, PlacementReviewsType
  <2>3. SchoolReviews(snap, inputs, st, placed.pred) \in Seq(ReviewItems)
    BY SchoolReviewsType
  <2> QED BY <1>13, <2>2, <2>3
<1> QED BY <1>5, <1>13, <1>15, <1>16, <1>17, <1>18, <1>19, <1>20 DEF SchoolsPlanned

-----------------------------------------------------------------------------
(* The plan of a run, from the tables and the sources it reads.            *)

\* The columns of an operation that fits are well-formed.
LEMMA FitsIsSchoolOp ==
  ASSUME NEW snap, NEW closing, NEW op, OpFits(snap, closing, op)
  PROVE  IsSchoolOp(op)
BY DEF OpFits, IsSchoolOp

\* The whole plan: the operations of both steps, and review items.
LEMMA PlanFromEffect ==
  ASSUME NEW snap, IsSnapshot(snap), HasAddresses(snap), NEW inputs, IsInputs(inputs),
         NEW st, IsWorking(snap, st), AsksWell(st)
  PROVE  /\ IsPlan(PlanFrom(snap, inputs, st))
         /\ PlanFrom(snap, inputs, st).municipality_ops = st.ops
         /\ SchoolsPlanned(snap, st, PlanFrom(snap, inputs, st).school_ops)
<1>1. PICK schools : schools = PlanSchools(snap, inputs, st)
  OBVIOUS
<1>2. PICK plan : plan = PlanFrom(snap, inputs, st)
  OBVIOUS
<1>3. /\ plan.municipality_ops = st.ops /\ plan.school_ops = schools.ops
      /\ plan.reviews = st.reviews \o schools.reviews
  BY <1>1, <1>2 DEF PlanFrom, Planned
<1>4. SchoolsPlanned(snap, st, schools.ops) /\ schools.reviews \in Seq(ReviewItems)
  BY <1>1, PlanSchoolsEffect
<1>5. plan.reviews \in Seq(ReviewItems)
  BY <1>3, <1>4 DEF AsksWell
<1>6. \A op \in ToSet(schools.ops) : IsSchoolOp(op)
  BY <1>4, FitsIsSchoolOp DEF SchoolsPlanned
<1> QED BY <1>2, <1>3, <1>4, <1>5, <1>6 DEF IsPlan, AsksWell, SchoolsPlanned

\* The schools of a municipality that SSB splits may not change.
LEMMA SplitIsPassedOver ==
  ASSUME NEW snap, IsSnapshot(snap), NEW inputs, NEW m, IsSplit(snap, inputs, m),
         NEW st, IsWorking(snap, st), LeftAlone(st, m, snap.municipalities[m].number),
         snap.municipalities[m].number \in st.blocked
  PROVE  \A s \in DOMAIN snap.schools :
           MayChange(snap, st, s) => snap.schools[s].municipality_id # m
<1>1. m \in DOMAIN st.working
  BY DEF IsSplit, IsWorking
<1>2. PICK n : n = snap.municipalities[m].number
  OBVIOUS
<1>3. n \in DOMAIN st.by_number /\ st.by_number[n] = m
  BY <1>2 DEF LeftAlone
<1>4. st.working[m].number = n
  BY <1>1, <1>3, HeldByActive
<1>5. m \in BlockedIds(st)
  BY <1>1, <1>2, <1>4 DEF BlockedIds
<1> QED BY <1>5 DEF MayChange

\* Only the schools and the old addresses decide where an address leads.
LEMMA SameAddresses ==
  ASSUME NEW a, NEW b, AddressesHold(a), b.schools = a.schools, b.slug_history = a.slug_history
  PROVE  AddressesHold(b)
<1>1. \A m, slug : CurrentHolder(b, m, slug) = CurrentHolder(a, m, slug)
  BY DEF CurrentHolder
<1> QED BY <1>1, Zenon DEF AddressesHold

\* The tables' constraints say what a snapshot is.
LEMMA SnapshotIsRegister ==
  ASSUME IsRegister(register), Constraints(register), AddressesHold(register)
  PROVE  IsSnapshot(Snapshot) /\ HasAddresses(Snapshot)
<1>1. PICK snap : snap = Snapshot
  OBVIOUS
<1>2. /\ snap.municipalities = register.municipalities /\ snap.schools = register.schools
      /\ snap.slug_history = register.slug_history
  BY <1>1 DEF Snapshot
<1>3. \A m, n \in DOMAIN register.municipalities :
        register.municipalities[m].number = register.municipalities[n].number => m = n
  BY DEF Constraints, MunicipalityConstraints, Unique
<1>4. \A s, t \in DOMAIN register.schools :
        register.schools[s].orgnr # None /\ register.schools[s].orgnr = register.schools[t].orgnr
          => s = t
  BY DEF Constraints, SchoolConstraints, Unique
<1>5. \A s, t \in DOMAIN register.schools :
        /\ register.schools[s].slug # NoSlug /\ register.schools[s].slug = register.schools[t].slug
        /\ register.schools[s].municipality_id = register.schools[t].municipality_id
        => s = t
  BY DEF Constraints, SchoolConstraints, Unique
<1>6. /\ \A s \in DOMAIN register.schools :
           /\ register.schools[s].municipality_id \in DOMAIN register.municipalities
           /\ register.schools[s].status \in {"active", "closed"}
      /\ \A h \in register.slug_history : h.school_id \in DOMAIN register.schools /\ h.slug # NoSlug
  BY DEF Constraints, SchoolConstraints
<1>7. IsSnapshot(snap)
  BY <1>2, <1>3, <1>4, <1>6 DEF IsSnapshot, IsRegister
<1>8. AddressesHold(snap)
  BY <1>2, SameAddresses
<1> QED BY <1>1, <1>2, <1>5, <1>6, <1>7, <1>8 DEF HasAddresses

\* What fetch returns of the sources has their shape.
LEMMA FetchedIsSources ==
  ASSUME IsSources(sources)
  PROVE  IsInputs(Fetched)
<1>1. PICK inputs : inputs = Fetched
  OBVIOUS
<1>2. /\ inputs.municipalities = sources.municipalities
      /\ inputs.code_changes = (IF Kind = "seed" THEN <<>> ELSE sources.code_changes)
      /\ inputs.units = [o \in Wanted |-> sources.units[o]]
  BY <1>1 DEF Fetched
<1>3. Wanted \subseteq DOMAIN sources.units
  BY DEF Wanted
<1>4. IsFiniteSet(Wanted)
  BY <1>3, FS_Subset DEF IsSources
<1>5. inputs.code_changes \in Seq(SsbChanges)
  BY <1>2 DEF IsSources
<1> QED BY <1>1, <1>2, <1>3, <1>4, <1>5 DEF IsInputs, IsSources

\* What SSB splits according to the sources, the planner takes for split.
LEMMA SplitCodeIsSplit ==
  ASSUME IsSources(sources), NEW m \in DOMAIN register.municipalities,
         register.municipalities[m].status = "active",
         register.municipalities[m].number \in SplitCodes(sources)
  PROVE  IsSplit(Snapshot, Fetched, m)
<1>1. PICK inputs : inputs = Fetched
  OBVIOUS
<1>2. PICK n : n = register.municipalities[m].number
  OBVIOUS
<1>3. Kind = "sync"
  BY DEF Kind, RegisterIsEmpty
<1>4. /\ inputs.municipalities = sources.municipalities
      /\ inputs.code_changes = sources.code_changes
  BY <1>1, <1>3 DEF Fetched
<1>5. PICK c \in ToSet(sources.code_changes), d \in ToSet(sources.code_changes) :
        /\ c.old_code = n /\ d.old_code = n /\ c.new_code # d.new_code
        /\ ~(c.old_code = c.new_code /\ c.old_name = c.new_name)
        /\ ~(d.old_code = d.new_code /\ d.old_name = d.new_name)
        /\ n \notin DOMAIN sources.municipalities
  BY <1>2 DEF SplitCodes
<1>6. PICK i \in DOMAIN inputs.code_changes, j \in DOMAIN inputs.code_changes :
        c = inputs.code_changes[i] /\ d = inputs.code_changes[j]
  BY <1>4 DEF ToSet
<1>7. i \in Group(inputs, n) /\ j \in Group(inputs, n)
  BY <1>4, <1>5, <1>6 DEF Group, CodeChanges
<1>8. n \in GoneCodes(inputs)
  BY <1>5, <1>6, <1>7 DEF GoneCodes, Group
<1>9. c.new_code \in Targets(inputs, n) /\ d.new_code \in Targets(inputs, n)
  BY <1>6, <1>7 DEF Targets
<1>10. IsFiniteSet(Targets(inputs, n))
  <2>1. IsInputs(inputs)
    BY <1>1, FetchedIsSources
  <2>2. PICK k \in Nat : DOMAIN inputs.code_changes = 1..k
    BY <2>1 DEF IsInputs
  <2>3. IsFiniteSet(1..k) /\ Group(inputs, n) \subseteq 1..k
    BY <2>2, FS_Interval DEF Group, CodeChanges
  <2>4. IsFiniteSet(Group(inputs, n))
    BY <2>3, FS_Subset
  <2>5. PICK f : f = [x \in Group(inputs, n) |-> inputs.code_changes[x].new_code]
    OBVIOUS
  <2>6. f \in Surjection(Group(inputs, n), Targets(inputs, n))
    BY <2>5 DEF Surjection, Targets
  <2> QED BY <2>4, <2>6, FS_Surjection
<1>11. Cardinality(Targets(inputs, n)) # 1
  <2>1. SUFFICES ASSUME Cardinality(Targets(inputs, n)) = 1 PROVE FALSE
    OBVIOUS
  <2>2. \E x : Targets(inputs, n) = {x}
    BY <1>10, <2>1, FS_Singleton
  <2> QED BY <1>5, <1>9, <2>2
<1>12. PICK snap : snap = Snapshot
  OBVIOUS
<1>13. snap.municipalities = register.municipalities
  BY <1>12 DEF Snapshot
<1>14. m \in ActiveMunicipalities(snap)
  BY <1>13 DEF ActiveMunicipalities
<1> QED BY <1>1, <1>2, <1>8, <1>11, <1>12, <1>13, <1>14 DEF IsSplit

\* The operations fit the tables they are written to.
PlanFits(reg, ops) ==
  /\ Ordered(ops) /\ ClosedBy(ops) \subseteq DOMAIN reg.schools
  /\ \A op \in ToSet(ops) :
       OpFits(reg, ClosedBy(ops), op) /\ (op.op # "create" => op.id \in DOMAIN reg.schools)

\* No operation names the municipality or one of its schools.
PassedOver(reg, plan, m) ==
  /\ \A op \in ToSet(plan.municipality_ops) : op.op = "create" \/ op.id # m
  /\ \A op \in ToSet(plan.school_ops) :
       op.op = "create" \/ reg.schools[op.id].municipality_id # m

\* A plan suits the tables, and as long as nothing has changed since the
\* snapshot also the FAUs and the sources.
PlanSuits(plan) ==
  /\ IsPlan(plan) /\ PlanFits(register, plan.school_ops)

PlanIsFresh(plan) ==
  /\ ClosedBy(plan.school_ops) \cap tenants = {}
  /\ \A m \in DOMAIN register.municipalities :
       /\ register.municipalities[m].status = "active"
       /\ register.municipalities[m].number \in SplitCodes(sources)
       => PassedOver(register, plan, m)

\* Whatever the register and the sources, the plan of a run suits both.
LEMMA PlanOfTheRun ==
  ASSUME IsRegister(register), Constraints(register), AddressesHold(register), IsSources(sources),
         NEW accept, Plan(Snapshot, Fetched, accept).outcome = "apply"
  PROVE  /\ PlanSuits(Plan(Snapshot, Fetched, accept))
         /\ PlanIsFresh(Plan(Snapshot, Fetched, accept))
<1>1. PICK snap, inputs : snap = Snapshot /\ inputs = Fetched
  OBVIOUS
<1>2. IsSnapshot(snap) /\ HasAddresses(snap) /\ IsInputs(inputs)
  BY <1>1, SnapshotIsRegister, FetchedIsSources
<1>3. PICK st : st = PlanMunicipalities(snap, inputs)
  OBVIOUS
<1>4. /\ IsWorking(snap, st) /\ AsksWell(st)
      /\ \A m : IsSplit(snap, inputs, m) =>
           /\ LeftAlone(st, m, snap.municipalities[m].number)
           /\ snap.municipalities[m].number \in st.blocked
  BY <1>2, <1>3, PlanMunicipalitiesEffect
<1>5. PICK plan : plan = PlanFrom(snap, inputs, st)
  OBVIOUS
<1>6. Plan(Snapshot, Fetched, accept) = plan
  <2>1. Plan(Snapshot, Fetched, accept) = Outcome(snap, inputs, accept, plan)
    BY <1>1, <1>3, <1>5 DEF Plan
  <2>2. Outcome(snap, inputs, accept, plan) = plan
        \/ Outcome(snap, inputs, accept, plan).outcome \in {"empty_source", "mass_change", "no_change"}
    BY DEF Outcome
  <2> QED BY <2>1, <2>2
<1>7. IsPlan(plan) /\ plan.municipality_ops = st.ops /\ SchoolsPlanned(snap, st, plan.school_ops)
  BY <1>2, <1>4, <1>5, PlanFromEffect
<1>8. /\ snap.municipalities = register.municipalities /\ snap.schools = register.schools
      /\ snap.slug_history = register.slug_history /\ snap.live_fau = tenants
  BY <1>1 DEF Snapshot
<1>9. PICK ops, closing : ops = plan.school_ops /\ closing = ClosedBy(ops)
  OBVIOUS
<1>10. /\ Ordered(ops) /\ closing \cap tenants = {} /\ closing \subseteq DOMAIN register.schools
       /\ \A op \in ToSet(ops) :
            OpFits(snap, closing, op) /\ (op.op # "create" => MayChange(snap, st, op.id))
  BY <1>7, <1>8, <1>9 DEF SchoolsPlanned
<1>11. \A op : OpFits(snap, closing, op) => OpFits(register, closing, op)
  BY <1>8, SameFits
<1>12. PlanFits(register, ops)
  BY <1>8, <1>9, <1>10, <1>11 DEF PlanFits, MayChange
<1>13. ASSUME NEW m \in DOMAIN register.municipalities,
              register.municipalities[m].status = "active",
              register.municipalities[m].number \in SplitCodes(sources)
       PROVE  PassedOver(register, plan, m)
  <2>1. IsSplit(snap, inputs, m)
    BY <1>1, <1>13, SplitCodeIsSplit
  <2>2. LeftAlone(st, m, snap.municipalities[m].number) /\ snap.municipalities[m].number \in st.blocked
    BY <1>4, <2>1
  <2>3. \A s \in DOMAIN snap.schools :
          MayChange(snap, st, s) => snap.schools[s].municipality_id # m
    BY <1>2, <1>4, <2>1, <2>2, SplitIsPassedOver
  <2>4. \A op \in ToSet(ops) : op.op = "create" \/ register.schools[op.id].municipality_id # m
    BY <1>8, <1>10, <2>3 DEF MayChange
  <2>5. \A op \in ToSet(plan.municipality_ops) : op.op = "create" \/ op.id # m
    BY <1>7, <2>2 DEF LeftAlone
  <2> QED BY <1>9, <2>4, <2>5 DEF PassedOver
<1>14. PlanIsFresh(plan)
  BY <1>9, <1>10, <1>13 DEF PlanIsFresh
<1> QED BY <1>6, <1>7, <1>9, <1>12, <1>14 DEF PlanSuits

-----------------------------------------------------------------------------
(* What one school operation does to the addresses (school_ops.rs).        *)

\* A school's address and status after an operation, and the history row the
\* operation may have left.
RowOf(reg, s, municipality, slug, status) ==
  /\ reg.schools[s].municipality_id = municipality /\ reg.schools[s].slug = slug
  /\ reg.schools[s].status = status

Leaves(a, new, s, municipality, slug) ==
  \A h \in new.slug_history :
    \/ h \in a.slug_history
    \/ /\ h.school_id = s /\ h.municipality_id = municipality /\ h.slug = slug /\ slug # NoSlug

\* Rows an operation does not name stay; a create never overwrites one.
StepOf(a, op, ids, new) ==
  /\ DOMAIN a.schools \subseteq DOMAIN new.schools
  /\ \A s \in DOMAIN a.schools :
       op.op = "create" \/ s # op.id => new.schools[s] = a.schools[s]
  /\ op.op = "create" =>
       /\ new.slug_history = a.slug_history
       /\ \A s \in DOMAIN new.schools \ DOMAIN a.schools :
            /\ s = IdOf(ids.schools, op.new)
            /\ RowOf(new, s, IdOf(ids.municipalities, op.municipality), op.slug, "active")
  /\ op.op # "create" => DOMAIN new.schools = DOMAIN a.schools
  /\ op.op = "rename" =>
       /\ RowOf(new, op.id, a.schools[op.id].municipality_id, op.new, a.schools[op.id].status)
       /\ Leaves(a, new, op.id, a.schools[op.id].municipality_id, op.old)
  /\ op.op = "update_attributes" =>
       /\ RowOf(new, op.id, a.schools[op.id].municipality_id, a.schools[op.id].slug,
                a.schools[op.id].status)
       /\ new.slug_history = a.slug_history
  /\ op.op = "move" =>
       /\ RowOf(new, op.id, IdOf(ids.municipalities, op.to), op.new, a.schools[op.id].status)
       /\ Leaves(a, new, op.id, op.from, op.old)
  /\ op.op = "close" =>
       /\ RowOf(new, op.id, a.schools[op.id].municipality_id, NoSlug, "closed")
       /\ Leaves(a, new, op.id, a.schools[op.id].municipality_id, a.schools[op.id].slug)

\* A slug that goes to history goes there under the municipality given.
LEMMA HistoryLeaves ==
  ASSUME NEW a, NEW new, NEW s, NEW municipality, NEW slug, NEW at,
         new.slug_history = SchoolSlugHistory(a, s, municipality, slug, at)
  PROVE  Leaves(a, new, s, municipality, slug)
<1>1. PICK from : new.slug_history =
        IF slug # NoSlug /\ from < at
        THEN a.slug_history \cup
               {[municipality_id |-> municipality, slug |-> slug, school_id |-> s,
                 valid_from |-> from, valid_until |-> at]}
        ELSE a.slug_history
  BY DEF SchoolSlugHistory
<1> QED BY <1>1 DEF Leaves

\* apply_school_op, as far as addresses are concerned, is one of five steps.
LEMMA SchoolOpSteps ==
  ASSUME NEW a, IsRegister(a), NEW op, IsSchoolOp(op),
         op.op # "create" => op.id \in DOMAIN a.schools, NEW ids, NEW at
  PROVE  StepOf(a, op, ids, ApplySchoolOp(a, op, ids, at))
<1>0. PICK new : new = ApplySchoolOp(a, op, ids, at)
  OBVIOUS
<1>1. \A s \in DOMAIN a.schools : DOMAIN a.schools[s] = SchoolColumns
  BY DEF IsRegister
<1>2. CASE op.op = "create"
  <2>1. PICK row : row =
          [municipality_id |-> IdOf(ids.municipalities, op.municipality), origin |-> "register",
           orgnr |-> op.orgnr, register_name |-> op.name, display_name |-> op.name,
           curated |-> FALSE, slug |-> op.slug, verification |-> op.verification,
           verified_at |-> None, status |-> "active", in_scope |-> TRUE,
           scope_override |-> "unset", post_town |-> op.post_town, successor_id |-> None,
           closure_reason |-> "none", created_at |-> at]
    OBVIOUS
  <2>2. PICK k : k = IdOf(ids.schools, op.new)
    OBVIOUS
  <2>3. new = [a EXCEPT !.schools = Added(@, k, row)]
    BY <1>0, <1>2, <2>1, <2>2 DEF ApplySchoolOp, ApplyCreateSchool
  <2>4. new.schools = Added(a.schools, k, row) /\ new.slug_history = a.slug_history
    BY <2>3 DEF IsRegister
  <2>5. /\ DOMAIN new.schools = DOMAIN a.schools \cup {k}
        /\ \A s \in DOMAIN a.schools : new.schools[s] = a.schools[s]
        /\ k \notin DOMAIN a.schools => new.schools[k] = row
    BY <2>4 DEF Added
  <2>6. \A s \in DOMAIN new.schools \ DOMAIN a.schools :
          RowOf(new, s, IdOf(ids.municipalities, op.municipality), op.slug, "active")
    <3> TAKE s \in DOMAIN new.schools \ DOMAIN a.schools
    <3>1. new.schools[s] = row
      BY <2>5
    <3> QED BY <2>1, <3>1 DEF RowOf
  <2> QED BY <1>0, <1>2, <2>2, <2>4, <2>5, <2>6 DEF StepOf
<1>3. CASE op.op = "rename"
  <2>1. PICK history, row :
          /\ history = SchoolSlugHistory(a, op.id, a.schools[op.id].municipality_id, op.old, at)
          /\ row = [a.schools[op.id] EXCEPT !.register_name = op.register_name,
                                            !.display_name = op.display_name, !.slug = op.new]
    OBVIOUS
  <2>2. new = [a EXCEPT !.slug_history = history, !.schools[op.id] = row]
    BY <1>0, <1>3, <2>1 DEF ApplySchoolOp, ApplyRenameSchool, IsRegister
  <2>3. /\ new.slug_history = history /\ DOMAIN new.schools = DOMAIN a.schools
        /\ new.schools[op.id] = row
        /\ \A s \in DOMAIN a.schools : s # op.id => new.schools[s] = a.schools[s]
    BY <1>3, <2>2 DEF IsRegister
  <2>4. RowOf(new, op.id, a.schools[op.id].municipality_id, op.new, a.schools[op.id].status)
    BY <1>1, <1>3, <2>1, <2>3 DEF RowOf, SchoolColumns
  <2>5. Leaves(a, new, op.id, a.schools[op.id].municipality_id, op.old)
    BY <2>1, <2>3, HistoryLeaves
  <2> QED BY <1>0, <1>3, <2>3, <2>4, <2>5 DEF StepOf
<1>4. CASE op.op = "update_attributes"
  <2>1. new = [a EXCEPT !.schools[op.id].post_town = op.post_town]
    BY <1>0, <1>4 DEF ApplySchoolOp, UpdateAttributes
  <2>2. /\ new.slug_history = a.slug_history /\ DOMAIN new.schools = DOMAIN a.schools
        /\ new.schools[op.id] = [a.schools[op.id] EXCEPT !.post_town = op.post_town]
        /\ \A s \in DOMAIN a.schools : s # op.id => new.schools[s] = a.schools[s]
    BY <1>4, <2>1 DEF IsRegister
  <2>3. RowOf(new, op.id, a.schools[op.id].municipality_id, a.schools[op.id].slug,
              a.schools[op.id].status)
    BY <1>1, <1>4, <2>2 DEF RowOf, SchoolColumns
  <2> QED BY <1>0, <1>4, <2>2, <2>3 DEF StepOf
<1>5. CASE op.op = "move"
  <2>1. PICK history, row, to :
          /\ history = SchoolSlugHistory(a, op.id, op.from, op.old, at)
          /\ to = IdOf(ids.municipalities, op.to)
          /\ row = [a.schools[op.id] EXCEPT !.municipality_id = to, !.slug = op.new]
    OBVIOUS
  <2>2. new = [a EXCEPT !.slug_history = history, !.schools[op.id] = row]
    BY <1>0, <1>5, <2>1 DEF ApplySchoolOp, ApplyMove, IsRegister
  <2>3. /\ new.slug_history = history /\ DOMAIN new.schools = DOMAIN a.schools
        /\ new.schools[op.id] = row
        /\ \A s \in DOMAIN a.schools : s # op.id => new.schools[s] = a.schools[s]
    BY <1>5, <2>2 DEF IsRegister
  <2>4. RowOf(new, op.id, to, op.new, a.schools[op.id].status)
    BY <1>1, <1>5, <2>1, <2>3 DEF RowOf, SchoolColumns
  <2>5. Leaves(a, new, op.id, op.from, op.old)
    BY <2>1, <2>3, HistoryLeaves
  <2> QED BY <1>0, <1>5, <2>1, <2>3, <2>4, <2>5 DEF StepOf
<1>6. CASE op.op = "close"
  <2>1. PICK history, row :
          /\ history = SchoolSlugHistory(a, op.id, a.schools[op.id].municipality_id,
                                         a.schools[op.id].slug, at)
          /\ row = [a.schools[op.id] EXCEPT
                      !.status = "closed", !.closure_reason = op.reason, !.slug = NoSlug,
                      !.in_scope = @ /\ op.reason # "out_of_scope"]
    OBVIOUS
  <2>2. new = [a EXCEPT !.slug_history = history, !.schools[op.id] = row]
    <3>1. ApplySchoolOp(a, op, ids, at) = ApplyClose(a, op, at)
      BY <1>6 DEF ApplySchoolOp
    <3> QED BY <1>0, <2>1, <3>1, Zenon DEF ApplyClose
  <2>3. /\ new.slug_history = history /\ DOMAIN new.schools = DOMAIN a.schools
        /\ new.schools[op.id] = row
        /\ \A s \in DOMAIN a.schools : s # op.id => new.schools[s] = a.schools[s]
    BY <1>6, <2>2 DEF IsRegister
  <2>4. RowOf(new, op.id, a.schools[op.id].municipality_id, NoSlug, "closed")
    BY <1>1, <1>6, <2>1, <2>3 DEF RowOf, SchoolColumns
  <2>5. Leaves(a, new, op.id, a.schools[op.id].municipality_id, a.schools[op.id].slug)
    BY <2>1, <2>3, HistoryLeaves
  <2> QED BY <1>0, <1>6, <2>3, <2>4, <2>5 DEF StepOf
<1> QED BY <1>2, <1>3, <1>4, <1>5, <1>6 DEF IsSchoolOp

\* An address is one the school had before the plan, or clear of all others.
OwnOrClear(reg, closing, s, municipality, slug) ==
  \/ slug = NoSlug
  \/ /\ s \in DOMAIN reg.schools
     /\ reg.schools[s].municipality_id = municipality /\ reg.schools[s].slug = slug
  \/ Clear(reg, closing, municipality, slug, s)

\* A reference clear before the plan is clear as the id it becomes.
LEMMA ClearAtIds ==
  ASSUME NEW reg, IsRegister(reg), Constraints(reg), NEW closing, NEW ids, ids = NewIds(reg),
         NEW m \in Int, NEW slug, NEW me \in Int, Clear(reg, closing, m, slug, me)
  PROVE  Clear(reg, closing, IdOf(ids.municipalities, m), slug, IdOf(ids.schools, me))
<1>1. /\ ids.municipalities \in Nat /\ ids.schools \in Nat
      /\ \A x \in DOMAIN reg.municipalities : x \in Nat /\ x <= ids.municipalities
      /\ \A x \in DOMAIN reg.schools : x \in Nat /\ x <= ids.schools
  BY NewIdsType DEF AreIds, IsRegister, Ids
<1>2. PICK to, id : to = IdOf(ids.municipalities, m) /\ id = IdOf(ids.schools, me)
  OBVIOUS
<1>3. \A x \in DOMAIN reg.municipalities : x = to => x = m
  BY <1>1, <1>2 DEF IdOf
<1>4. \A x \in DOMAIN reg.schools : x = me => x = id
  BY <1>1, <1>2 DEF IdOf
<1>5. /\ \A s \in DOMAIN reg.schools : reg.schools[s].municipality_id \in DOMAIN reg.municipalities
      /\ \A h \in reg.slug_history :
           h.municipality_id \in DOMAIN reg.municipalities /\ h.school_id \in DOMAIN reg.schools
  BY DEF Constraints, SchoolConstraints
<1>6. Clear(reg, closing, to, slug, id)
  BY <1>3, <1>4, <1>5 DEF Clear
<1> QED BY <1>2, <1>6

\* What a register that some operations have led to still says of the one
\* before the plan.
Traced(reg, closing, done, a) ==
  /\ DOMAIN reg.schools \subseteq DOMAIN a.schools
  \* Schools no operation names are as they were.
  /\ \A s \in DOMAIN reg.schools :
       (\A op \in done : op.op = "create" \/ op.id # s) => a.schools[s] = reg.schools[s]
  \* The municipality changes by a move, the status by a close.
  /\ \A s \in DOMAIN reg.schools :
       (\A op \in done : ~(op.op = "move" /\ op.id = s)) =>
         a.schools[s].municipality_id = reg.schools[s].municipality_id
  /\ \A s \in DOMAIN reg.schools :
       a.schools[s].status = reg.schools[s].status \/ (s \in closing /\ a.schools[s].status = "closed")
  /\ \A op \in done : op.op = "close" => op.id \in closing /\ a.schools[op.id].status = "closed"
  \* Schools that close keep their address until then.
  /\ \A s \in closing :
       /\ a.schools[s].municipality_id = reg.schools[s].municipality_id
       /\ a.schools[s].slug \in {NoSlug, reg.schools[s].slug}
  \* An address in use is old or clear, one in history is old.
  /\ \A s \in DOMAIN a.schools :
       OwnOrClear(reg, closing, s, a.schools[s].municipality_id, a.schools[s].slug)
  /\ \A h \in a.slug_history :
       \/ h \in reg.slug_history
       \/ /\ h.school_id \in DOMAIN reg.schools
          /\ h.municipality_id = reg.schools[h.school_id].municipality_id
          /\ h.slug = reg.schools[h.school_id].slug

\* Each step of the applier leaves every row and address where the plan's operations so far
\* have put it.
LEMMA StepIsTraced ==
  ASSUME NEW reg, IsRegister(reg), Constraints(reg), NEW closing, closing \subseteq DOMAIN reg.schools,
         NEW ids, ids = NewIds(reg), NEW done, NEW a, Traced(reg, closing, done, a),
         NEW op, OpFits(reg, closing, op),
         op.op = "rename" => \A x \in done : ~(x.op = "move" /\ x.id = op.id),
         NEW new, StepOf(a, op, ids, new)
  PROVE  Traced(reg, closing, done \cup {op}, new)
<1>1. /\ DOMAIN reg.schools \subseteq DOMAIN a.schools /\ DOMAIN a.schools \subseteq DOMAIN new.schools
      /\ \A s \in DOMAIN a.schools :
           op.op = "create" \/ s # op.id => new.schools[s] = a.schools[s]
  BY DEF Traced, StepOf
<1>2. \A s \in DOMAIN a.schools :
        OwnOrClear(reg, closing, s, a.schools[s].municipality_id, a.schools[s].slug)
  BY DEF Traced
<1>3. CASE op.op = "create"
  <2>1. \A s \in DOMAIN a.schools : new.schools[s] = a.schools[s]
    BY <1>1, <1>3
  <2>2. ASSUME NEW s \in DOMAIN new.schools
        PROVE  OwnOrClear(reg, closing, s, new.schools[s].municipality_id, new.schools[s].slug)
    <3>1. CASE s \in DOMAIN a.schools
      BY <1>2, <2>1, <3>1
    <3>2. CASE s \notin DOMAIN a.schools
      <4>1. /\ op.municipality \in Int /\ op.new \in Int
            /\ Clear(reg, closing, op.municipality, op.slug, op.new)
        BY <1>3 DEF OpFits
      <4>2. Clear(reg, closing, IdOf(ids.municipalities, op.municipality), op.slug,
                  IdOf(ids.schools, op.new))
        BY <4>1, ClearAtIds
      <4>3. /\ s = IdOf(ids.schools, op.new) /\ new.schools[s].slug = op.slug
            /\ new.schools[s].municipality_id = IdOf(ids.municipalities, op.municipality)
        BY <1>3, <3>2 DEF StepOf, RowOf
      <4> QED BY <4>2, <4>3 DEF OwnOrClear
    <3> QED BY <3>1, <3>2
  <2>3. new.slug_history = a.slug_history
    BY <1>3 DEF StepOf
  <2>4. \A s \in DOMAIN reg.schools : new.schools[s] = a.schools[s]
    BY <1>1, <2>1
  <2>5. \A x \in done \cup {op} :
          x.op = "close" => x.id \in closing /\ new.schools[x.id].status = "closed"
    BY <1>3, <2>4 DEF Traced
  <2> QED BY <1>1, <1>3, <2>2, <2>3, <2>4, <2>5 DEF Traced
<1>4. CASE op.op # "create"
  <2>1. op.id \in DOMAIN reg.schools /\ DOMAIN new.schools = DOMAIN a.schools
    BY <1>4 DEF OpFits, StepOf
  <2>2. PICK id \in DOMAIN reg.schools : id = op.id
    BY <2>1
  <2>3. \A s \in DOMAIN a.schools : s # id => new.schools[s] = a.schools[s]
    BY <1>1, <2>2
  <2>4. /\ (op.op # "close" => new.schools[id].status = a.schools[id].status)
        /\ (op.op = "close" => new.schools[id].status = "closed" /\ id \in closing)
    BY <1>4, <2>2 DEF OpFits, StepOf, RowOf
  <2>5. op.op # "move" => new.schools[id].municipality_id = a.schools[id].municipality_id
    BY <1>4, <2>2 DEF OpFits, StepOf, RowOf
  <2>6. op.op # "close" => id \notin closing
    BY <1>4, <2>2 DEF OpFits
  <2>7. op.op = "rename" => a.schools[id].municipality_id = reg.schools[id].municipality_id
    BY <2>2 DEF Traced
  <2>8. OwnOrClear(reg, closing, id, new.schools[id].municipality_id, new.schools[id].slug)
    <3>1. CASE op.op = "rename"
      <4>1. /\ new.schools[id].slug = op.new
            /\ \/ op.new = reg.schools[id].slug
               \/ Clear(reg, closing, reg.schools[id].municipality_id, op.new, id)
        BY <2>2, <3>1 DEF OpFits, StepOf, RowOf
      <4> QED BY <2>5, <2>7, <3>1, <4>1 DEF OwnOrClear
    <3>2. CASE op.op = "update_attributes"
      <4>1. new.schools[id].slug = a.schools[id].slug
        BY <2>2, <3>2 DEF StepOf, RowOf
      <4> QED BY <1>1, <1>2, <2>5, <3>2, <4>1
    <3>3. CASE op.op = "move"
      <4>1. Clear(reg, closing, op.to, op.new, id)
        BY <2>2, <3>3 DEF OpFits
      <4>2. /\ new.schools[id].slug = op.new
            /\ new.schools[id].municipality_id = IdOf(ids.municipalities, op.to)
        BY <2>2, <3>3 DEF StepOf, RowOf
      <4>3. id \in Int /\ id >= 0
        BY DEF IsRegister, Ids
      <4>4. op.to \in Int
        BY <3>3 DEF OpFits
      <4>5. Clear(reg, closing, IdOf(ids.municipalities, op.to), op.new, IdOf(ids.schools, id))
        BY <4>1, <4>3, <4>4, ClearAtIds
      <4> QED BY <4>2, <4>3, <4>5 DEF OwnOrClear, IdOf
    <3>4. CASE op.op = "close"
      BY <2>2, <3>4 DEF StepOf, RowOf, OwnOrClear
    <3> QED BY <1>4, <3>1, <3>2, <3>3, <3>4 DEF OpFits
  <2>9. ASSUME NEW h \in new.slug_history, h \notin a.slug_history
        PROVE  /\ h.school_id = id /\ h.municipality_id = reg.schools[id].municipality_id
               /\ h.slug = reg.schools[id].slug
    <3>1. CASE op.op = "rename"
      BY <2>2, <2>7, <2>9, <3>1 DEF StepOf, Leaves, OpFits
    <3>2. CASE op.op = "update_attributes"
      BY <2>9, <3>2 DEF StepOf
    <3>3. CASE op.op = "move"
      BY <2>2, <2>9, <3>3 DEF StepOf, Leaves, OpFits
    <3>4. CASE op.op = "close"
      <4>1. /\ a.schools[id].municipality_id = reg.schools[id].municipality_id
            /\ a.schools[id].slug \in {NoSlug, reg.schools[id].slug}
        BY <2>4, <3>4 DEF Traced
      <4> QED BY <2>2, <2>9, <3>4, <4>1 DEF StepOf, Leaves
    <3> QED BY <1>4, <3>1, <3>2, <3>3, <3>4 DEF OpFits
  <2>10. \A s \in DOMAIN reg.schools :
           (\A x \in done \cup {op} : x.op = "create" \/ x.id # s) => new.schools[s] = reg.schools[s]
    BY <1>1, <1>4, <2>2, <2>3 DEF Traced
  <2>11. \A s \in DOMAIN reg.schools :
           (\A x \in done \cup {op} : ~(x.op = "move" /\ x.id = s)) =>
             new.schools[s].municipality_id = reg.schools[s].municipality_id
    BY <1>1, <2>2, <2>3, <2>5 DEF Traced
  <2>12. \A s \in DOMAIN reg.schools :
           new.schools[s].status = reg.schools[s].status
             \/ (s \in closing /\ new.schools[s].status = "closed")
    BY <1>1, <2>3, <2>4 DEF Traced
  <2>13. ASSUME NEW x \in done \cup {op}, x.op = "close"
         PROVE  x.id \in closing /\ new.schools[x.id].status = "closed"
    <3>1. CASE x = op
      BY <2>2, <2>4, <2>13, <3>1
    <3>2. CASE x # op
      <4>1. x \in done /\ x.id \in closing /\ a.schools[x.id].status = "closed"
        BY <2>13, <3>2 DEF Traced
      <4>2. x.id # id => new.schools[x.id] = a.schools[x.id]
        BY <1>1, <2>3, <4>1
      <4> QED BY <2>4, <4>1, <4>2
    <3> QED BY <3>1, <3>2
  <2>14. \A s \in closing :
           /\ new.schools[s].municipality_id = reg.schools[s].municipality_id
           /\ new.schools[s].slug \in {NoSlug, reg.schools[s].slug}
    <3> TAKE s \in closing
    <3>1. /\ a.schools[s].municipality_id = reg.schools[s].municipality_id
          /\ a.schools[s].slug \in {NoSlug, reg.schools[s].slug}
      BY DEF Traced
    <3>2. CASE s # id
      BY <1>1, <2>3, <3>1, <3>2
    <3>3. CASE s = id
      <4>1. op.op = "close"
        BY <2>6, <3>3
      <4>2. new.schools[id].slug = NoSlug
        BY <2>2, <4>1 DEF StepOf, RowOf
      <4> QED BY <2>5, <3>1, <3>3, <4>1, <4>2
    <3> QED BY <3>2, <3>3
  <2>15. \A s \in DOMAIN new.schools :
           OwnOrClear(reg, closing, s, new.schools[s].municipality_id, new.schools[s].slug)
    BY <1>2, <2>1, <2>3, <2>8
  <2>16. \A h \in new.slug_history :
           \/ h \in reg.slug_history
           \/ /\ h.school_id \in DOMAIN reg.schools
              /\ h.municipality_id = reg.schools[h.school_id].municipality_id
              /\ h.slug = reg.schools[h.school_id].slug
    BY <2>9 DEF Traced
  <2> QED BY <1>1, <2>10, <2>11, <2>12, <2>13, <2>14, <2>15, <2>16 DEF Traced
<1> QED BY <1>3, <1>4

\* All the school operations of a plan, one after another.
LEMMA SchoolOpsTraced ==
  ASSUME NEW reg, IsRegister(reg), Constraints(reg), NEW ops, IsSeq(ops), PlanFits(reg, ops),
         NEW closing, closing = ClosedBy(ops), NEW ids, ids = NewIds(reg), NEW at,
         NEW acc, IsRegister(acc.reg), SameSchools(reg, acc.reg)
  PROVE  Traced(reg, closing, ToSet(ops), ApplySchoolOps(acc, ops, ids, at).reg)
<1>1. PICK n \in Nat : /\ n = Len(ops) /\ DOMAIN ops = 1..n
                       /\ \A i \in 1..n : ops[i] \in ToSet(ops)
  BY SeqDomain
<1>2. /\ closing \subseteq DOMAIN reg.schools
      /\ \A i \in 1..n : OpFits(reg, closing, ops[i]) /\ IsSchoolOp(ops[i])
      /\ \A j, k \in 1..n :
           j < k /\ ops[j].op = "move" /\ ops[k].op = "rename" => ops[j].id # ops[k].id
  BY <1>1, FitsIsSchoolOp DEF PlanFits, Ordered
<1>3. AreIds(ids)
  BY NewIdsType
<1>4. PICK run : /\ IsRun("school_op", <<ids, at>>, acc, ops, n, run)
                 /\ ApplySchoolOps(acc, ops, ids, at) = run[n]
  BY <1>1, SchoolOpsSteps
<1>5. /\ run[0] = acc
      /\ \A i \in 1..n : run[i] = Checked(run[i - 1], ApplySchoolOp(run[i - 1].reg, ops[i], ids, at))
  BY <1>4 DEF IsRun, FoldStep
<1> DEFINE Done(k) == {ops[i] : i \in 1..k}
           Good(k) == IsRegister(run[k].reg) /\ Traced(reg, closing, Done(k), run[k].reg)
           K == {k \in 0..n : Good(k)}
<1>6. 0 \in K
  <2>1. run[0].reg.schools = reg.schools /\ run[0].reg.slug_history = reg.slug_history
    BY <1>5 DEF SameSchools
  <2>2. Done(0) = {}
    OBVIOUS
  <2>3. \A s \in DOMAIN reg.schools :
          OwnOrClear(reg, closing, s, reg.schools[s].municipality_id, reg.schools[s].slug)
    BY DEF OwnOrClear
  <2> HIDE DEF Done
  <2>4. Traced(reg, closing, Done(0), run[0].reg)
    BY <1>2, <2>1, <2>2, <2>3 DEF Traced
  <2> QED BY <1>5, <2>4
<1>7. ASSUME NEW k \in 0..n, k \in K, k < n PROVE k + 1 \in K
  <2>1. k + 1 \in 1..n /\ (k + 1) - 1 = k /\ k + 1 \in 0..n
    BY <1>7
  <2>2. PICK a, new, op, done : /\ a = run[k].reg /\ new = run[k + 1].reg /\ op = ops[k + 1]
                                /\ done = Done(k)
    OBVIOUS
  <2>3. new = ApplySchoolOp(a, op, ids, at)
    <3>1. run[k + 1] = Checked(run[k], ApplySchoolOp(run[k].reg, ops[k + 1], ids, at))
      BY <1>5, <2>1
    <3> QED BY <2>2, <3>1, CheckedParts
  <2>4. IsRegister(a) /\ Traced(reg, closing, done, a) /\ OpFits(reg, closing, op) /\ IsSchoolOp(op)
    BY <1>2, <1>7, <2>1, <2>2
  <2>5. Done(k + 1) = done \cup {op}
    <3>1. 1..(k + 1) = (1..k) \cup {k + 1}
      BY <1>7
    <3> QED BY <2>2, <3>1
  <2>6. op.op = "rename" => \A x \in done : ~(x.op = "move" /\ x.id = op.id)
    <3>1. SUFFICES ASSUME op.op = "rename", NEW x \in done PROVE ~(x.op = "move" /\ x.id = op.id)
      OBVIOUS
    <3>2. PICK i \in 1..k : x = ops[i]
      BY <2>2
    <3>3. i \in 1..n /\ i < k + 1
      BY <1>7, <3>2
    <3> QED BY <1>2, <2>1, <2>2, <3>1, <3>2, <3>3
  <2>7. op.op # "create" => op.id \in DOMAIN a.schools
    BY <1>2, <2>4 DEF OpFits, Traced
  <2> HIDE DEF Done
  <2>8. StepOf(a, op, ids, new)
    BY <2>3, <2>4, <2>7, SchoolOpSteps
  <2>9. Traced(reg, closing, done \cup {op}, new)
    BY <1>2, <2>4, <2>6, <2>8, StepIsTraced
  <2>10. IsRegister(new)
    BY <1>3, <2>3, <2>4, SchoolOpEffect
  <2>11. Good(k + 1)
    BY <2>2, <2>5, <2>9, <2>10
  <2> HIDE DEF Good
  <2> QED BY <2>1, <2>11
<1>8. n \in K
  <2> HIDE DEF K
  <2>1. Climbs(K, n)
    BY <1>6, <1>7 DEF Climbs
  <2> QED BY <2>1, Climb
<1>9. Done(n) = ToSet(ops)
  BY <1>1 DEF ToSet
<1> QED BY <1>4, <1>8, <1>9

\* An address that leads to a school's old address leads to that school.
LEMMA HolderIsOwner ==
  ASSUME NEW reg, IsRegister(reg), HasAddresses(reg), NEW closing,
         NEW x \in DOMAIN reg.schools, x \notin closing, reg.schools[x].status = "active",
         NEW m, NEW slug, slug # NoSlug,
         \/ reg.schools[x].municipality_id = m /\ reg.schools[x].slug = slug
         \/ \E h \in reg.slug_history :
              h.school_id = x /\ h.municipality_id = m /\ h.slug = slug,
         NEW c, OwnOrClear(reg, closing, c, m, slug)
  PROVE  c = x
<1>1. CASE Clear(reg, closing, m, slug, c)
  BY <1>1 DEF Clear
<1>2. CASE /\ c \in DOMAIN reg.schools
           /\ reg.schools[c].municipality_id = m /\ reg.schools[c].slug = slug
  <2>1. CASE reg.schools[x].municipality_id = m /\ reg.schools[x].slug = slug
    BY <1>2, <2>1 DEF HasAddresses
  <2>2. CASE \E h \in reg.slug_history :
               h.school_id = x /\ h.municipality_id = m /\ h.slug = slug
    <3>1. PICK h \in reg.slug_history : h.school_id = x /\ h.municipality_id = m /\ h.slug = slug
      BY <2>2
    <3> DEFINE holders == {s \in DOMAIN reg.schools : /\ reg.schools[s].municipality_id = m
                                                       /\ reg.schools[s].slug = slug}
    <3>2. CurrentHolder(reg, m, slug) = IF holders = {} THEN None ELSE CHOOSE s \in holders : TRUE
      BY DEF CurrentHolder
    <3>3. \A s \in holders : s = c
      BY <1>2 DEF HasAddresses
    <3>4. c \in holders
      BY <1>2
    <3>5. CurrentHolder(reg, m, slug) = c
      BY <3>2, <3>3, <3>4
    <3>6. c # None
      BY <1>2 DEF IsRegister, Ids
    <3>7. PICK former : former = {g.school_id : g \in {g \in reg.slug_history :
                                    g.municipality_id = h.municipality_id /\ g.slug = h.slug}}
      OBVIOUS
    <3>8. Resolve(CurrentHolder(reg, m, slug), former) \in {x, None}
      BY <3>1, <3>7 DEF HasAddresses, AddressesHold
    <3> QED BY <3>5, <3>6, <3>8 DEF Resolve
  <2> QED BY <2>1, <2>2
<1> QED BY <1>1, <1>2 DEF OwnOrClear

\* After the operations of a plan, old addresses still mislead nobody.
LEMMA TracedAddressesHold ==
  ASSUME NEW reg, IsRegister(reg), HasAddresses(reg), NEW ops, NEW closing, closing = ClosedBy(ops),
         NEW a, Traced(reg, closing, ToSet(ops), a),
         NEW new, IsRegister(new), Constraints(new), new.slug_history = a.slug_history,
         DOMAIN new.schools = DOMAIN a.schools,
         \A s \in DOMAIN a.schools : RowOf(new, s, a.schools[s].municipality_id, a.schools[s].slug,
                                           a.schools[s].status)
  PROVE  AddressesHold(new)
<1>1. SUFFICES ASSUME NEW h \in new.slug_history, new.schools[h.school_id].status = "active"
      PROVE  Resolve(CurrentHolder(new, h.municipality_id, h.slug),
                     {g.school_id : g \in {g \in new.slug_history :
                        g.municipality_id = h.municipality_id /\ g.slug = h.slug}})
               \in {h.school_id, None}
  BY DEF AddressesHold
<1>2. PICK x, m, slug : x = h.school_id /\ m = h.municipality_id /\ slug = h.slug
  OBVIOUS
<1>3. PICK former : former = {g.school_id : g \in {g \in new.slug_history :
                                 g.municipality_id = h.municipality_id /\ g.slug = h.slug}}
  OBVIOUS
<1>4. PICK current : current = CurrentHolder(new, m, slug)
  OBVIOUS
<1>5. slug # NoSlug /\ x \in DOMAIN new.schools
      /\ \A g \in new.slug_history : g.school_id \in DOMAIN new.schools
  BY <1>2 DEF Constraints, SchoolConstraints
<1>6. x \in DOMAIN a.schools /\ a.schools[x].status = "active"
  BY <1>1, <1>2, <1>5 DEF RowOf
<1>7. \/ h \in reg.slug_history
      \/ /\ x \in DOMAIN reg.schools /\ m = reg.schools[x].municipality_id
         /\ slug = reg.schools[x].slug
  BY <1>2 DEF Traced
<1>8. x \in DOMAIN reg.schools
  BY <1>2, <1>7 DEF HasAddresses
<1>9. x \notin closing
  <2>1. SUFFICES ASSUME x \in closing PROVE FALSE
    OBVIOUS
  <2>2. PICK op \in ToSet(ops) : op.op = "close" /\ op.id = x
    BY <2>1 DEF ClosedBy
  <2>3. a.schools[x].status = "closed"
    BY <2>2 DEF Traced
  <2> QED BY <1>6, <2>3
<1>10. reg.schools[x].status = "active"
  BY <1>6, <1>8, <1>9 DEF Traced
<1>11. ASSUME NEW c \in DOMAIN new.schools, new.schools[c].municipality_id = m,
              new.schools[c].slug = slug
       PROVE  c = x
  <2>1. OwnOrClear(reg, closing, c, m, slug)
    BY <1>11 DEF Traced, RowOf
  <2>2. \/ reg.schools[x].municipality_id = m /\ reg.schools[x].slug = slug
        \/ \E g \in reg.slug_history :
             g.school_id = x /\ g.municipality_id = m /\ g.slug = slug
    BY <1>2, <1>7
  <2> QED BY <1>5, <1>8, <1>9, <1>10, <2>1, <2>2, HolderIsOwner
<1>12. current \in {x, None}
  <2> DEFINE holders == {s \in DOMAIN new.schools : /\ new.schools[s].municipality_id = m
                                                     /\ new.schools[s].slug = slug}
  <2>1. current = IF holders = {} THEN None ELSE CHOOSE s \in holders : TRUE
    BY <1>4 DEF CurrentHolder
  <2>2. \A s \in holders : s = x
    BY <1>11
  <2> HIDE DEF holders
  <2> QED BY <2>1, <2>2
<1>13. x \in former
  BY <1>2, <1>3
<1>14. Cardinality(former) = 1 => (CHOOSE s \in former : TRUE) = x
  <2>1. former \subseteq DOMAIN new.schools
    BY <1>3, <1>5
  <2>2. IsFiniteSet(former)
    BY <2>1, FS_Subset DEF IsRegister
  <2>3. SUFFICES ASSUME Cardinality(former) = 1 PROVE (CHOOSE s \in former : TRUE) = x
    OBVIOUS
  <2>4. PICK y : former = {y}
    BY <2>2, <2>3, FS_Singleton
  <2> QED BY <1>13, <2>4
<1>15. Resolve(current, former) \in {x, None}
  BY <1>12, <1>14 DEF Resolve
<1> QED BY <1>2, <1>3, <1>4, <1>15

-----------------------------------------------------------------------------
(* What a plan leaves alone.                                               *)

\* An operation on another municipality leaves this one's row.
LEMMA OtherMunicipality ==
  ASSUME NEW reg, IsRegister(reg), NEW op, IsMunicipalityOp(op), NEW ids, NEW at,
         NEW m \in DOMAIN reg.municipalities, op.op = "create" \/ op.id # m
  PROVE  ApplyMunicipalityOp(reg, op, ids, at).municipalities[m] = reg.municipalities[m]
<1>0. PICK new : new = ApplyMunicipalityOp(reg, op, ids, at)
  OBVIOUS
<1>1. CASE op.op = "create"
  <2>1. PICK k, row : new = [reg EXCEPT !.municipalities = Added(@, k, row)]
    BY <1>0, <1>1 DEF ApplyMunicipalityOp, ApplyCreateMunicipality
  <2>2. new.municipalities = Added(reg.municipalities, k, row)
    BY <2>1 DEF IsRegister
  <2>3. new.municipalities[m] = reg.municipalities[m]
    BY <2>2 DEF Added
  <2> QED BY <1>0, <2>3
<1>2. CASE op.op = "renumber" /\ op.id # m
  <2>5. PICK change, numbers, row, mid :
          /\ change = Max({op.valid_from, reg.municipalities[op.id].number_from + 1})
          /\ numbers = reg.numbers \cup
               {[municipality_id |-> op.id, number |-> op.from,
                 valid_from |-> reg.municipalities[op.id].number_from, valid_until |-> change]}
          /\ row = [reg.municipalities[op.id] EXCEPT !.number = op.to, !.number_from = change]
          /\ mid = Renumber(reg, op)
    OBVIOUS
  <2>1. mid = [reg EXCEPT !.numbers = numbers, !.municipalities[op.id] = row]
    BY <2>5 DEF Renumber, IsRegister
  <2>2. PICK history, last_row :
          new = [mid EXCEPT !.municipality_slug_history = history, !.municipalities[op.id] = last_row]
    BY <1>0, <1>2, <2>5 DEF ApplyMunicipalityOp, ApplyRenumber
  <2>3. mid.municipalities[m] = reg.municipalities[m] /\ DOMAIN mid = DOMAIN reg
        /\ m \in DOMAIN mid.municipalities
    BY <1>2, <2>1 DEF IsRegister
  <2>4. new.municipalities[m] = mid.municipalities[m]
    BY <1>2, <2>2, <2>3 DEF IsRegister
  <2> QED BY <1>0, <2>3, <2>4
<1>3. CASE op.op = "rename" /\ op.id # m
  <2>1. PICK history, row :
          new = [reg EXCEPT !.municipality_slug_history = history, !.municipalities[op.id] = row]
    BY <1>0, <1>3 DEF ApplyMunicipalityOp, ApplyRenameMunicipality, IsRegister
  <2> QED BY <1>0, <1>3, <2>1 DEF IsRegister
<1>4. CASE op.op = "update_details" /\ op.id # m
  <2>1. new = [reg EXCEPT !.municipalities[op.id].details = op.details]
    BY <1>0, <1>4 DEF ApplyMunicipalityOp
  <2> QED BY <1>0, <1>4, <2>1 DEF IsRegister
<1> QED BY <1>1, <1>2, <1>3, <1>4 DEF IsMunicipalityOp

\* The same of all municipality operations of a plan.
LEMMA OtherMunicipalities ==
  ASSUME NEW acc, IsRegister(acc.reg), NEW ops, IsSeq(ops), NEW ids, AreIds(ids), NEW at,
         NEW m \in DOMAIN acc.reg.municipalities,
         \A op \in ToSet(ops) : IsMunicipalityOp(op) /\ (op.op = "create" \/ op.id # m)
  PROVE  ApplyMunicipalityOps(acc, ops, ids, at).reg.municipalities[m] = acc.reg.municipalities[m]
<1>1. PICK n \in Nat : /\ DOMAIN ops = 1..n
                       /\ \A i \in 1..n : IsMunicipalityOp(ops[i])
                                          /\ (ops[i].op = "create" \/ ops[i].id # m)
  BY SeqDomain
<1>2. PICK run : /\ IsRun("municipality_op", <<ids, at>>, acc, ops, n, run)
                 /\ ApplyMunicipalityOps(acc, ops, ids, at) = run[n]
  BY <1>1, MunicipalityOpsSteps
<1>3. /\ run[0] = acc
      /\ \A i \in 1..n : run[i] = Checked(run[i - 1], ApplyMunicipalityOp(run[i - 1].reg, ops[i], ids, at))
  BY <1>2 DEF IsRun, FoldStep
<1> DEFINE Good(a) == IsRegister(a) /\ m \in DOMAIN a.municipalities
                      /\ a.municipalities[m] = acc.reg.municipalities[m]
           K == {k \in 0..n : Good(run[k].reg)}
<1>4. 0 \in K
  BY <1>3
<1>5. ASSUME NEW k \in 0..n, k \in K, k < n PROVE k + 1 \in K
  <2>1. k + 1 \in 1..n /\ (k + 1) - 1 = k /\ k + 1 \in 0..n
    BY <1>5
  <2>2. run[k + 1] = Checked(run[k], ApplyMunicipalityOp(run[k].reg, ops[k + 1], ids, at))
    BY <1>3, <2>1
  <2>3. PICK a, new, op : a = run[k].reg /\ new = run[k + 1].reg /\ op = ops[k + 1]
    OBVIOUS
  <2>4. new = ApplyMunicipalityOp(a, op, ids, at) /\ Good(a)
    BY <1>5, <2>2, <2>3, CheckedParts
  <2>5. IsMunicipalityOp(op) /\ (op.op = "create" \/ op.id # m)
    BY <1>1, <2>1, <2>3
  <2>6. IsRegister(new) /\ Keeps(a, new)
    BY <2>4, <2>5, MunicipalityOpEffect
  <2>7. new.municipalities[m] = a.municipalities[m]
    BY <2>4, <2>5, OtherMunicipality
  <2>8. Good(new)
    BY <2>4, <2>6, <2>7 DEF Keeps
  <2> HIDE DEF Good
  <2> QED BY <2>1, <2>3, <2>8
<1>6. n \in K
  <2> HIDE DEF K
  <2>1. Climbs(K, n)
    BY <1>4, <1>5 DEF Climbs
  <2> QED BY <2>1, Climb
<1> QED BY <1>2, <1>6

\* A school that no operation closes gets no successor.
LEMMA OtherSchoolUnlinked ==
  ASSUME NEW reg, IsRegister(reg), NEW ops, NEW ids, NEW s \in DOMAIN reg.schools,
         \A op \in ToSet(ops) : ~(op.op = "close" /\ op.id = s)
  PROVE  LinkSuccessors(reg, ops, ids).schools[s] = reg.schools[s]
<1> DEFINE links == {op \in ToSet(ops) : op.op = "close" /\ op.successor # None}
           successor(x) == (CHOOSE op \in links : op.id = x).successor
           linked == [x \in DOMAIN reg.schools |->
                        IF \E op \in links : op.id = x
                        THEN [reg.schools[x] EXCEPT !.successor_id = IdOf(ids.schools, successor(x))]
                        ELSE reg.schools[x]]
<1>0. PICK new : new = LinkSuccessors(reg, ops, ids)
  OBVIOUS
<1>1. new = [reg EXCEPT !.schools = linked]
  BY <1>0 DEF LinkSuccessors, IsRegister
<1>2. linked[s] = reg.schools[s]
  OBVIOUS
<1> HIDE DEF linked
<1>3. new.schools = linked
  BY <1>1 DEF IsRegister
<1> QED BY <1>0, <1>2, <1>3

\* The whole of apply_plan: old addresses still mislead nobody, statuses change
\* only where the plan closes, and what it passes over is left as it is.
LEMMA ApplyPlanLeaves ==
  ASSUME NEW reg, IsRegister(reg), Constraints(reg), HasAddresses(reg), QuestionsAreOpenOnce(reg),
         NEW plan, IsPlan(plan), PlanFits(reg, plan.school_ops), NEW at,
         NEW new, new = ApplyPlan(reg, plan, at).reg
  PROVE  /\ Constraints(new) => AddressesHold(new)
         /\ \A s \in DOMAIN reg.schools \ ClosedBy(plan.school_ops) :
              new.schools[s].status = reg.schools[s].status
         /\ \A m \in DOMAIN reg.municipalities : PassedOver(reg, plan, m) =>
              /\ new.municipalities[m] = reg.municipalities[m]
              /\ \A s \in DOMAIN reg.schools :
                   reg.schools[s].municipality_id = m => new.schools[s] = reg.schools[s]
<1>1. PICK ids : ids = NewIds(reg) /\ AreIds(ids)
  BY NewIdsType
<1>2. PICK first : first = [reg |-> reg, ok |-> TRUE] /\ first.reg = reg
  <2>1. [reg |-> reg, ok |-> TRUE].reg = reg
    OBVIOUS
  <2> QED BY <2>1
<1>3. PICK municipal, schooled, linked :
        /\ municipal = Municipal(reg, plan, at) /\ schooled = Schooled(reg, plan, at)
        /\ linked = Linked(reg, plan, at)
  OBVIOUS
<1>4. /\ municipal = ApplyMunicipalityOps(first, plan.municipality_ops, ids, at)
      /\ schooled = ApplySchoolOps(municipal, plan.school_ops, ids, at)
      /\ linked = LinkSuccessors(schooled.reg, plan.school_ops, ids)
  BY <1>1, <1>2, <1>3 DEF Municipal, Schooled, Linked
<1>5. /\ IsRegister(municipal.reg) /\ SameSchools(reg, municipal.reg) /\ Keeps(reg, municipal.reg)
  <2>1. IsRegister(first.reg)
    BY <1>2
  <2> QED BY <1>1, <1>2, <1>4, <2>1, MunicipalityOpsEffect DEF IsPlan
<1>6. PICK ops, closing : ops = plan.school_ops /\ closing = ClosedBy(ops)
  OBVIOUS
<1>7. IsSeq(ops) /\ PlanFits(reg, ops) /\ \A op \in ToSet(ops) : IsSchoolOp(op)
  BY <1>6 DEF IsPlan
<1>8. Traced(reg, closing, ToSet(ops), schooled.reg)
  BY <1>1, <1>4, <1>5, <1>6, <1>7, SchoolOpsTraced
<1>9. IsRegister(schooled.reg) /\ SameMunicipalities(municipal.reg, schooled.reg)
  BY <1>1, <1>4, <1>5, <1>6, <1>7, SchoolOpsEffect
<1>10. /\ IsRegister(linked) /\ SameMunicipalities(schooled.reg, linked)
       /\ linked.slug_history = schooled.reg.slug_history
       /\ DOMAIN linked.schools = DOMAIN schooled.reg.schools
       /\ \A s \in DOMAIN schooled.reg.schools : \A column \in SchoolColumns \ {"successor_id"} :
            linked.schools[s][column] = schooled.reg.schools[s][column]
  BY <1>4, <1>9, LinkSuccessorsEffect
<1>11. SameButReviews(linked, new) /\ IsRegister(new)
  BY <1>3, ApplyPlanEffect DEF Becomes
<1>12. new.schools = linked.schools /\ new.slug_history = linked.slug_history
       /\ new.municipalities = linked.municipalities
  BY <1>11 DEF SameButReviews
<1>13. \A s \in DOMAIN schooled.reg.schools :
         RowOf(new, s, schooled.reg.schools[s].municipality_id, schooled.reg.schools[s].slug,
               schooled.reg.schools[s].status)
  <2>1. {"municipality_id", "slug", "status"} \subseteq SchoolColumns \ {"successor_id"}
    BY DEF SchoolColumns
  <2> QED BY <1>10, <1>12, <2>1 DEF RowOf
<1>14. Constraints(new) => AddressesHold(new)
  <2>1. SUFFICES ASSUME Constraints(new) PROVE AddressesHold(new)
    OBVIOUS
  <2>2. new.slug_history = schooled.reg.slug_history
        /\ DOMAIN new.schools = DOMAIN schooled.reg.schools
    BY <1>10, <1>12
  <2> QED BY <1>6, <1>8, <1>11, <1>13, <2>1, <2>2, TracedAddressesHold
<1>15. ASSUME NEW s \in DOMAIN reg.schools \ closing
       PROVE  new.schools[s].status = reg.schools[s].status
  <2>1. s \in DOMAIN schooled.reg.schools
        /\ schooled.reg.schools[s].status = reg.schools[s].status
    BY <1>8 DEF Traced
  <2> QED BY <1>13, <2>1 DEF RowOf
<1>16. ASSUME NEW m \in DOMAIN reg.municipalities, PassedOver(reg, plan, m)
       PROVE  /\ new.municipalities[m] = reg.municipalities[m]
              /\ \A s \in DOMAIN reg.schools :
                   reg.schools[s].municipality_id = m => new.schools[s] = reg.schools[s]
  <2>1. municipal.reg.municipalities[m] = reg.municipalities[m]
    <3>1. /\ IsSeq(plan.municipality_ops)
          /\ \A op \in ToSet(plan.municipality_ops) :
               IsMunicipalityOp(op) /\ (op.op = "create" \/ op.id # m)
      BY <1>16 DEF PassedOver, IsPlan
    <3>2. IsRegister(first.reg) /\ m \in DOMAIN first.reg.municipalities
      BY <1>2
    <3>3. ApplyMunicipalityOps(first, plan.municipality_ops, ids, at).reg.municipalities[m]
            = first.reg.municipalities[m]
      BY <1>1, <3>1, <3>2, OtherMunicipalities
    <3> QED BY <1>2, <1>4, <3>3
  <2>2. new.municipalities[m] = reg.municipalities[m]
    BY <1>9, <1>10, <1>12, <2>1 DEF SameMunicipalities
  <2>3. ASSUME NEW s \in DOMAIN reg.schools, reg.schools[s].municipality_id = m
        PROVE  new.schools[s] = reg.schools[s]
    <3>1. \A op \in ToSet(ops) : op.op = "create" \/ op.id # s
      BY <1>6, <1>16, <2>3 DEF PassedOver
    <3>2. s \in DOMAIN schooled.reg.schools /\ schooled.reg.schools[s] = reg.schools[s]
      BY <1>8, <3>1 DEF Traced
    <3>3. \A op \in ToSet(ops) : ~(op.op = "close" /\ op.id = s)
      BY <3>1
    <3>4. linked.schools[s] = schooled.reg.schools[s]
      BY <1>4, <1>6, <1>9, <3>2, <3>3, OtherSchoolUnlinked
    <3> QED BY <1>12, <3>2, <3>4
  <2> QED BY <2>2, <2>3
<1> QED BY <1>6, <1>14, <1>15, <1>16

-----------------------------------------------------------------------------
(* The sources.                                                            *)

\* A finite table of rows.
IsTable(D, R, f) == DOMAIN f \subseteq D /\ IsFiniteSet(DOMAIN f) /\ f \in [DOMAIN f -> R]

\* A row written to a finite table leaves one.
LEMMA TableWith ==
  ASSUME NEW D, NEW R, NEW f, IsTable(D, R, f), NEW k \in D, NEW x \in R
  PROVE  IsTable(D, R, With(f, k, x))
<1>1. IsFiniteSet(DOMAIN f) /\ DOMAIN f \subseteq D /\ f \in [DOMAIN f -> R]
  BY DEF IsTable
<1>2. IsFiniteSet(DOMAIN f \cup {k})
  BY <1>1, FS_AddElement
<1>3. PICK g : g = With(f, k, x)
  OBVIOUS
<1>4. g = [i \in DOMAIN f \cup {k} |-> IF i = k THEN x ELSE f[i]]
  BY <1>3 DEF With
<1>5. DOMAIN g \subseteq D /\ IsFiniteSet(DOMAIN g) /\ g \in [DOMAIN g -> R]
  BY <1>1, <1>2, <1>4
<1> QED BY <1>3, <1>5 DEF IsTable

\* One change of a source leaves sources.
LEMMA EditedIsSources ==
  ASSUME NEW src, IsSources(src), NEW e \in SourceChanges
  PROVE  IsSources(Edited(src, e))
<1>0. PICK new : new = Edited(src, e)
  OBVIOUS
<1>1. CASE e \in [edit : {"list"}, number : Nat, record : KartverketRecords]
  <2>1. e.edit = "list" /\ e.number \in Nat /\ e.record \in KartverketRecords
    BY <1>1
  <2>2. new = [src EXCEPT !.municipalities = With(@, e.number, e.record)]
    BY <1>0, <2>1 DEF Edited
  <2>3. PICK f : f = With(src.municipalities, e.number, e.record)
    OBVIOUS
  <2>4. /\ DOMAIN f \subseteq Nat /\ IsFiniteSet(DOMAIN f) /\ f \in [DOMAIN f -> KartverketRecords]
    <3>1. IsTable(Nat, KartverketRecords, src.municipalities)
      BY DEF IsSources, IsTable
    <3>2. IsTable(Nat, KartverketRecords, With(src.municipalities, e.number, e.record))
      BY <2>1, <3>1, TableWith
    <3> QED BY <2>3, <3>2 DEF IsTable
  <2>5. /\ DOMAIN new = DOMAIN src /\ new.municipalities = f
        /\ new.code_changes = src.code_changes /\ new.units = src.units
    BY <2>2, <2>3 DEF IsSources
  <2> QED BY <1>0, <2>4, <2>5 DEF IsSources
<1>2. CASE e \in [edit : {"unlist"}, number : Nat]
  <2>1. e.edit = "unlist"
    BY <1>2
  <2>2. new = [src EXCEPT !.municipalities = [n \in DOMAIN @ \ {e.number} |-> @[n]]]
    BY <1>0, <2>1 DEF Edited
  <2>3. PICK f : f = [n \in DOMAIN src.municipalities \ {e.number} |-> src.municipalities[n]]
    OBVIOUS
  <2>4. IsFiniteSet(DOMAIN src.municipalities \ {e.number})
    BY FS_RemoveElement DEF IsSources
  <2>5. /\ DOMAIN f \subseteq Nat /\ IsFiniteSet(DOMAIN f) /\ f \in [DOMAIN f -> KartverketRecords]
    BY <2>3, <2>4 DEF IsSources
  <2>6. /\ DOMAIN new = DOMAIN src /\ new.municipalities = f
        /\ new.code_changes = src.code_changes /\ new.units = src.units
    BY <2>2, <2>3 DEF IsSources
  <2> QED BY <1>0, <2>5, <2>6 DEF IsSources
<1>3. CASE e \in [edit : {"change"}, change : SsbChanges]
  <2>1. e.edit = "change" /\ e.change \in SsbChanges
    BY <1>3
  <2>2. new = [src EXCEPT !.code_changes = Append(@, e.change)]
    BY <1>0, <2>1 DEF Edited
  <2>5. Append(src.code_changes, e.change) \in Seq(SsbChanges)
    BY <2>1 DEF IsSources
  <2>3. PICK f : f = Append(src.code_changes, e.change) /\ f \in Seq(SsbChanges)
    BY <2>5
  <2>4. /\ DOMAIN new = DOMAIN src /\ new.municipalities = src.municipalities
        /\ new.code_changes = f /\ new.units = src.units
    BY <2>2, <2>3 DEF IsSources
  <2> QED BY <1>0, <2>3, <2>4 DEF IsSources
<1>4. CASE e \in [edit : {"unit"}, orgnr : Ids, unit : NsrUnits]
  <2>1. e.edit = "unit" /\ e.orgnr \in Ids /\ e.unit \in NsrUnits
    BY <1>4
  <2>2. new = [src EXCEPT !.units = With(@, e.orgnr, e.unit)]
    BY <1>0, <2>1 DEF Edited
  <2>3. PICK f : f = With(src.units, e.orgnr, e.unit)
    OBVIOUS
  <2>4. /\ DOMAIN f \subseteq Ids /\ IsFiniteSet(DOMAIN f) /\ f \in [DOMAIN f -> NsrUnits]
    <3>1. IsTable(Ids, NsrUnits, src.units)
      BY DEF IsSources, IsTable
    <3>2. IsTable(Ids, NsrUnits, With(src.units, e.orgnr, e.unit))
      BY <2>1, <3>1, TableWith
    <3> QED BY <2>3, <3>2 DEF IsTable
  <2>5. /\ DOMAIN new = DOMAIN src /\ new.municipalities = src.municipalities
        /\ new.code_changes = src.code_changes /\ new.units = f
    BY <2>2, <2>3 DEF IsSources
  <2> QED BY <1>0, <2>4, <2>5 DEF IsSources
<1> QED BY <1>1, <1>2, <1>3, <1>4 DEF SourceChanges

\* What a source publishes at once leaves sources.
LEMMA PublishedIsSources ==
  ASSUME NEW src, IsSources(src), NEW e \in Seq(SourceChanges)
  PROVE  IsSources(Published(src, e))
<1>1. PICK n \in Nat : n = Len(e) /\ DOMAIN e = 1..n /\ \A i \in 1..n : e[i] \in SourceChanges
  OBVIOUS
<1>2. PICK run : IsRun("edit", <<>>, src, e, n, run) /\ Published(src, e) = run[n]
  BY <1>1, PublishedSteps
<1>3. run[0] = src /\ \A i \in 1..n : run[i] = Edited(run[i - 1], e[i])
  BY <1>2 DEF IsRun, FoldStep
<1> DEFINE K == {k \in 0..n : IsSources(run[k])}
<1>4. 0 \in K
  BY <1>3
<1>5. ASSUME NEW k \in 0..n, k \in K, k < n PROVE k + 1 \in K
  <2>1. k + 1 \in 1..n /\ (k + 1) - 1 = k /\ k + 1 \in 0..n
    BY <1>5
  <2>2. run[k + 1] = Edited(run[k], e[k + 1]) /\ e[k + 1] \in SourceChanges /\ IsSources(run[k])
    BY <1>1, <1>3, <1>5, <2>1
  <2>3. IsSources(run[k + 1])
    BY <2>2, EditedIsSources
  <2> QED BY <2>1, <2>3
<1>6. n \in K
  <2> HIDE DEF K
  <2>1. Climbs(K, n)
    BY <1>4, <1>5 DEF Climbs
  <2> QED BY <2>1, Climb
<1> QED BY <1>2, <1>6

-----------------------------------------------------------------------------
(* The inductive invariant.                                                *)

\* The plan of the open run suits the tables, and while nothing has changed
\* since its snapshot also the FAUs and the sources.
OpenPlanSuits ==
  tx.open /\ tx.plan.outcome = "apply" =>
    PlanSuits(tx.plan) /\ (~dirty => PlanIsFresh(tx.plan))

RegisterIsSound ==
  /\ IsRegister(register) /\ Constraints(register)
  /\ QuestionsAreOpenOnce(register) /\ AddressesHold(register)

IInv == TypeOK /\ RegisterIsSound /\ OpenPlanSuits

\* A commit leaves a sound register that forgets nothing.
Commits(reg, new) ==
  /\ IsRegister(new) /\ Constraints(new) /\ QuestionsAreOpenOnce(new) /\ AddressesHold(new)
  /\ Becomes(reg, new)

\* A sound register is one the school planner's addresses fit.
LEMMA SoundHasAddresses ==
  ASSUME RegisterIsSound
  PROVE  HasAddresses(register)
<1>1. HasAddresses(Snapshot)
  BY SnapshotIsRegister DEF RegisterIsSound
<1>2. Snapshot.schools = register.schools /\ Snapshot.slug_history = register.slug_history
  BY DEF Snapshot
<1>3. AddressesHold(register)
  BY DEF RegisterIsSound
<1> QED BY <1>1, <1>2, <1>3 DEF HasAddresses

\* The plan of a run, committed to the register it was made from.
LEMMA CommitIsSound ==
  ASSUME RegisterIsSound, PlanSuits(tx.plan), ApplyPlan(register, tx.plan, now).ok
  PROVE  Commits(register, ApplyPlan(register, tx.plan, now).reg)
<1>1. PICK new : new = ApplyPlan(register, tx.plan, now).reg
  OBVIOUS
<1>2. HasAddresses(register)
  BY SoundHasAddresses
<1>3. Becomes(register, new) /\ Constraints(new)
  BY <1>1, ApplyPlanEffect DEF RegisterIsSound, PlanSuits
<1>4. AddressesHold(new)
  BY <1>1, <1>2, <1>3, ApplyPlanLeaves DEF RegisterIsSound, PlanSuits
<1> QED BY <1>1, <1>3, <1>4 DEF Commits, Becomes

\* The initial states are sound.
LEMMA InitIsSound ==
  Init => IInv
<1>1. SUFFICES ASSUME Init PROVE IInv
  OBVIOUS
<1>2. PICK s \in Scenarios :
        /\ register = s.register /\ sources = s.sources /\ edits = s.edits
        /\ tenants = {} /\ now = 1 /\ tx = Idle /\ last = "none" /\ dirty = TRUE /\ quiet = 0
        /\ signups = 0 /\ resolved = 0
  BY <1>1 DEF Init
<1>3. RegisterIsSound
  BY <1>2, ScenariosAssumption DEF RegisterIsSound
<1>4. tx.open = FALSE /\ tx.accept = FALSE
  BY <1>2 DEF Idle
<1>5. TypeOK
  <2>1. IsSources(sources) /\ edits \subseteq Seq(SourceChanges)
    BY <1>2, ScenariosAssumption
  <2>2. now \in 1..MaxRuns /\ signups \in 0..MaxSignups /\ resolved \in 0..MaxResolved /\ quiet \in 0..2
    BY <1>2, BoundsAssumption
  <2>3. /\ tenants \subseteq DOMAIN register.schools
        /\ last \in {"none", "applied", "no_change", "aborted", "failed"} /\ dirty \in BOOLEAN
        /\ tx.open \in BOOLEAN /\ tx.accept \in BOOLEAN
    BY <1>2, <1>4
  <2> QED BY <1>3, <2>1, <2>2, <2>3 DEF TypeOK, RegisterIsSound
<1> QED BY <1>3, <1>4, <1>5 DEF IInv, OpenPlanSuits

\* Runs that ended well are counted up to two.
LEMMA QuietCounts ==
  ASSUME quiet \in 0..2
  PROVE  QuietAfterRun \in 0..2
<1>1. PICK q : q = quiet + 1 /\ q \in 1..3
  OBVIOUS
<1>2. Min({q, 2}) \in {q, 2} /\ Min({q, 2}) <= 2
  <2>1. \E x \in {q, 2} : \A y \in {q, 2} : x <= y
    <3>1. CASE q <= 2
      BY <1>1, <3>1
    <3>2. CASE q > 2
      BY <1>1, <3>2
    <3> QED BY <1>1, <3>1, <3>2
  <2> QED BY <2>1 DEF Min
<1> QED BY <1>1, <1>2 DEF QuietAfterRun

\* What every step but a commit and a resolved review item leaves sound.
LEMMA RegisterStays ==
  ASSUME RegisterIsSound, register' = register
  PROVE  RegisterIsSound'
BY DEF RegisterIsSound

\* A step that is not part of a run keeps the open run's plan fitting the tables.
LEMMA PlanStays ==
  ASSUME OpenPlanSuits, register' = register, tx' = tx,
         dirty' = TRUE \/ (dirty' = dirty /\ tenants' = tenants /\ sources' = sources)
  PROVE  OpenPlanSuits'
<1>1. SUFFICES ASSUME tx.open, tx.plan.outcome = "apply"
      PROVE  /\ IsPlan(tx.plan) /\ PlanFits(register, tx.plan.school_ops)
             /\ ~dirty' => PlanIsFresh(tx.plan)'
  BY DEF OpenPlanSuits, PlanSuits
<1>2. PlanSuits(tx.plan) /\ (~dirty => PlanIsFresh(tx.plan))
  BY <1>1 DEF OpenPlanSuits
<1>3. ASSUME ~dirty' PROVE PlanIsFresh(tx.plan)'
  <2>1. tenants' = tenants /\ sources' = sources /\ PlanIsFresh(tx.plan)
    BY <1>2, <1>3
  <2> QED BY <2>1 DEF PlanIsFresh
<1> QED BY <1>2, <1>3 DEF PlanSuits

\* Between runs there is no plan.
LEMMA NoPlan ==
  ASSUME tx' = Idle
  PROVE  OpenPlanSuits' /\ tx'.open = FALSE /\ tx'.accept = FALSE
BY DEF OpenPlanSuits, Idle

\* Closing a review item leaves the register sound.
LEMMA ResolveIsSound ==
  ASSUME RegisterIsSound, NEW i \in DOMAIN register.reviews,
         register' = [register EXCEPT !.reviews[i].open = FALSE]
  PROVE  /\ RegisterIsSound' /\ SameButReviews(register, register')
         /\ DOMAIN register'.reviews = DOMAIN register.reviews
         /\ \A j \in DOMAIN register.reviews :
              /\ ReviewKey(register'.reviews[j]) = ReviewKey(register.reviews[j])
              /\ register'.reviews[j].open => register.reviews[j].open
<1>1. PICK new, row, rows : /\ new = register' /\ row = [register.reviews[i] EXCEPT !.open = FALSE]
                            /\ rows = [register.reviews EXCEPT ![i] = row]
  OBVIOUS
<1>2. DOMAIN register = Tables /\ register.reviews \in Seq(ReviewRows)
  BY DEF RegisterIsSound, IsRegister, Tables
<1>3. new = [register EXCEPT !.reviews = rows]
  BY <1>1
<1>4. new.reviews = rows /\ SameButReviews(register, new)
  BY <1>2, <1>3 DEF SameButReviews, Tables
<1>5. register.reviews[i] \in ReviewRows
  BY <1>2
<1>6. row \in ReviewRows /\ row.open = FALSE /\ ReviewKey(row) = ReviewKey(register.reviews[i])
  BY <1>1, <1>5 DEF ReviewRows, ReviewKey
<1>7. rows \in Seq(ReviewRows) /\ DOMAIN rows = DOMAIN register.reviews
  BY <1>1, <1>2, <1>6
<1>8. \A j \in DOMAIN register.reviews :
        /\ ReviewKey(rows[j]) = ReviewKey(register.reviews[j])
        /\ rows[j].open => register.reviews[j].open
  BY <1>1, <1>6
<1>9. IsRegister(new) /\ Constraints(new)
  <2>1. Constraints(new)
    BY <1>4, ReviewsAreUnconstrained DEF RegisterIsSound
  <2>2. IsRegister(new)
    BY <1>4, <1>7 DEF RegisterIsSound, IsRegister, SameButReviews, Tables
  <2> QED BY <2>1, <2>2
<1>10. QuestionsAreOpenOnce(new)
  BY <1>4, <1>7, <1>8 DEF RegisterIsSound, QuestionsAreOpenOnce
<1>11. AddressesHold(new)
  <2>1. /\ AddressesHold(register)
        /\ new.schools = register.schools /\ new.slug_history = register.slug_history
    BY <1>4 DEF RegisterIsSound, SameButReviews
  <2> QED BY <2>1, SameAddresses
<1> QED BY <1>1, <1>4, <1>7, <1>8, <1>9, <1>10, <1>11 DEF RegisterIsSound

\* Every step keeps the inductive invariant.
LEMMA StepIsSound ==
  IInv /\ [Next]_vars => IInv'
<1> SUFFICES ASSUME IInv, [Next]_vars PROVE IInv'
  OBVIOUS
<1> USE DEF IInv
<1>1. ASSUME NEW accept \in BOOLEAN, BeginRun(accept) PROVE IInv'
  <2>1. PICK plan : plan = Plan(Snapshot, Fetched, accept)
    OBVIOUS
  <2>2. tx' = [open |-> TRUE, plan |-> plan, accept |-> accept]
    BY <1>1, <2>1 DEF BeginRun
  <2>3. plan.outcome = "apply" => PlanSuits(plan) /\ PlanIsFresh(plan)
    BY <2>1, PlanOfTheRun DEF RegisterIsSound, TypeOK
  <2>4. /\ now < MaxRuns /\ now' = now + 1 /\ dirty' = FALSE
        /\ register' = register /\ sources' = sources /\ edits' = edits /\ tenants' = tenants
        /\ last' = last /\ quiet' = quiet /\ signups' = signups /\ resolved' = resolved
    BY <1>1 DEF BeginRun
  <2>5. OpenPlanSuits'
    BY <2>2, <2>3, <2>4 DEF OpenPlanSuits, PlanSuits, PlanIsFresh
  <2>6. now' \in 1..MaxRuns
    BY <2>4, BoundsAssumption DEF TypeOK
  <2>7. tx'.open \in BOOLEAN /\ tx'.accept \in BOOLEAN
    BY <2>2
  <2> QED BY <2>4, <2>5, <2>6, <2>7, RegisterStays DEF TypeOK
<1>2. ASSUME StopRun PROVE IInv'
  <2>1. /\ last' = "aborted" /\ tx' = Idle
        /\ register' = register /\ sources' = sources /\ edits' = edits /\ tenants' = tenants
        /\ now' = now /\ dirty' = dirty /\ quiet' = quiet /\ signups' = signups
        /\ resolved' = resolved
    BY <1>2 DEF StopRun
  <2> QED BY <2>1, NoPlan, RegisterStays DEF TypeOK
<1>3. ASSUME FinishUnchanged PROVE IInv'
  <2>1. /\ last' = "no_change" /\ tx' = Idle /\ quiet' = QuietAfterRun
        /\ register' = register /\ sources' = sources /\ edits' = edits /\ tenants' = tenants
        /\ now' = now /\ dirty' = dirty /\ signups' = signups /\ resolved' = resolved
    BY <1>3 DEF FinishUnchanged
  <2>2. quiet' \in 0..2
    BY <2>1, QuietCounts DEF TypeOK
  <2> QED BY <2>1, <2>2, NoPlan, RegisterStays DEF TypeOK
<1>4. ASSUME CommitRun PROVE IInv'
  <2>1. PICK result : result = ApplyPlan(register, tx.plan, now)
    OBVIOUS
  <2>2. /\ tx.open /\ tx.plan.outcome = "apply" /\ tx' = Idle
        /\ register' = IF result.ok THEN result.reg ELSE register
        /\ last' = IF result.ok THEN "applied" ELSE "failed"
        /\ quiet' = IF result.ok THEN QuietAfterRun ELSE quiet
        /\ sources' = sources /\ edits' = edits /\ tenants' = tenants /\ now' = now
        /\ dirty' = dirty /\ signups' = signups /\ resolved' = resolved
    BY <1>4, <2>1 DEF CommitRun, Commit
  <2>3. quiet' \in 0..2
    BY <2>2, QuietCounts DEF TypeOK
  <2>4. RegisterIsSound' /\ DOMAIN register.schools \subseteq DOMAIN register'.schools
    <3>1. CASE result.ok
      <4>1. Commits(register, result.reg)
        BY <2>1, <2>2, <3>1, CommitIsSound DEF OpenPlanSuits
      <4>2. register' = result.reg
        BY <2>2, <3>1
      <4>3. Keeps(register, [result.reg EXCEPT !.reviews = register.reviews])
        BY <4>1 DEF Commits, Becomes
      <4>4. DOMAIN register.schools \subseteq DOMAIN result.reg.schools
        BY <4>1, <4>3 DEF Keeps, Commits, IsRegister
      <4> QED BY <4>1, <4>2, <4>4 DEF RegisterIsSound, Commits
    <3>2. CASE ~result.ok
      BY <2>2, <3>2, RegisterStays
    <3> QED BY <3>1, <3>2
  <2> QED BY <2>2, <2>3, <2>4, NoPlan DEF TypeOK, RegisterIsSound
<1>5. ASSUME PublishEdit PROVE IInv'
  <2>1. PICK e \in edits : sources' = Published(sources, e) /\ edits' = edits \ {e}
    BY <1>5 DEF PublishEdit
  <2>2. /\ dirty' = TRUE /\ quiet' = 0
        /\ register' = register /\ tenants' = tenants /\ now' = now /\ tx' = tx /\ last' = last
        /\ signups' = signups /\ resolved' = resolved
    BY <1>5 DEF PublishEdit
  <2>3. IsSources(sources') /\ edits' \subseteq Seq(SourceChanges)
    BY <2>1, PublishedIsSources DEF TypeOK
  <2> QED BY <2>2, <2>3, PlanStays, RegisterStays DEF TypeOK
<1>6. ASSUME Signup PROVE IInv'
  <2>1. PICK s \in DOMAIN register.schools : tenants' = tenants \cup {s}
    BY <1>6 DEF Signup
  <2>2. /\ dirty' = TRUE /\ quiet' = 0 /\ signups < MaxSignups /\ signups' = signups + 1
        /\ register' = register /\ sources' = sources /\ edits' = edits /\ now' = now /\ tx' = tx
        /\ last' = last /\ resolved' = resolved
    BY <1>6 DEF Signup
  <2>3. signups' \in 0..MaxSignups
    BY <2>2, BoundsAssumption DEF TypeOK
  <2> QED BY <2>1, <2>2, <2>3, PlanStays, RegisterStays DEF TypeOK
<1>7. ASSUME FauEnds PROVE IInv'
  <2>1. /\ tenants' \subseteq tenants /\ dirty' = TRUE /\ quiet' = 0
        /\ register' = register /\ sources' = sources /\ edits' = edits /\ now' = now /\ tx' = tx
        /\ last' = last /\ signups' = signups /\ resolved' = resolved
    BY <1>7 DEF FauEnds
  <2> QED BY <2>1, PlanStays, RegisterStays DEF TypeOK
<1>8. ASSUME ResolveReview PROVE IInv'
  <2>1. PICK i \in DOMAIN register.reviews :
          register' = [register EXCEPT !.reviews[i].open = FALSE]
    BY <1>8 DEF ResolveReview
  <2>2. /\ ~tx.open /\ dirty' = TRUE /\ quiet' = 0 /\ resolved < MaxResolved
        /\ resolved' = resolved + 1
        /\ sources' = sources /\ edits' = edits /\ tenants' = tenants /\ now' = now /\ tx' = tx
        /\ last' = last /\ signups' = signups
    BY <1>8 DEF ResolveReview
  <2>3. RegisterIsSound' /\ SameButReviews(register, register')
    BY <2>1, ResolveIsSound
  <2>4. resolved' \in 0..MaxResolved
    BY <2>2, BoundsAssumption DEF TypeOK
  <2>5. register'.schools = register.schools
    BY <2>3 DEF SameButReviews
  <2>6. OpenPlanSuits'
    BY <2>2 DEF OpenPlanSuits
  <2> QED BY <2>2, <2>3, <2>4, <2>5, <2>6 DEF TypeOK, RegisterIsSound
<1>9. ASSUME UNCHANGED vars PROVE IInv'
  <2>1. /\ register' = register /\ sources' = sources /\ edits' = edits /\ tenants' = tenants
        /\ now' = now /\ tx' = tx /\ last' = last /\ dirty' = dirty /\ quiet' = quiet
        /\ signups' = signups /\ resolved' = resolved
    BY <1>9 DEF vars
  <2> QED BY <2>1, PlanStays, RegisterStays DEF TypeOK
<1> QED BY <1>1, <1>2, <1>3, <1>4, <1>5, <1>6, <1>7, <1>8, <1>9 DEF Next

\* The invariant holds in every reachable state.
THEOREM Soundness ==
  Spec => []IInv
<1>1. Init => IInv
  BY InitIsSound
<1>2. IInv /\ [Next]_vars => IInv'
  BY StepIsSound
<1> QED BY <1>1, <1>2, PTL DEF Spec

-----------------------------------------------------------------------------
(* The theorems.                                                           *)

\* Only a commit and an operator's answer to a review item write the tables.
LEMMA RegisterSteps ==
  ASSUME IInv, [Next]_vars
  PROVE  \/ register' = register
         \/ /\ PlanSuits(tx.plan) /\ (~dirty => PlanIsFresh(tx.plan))
            /\ ApplyPlan(register, tx.plan, now).ok
            /\ register' = ApplyPlan(register, tx.plan, now).reg
         \/ \E i \in DOMAIN register.reviews :
              register' = [register EXCEPT !.reviews[i].open = FALSE]
<1>1. ASSUME NEW accept \in BOOLEAN, BeginRun(accept) PROVE register' = register
  BY <1>1 DEF BeginRun
<1>2. StopRun \/ FinishUnchanged \/ PublishEdit \/ Signup \/ FauEnds \/ UNCHANGED vars
        => register' = register
  BY DEF StopRun, FinishUnchanged, PublishEdit, Signup, FauEnds, vars
<1>3. ResolveReview => \E i \in DOMAIN register.reviews :
                         register' = [register EXCEPT !.reviews[i].open = FALSE]
  BY DEF ResolveReview
<1>4. CommitRun => \/ register' = register
                   \/ /\ PlanSuits(tx.plan) /\ (~dirty => PlanIsFresh(tx.plan))
                      /\ ApplyPlan(register, tx.plan, now).ok
                      /\ register' = ApplyPlan(register, tx.plan, now).reg
  BY DEF IInv, CommitRun, Commit, OpenPlanSuits
<1> QED BY <1>1, <1>2, <1>3, <1>4 DEF Next

\* The tables always fit their columns and the constraints of migration 0004,
\* whatever the sources publish between and during the runs.
THEOREM TypeCorrect ==
  Spec => []TypeOK
BY Soundness, PTL DEF IInv

\* write_reviews: however many runs find the same question, it is open once.
THEOREM QuestionsOpenOnce ==
  Spec => []OneOpenItemPerQuestion
<1>1. IInv => OneOpenItemPerQuestion
  BY DEF IInv, RegisterIsSound, OneOpenItemPerQuestion
<1> QED BY <1>1, Soundness, PTL

\* The planner's slug book and the applier's slug history: an address a school
\* once had never leads to another school while the first is open.
THEOREM OldAddresses ==
  Spec => []OldAddressNeverMisleads
<1>1. IInv => OldAddressNeverMisleads
  BY DEF IInv, RegisterIsSound, OldAddressNeverMisleads
<1> QED BY <1>1, Soundness, PTL

\* apply_plan and the operator's answers: no row and no history row goes away,
\* a closed school stays closed, and a review item keeps its question and is
\* never reopened.
THEOREM LinksAreForEver ==
  Spec => NothingIsForgotten
<1> DEFINE Kept ==
      /\ DOMAIN register.municipalities \subseteq DOMAIN register'.municipalities
      /\ register.numbers \subseteq register'.numbers
      /\ register.municipality_slug_history \subseteq register'.municipality_slug_history
      /\ register.slug_history \subseteq register'.slug_history
      /\ \A s \in DOMAIN register.schools :
           /\ s \in DOMAIN register'.schools
           /\ register.schools[s].status = "closed" => register'.schools[s].status = "closed"
      /\ \A i \in DOMAIN register.reviews :
           /\ i \in DOMAIN register'.reviews
           /\ ReviewKey(register'.reviews[i]) = ReviewKey(register.reviews[i])
           /\ register'.reviews[i].open => register.reviews[i].open
<1>1. ASSUME IInv, [Next]_vars PROVE Kept
  <2>1. CASE register' = register
    BY <2>1
  <2>2. ASSUME PlanSuits(tx.plan), ApplyPlan(register, tx.plan, now).ok,
               register' = ApplyPlan(register, tx.plan, now).reg
        PROVE  Kept
    <3>1. Commits(register, register')
      BY <1>1, <2>2, CommitIsSound DEF IInv
    <3>2. PICK mid : mid = [register' EXCEPT !.reviews = register.reviews]
      OBVIOUS
    <3>3. Keeps(register, mid) /\ MoreReviews(register, register') /\ IsRegister(register')
      BY <3>1, <3>2 DEF Commits, Becomes
    <3>4. /\ mid.municipalities = register'.municipalities /\ mid.numbers = register'.numbers
          /\ mid.municipality_slug_history = register'.municipality_slug_history
          /\ mid.schools = register'.schools /\ mid.slug_history = register'.slug_history
      BY <3>2, <3>3 DEF IsRegister
    <3>5. register.reviews \in Seq(ReviewRows)
      BY <1>1 DEF IInv, RegisterIsSound, IsRegister
    <3>6. \A i \in DOMAIN register.reviews :
            i \in DOMAIN register'.reviews /\ register'.reviews[i] = register.reviews[i]
      BY <3>3, <3>5 DEF MoreReviews
    <3> QED BY <3>3, <3>4, <3>6 DEF Keeps
  <2>3. ASSUME NEW i \in DOMAIN register.reviews,
               register' = [register EXCEPT !.reviews[i].open = FALSE]
        PROVE  Kept
    <3>1. /\ SameButReviews(register, register')
          /\ DOMAIN register'.reviews = DOMAIN register.reviews
          /\ \A j \in DOMAIN register.reviews :
               /\ ReviewKey(register'.reviews[j]) = ReviewKey(register.reviews[j])
               /\ register'.reviews[j].open => register.reviews[j].open
      BY <1>1, <2>3, ResolveIsSound DEF IInv
    <3> QED BY <3>1 DEF SameButReviews
  <2> QED BY <1>1, <2>1, <2>2, <2>3, RegisterSteps
<1>2. ASSUME IInv, [Next]_vars PROVE [Kept]_vars
  BY <1>1, <1>2
<1>3. Spec => [][Kept]_vars
  BY <1>2, Soundness, PTL DEF Spec
<1> QED BY <1>3 DEF NothingIsForgotten

\* A commit's plan, when nothing changed since its snapshot: it closes no school
\* with an FAU and touches nothing of a municipality that SSB has split.
LEMMA FreshCommit ==
  ASSUME IInv, [Next]_vars, ~dirty
  PROVE  /\ \A s \in tenants : register.schools[s].status = "active"
              => register'.schools[s].status = "active"
         /\ \A m \in DOMAIN register.municipalities :
              /\ register.municipalities[m].status = "active"
              /\ register.municipalities[m].number \in SplitCodes(sources)
              => /\ register'.municipalities[m] = register.municipalities[m]
                 /\ \A s \in DOMAIN register.schools : register.schools[s].municipality_id = m
                      => register'.schools[s] = register.schools[s]
<1>1. CASE register' = register
  BY <1>1
<1>2. ASSUME PlanSuits(tx.plan), PlanIsFresh(tx.plan), ApplyPlan(register, tx.plan, now).ok,
             register' = ApplyPlan(register, tx.plan, now).reg
      PROVE  /\ \A s \in tenants : register'.schools[s].status = register.schools[s].status
             /\ \A m \in DOMAIN register.municipalities :
                  /\ register.municipalities[m].status = "active"
                  /\ register.municipalities[m].number \in SplitCodes(sources)
                  => /\ register'.municipalities[m] = register.municipalities[m]
                     /\ \A s \in DOMAIN register.schools : register.schools[s].municipality_id = m
                          => register'.schools[s] = register.schools[s]
  <2>1. PICK new, plan : new = ApplyPlan(register, plan, now).reg /\ plan = tx.plan
                         /\ new = register'
    BY <1>2
  <2>2. HasAddresses(register)
    BY SoundHasAddresses DEF IInv
  <2>3. /\ \A s \in DOMAIN register.schools \ ClosedBy(plan.school_ops) :
             new.schools[s].status = register.schools[s].status
        /\ \A m \in DOMAIN register.municipalities : PassedOver(register, plan, m) =>
             /\ new.municipalities[m] = register.municipalities[m]
             /\ \A s \in DOMAIN register.schools :
                  register.schools[s].municipality_id = m => new.schools[s] = register.schools[s]
    BY <1>2, <2>1, <2>2, ApplyPlanLeaves DEF IInv, RegisterIsSound, PlanSuits
  <2>4. tenants \subseteq DOMAIN register.schools \ ClosedBy(plan.school_ops)
    BY <1>2, <2>1 DEF IInv, TypeOK, PlanIsFresh
  <2> QED BY <1>2, <2>1, <2>3, <2>4 DEF PlanIsFresh
<1>3. ASSUME NEW i \in DOMAIN register.reviews,
             register' = [register EXCEPT !.reviews[i].open = FALSE]
      PROVE  /\ register'.schools = register.schools
             /\ register'.municipalities = register.municipalities
  BY <1>3, ResolveIsSound DEF IInv, SameButReviews
<1> QED BY <1>1, <1>2, <1>3, RegisterSteps

\* plan_schools reviews a school with an FAU instead of closing it (D8), as long
\* as no FAU came after the run's snapshot.
THEOREM FauSchoolsAreSpared ==
  Spec => FauSchoolIsNotClosed
<1>1. IInv /\ [Next]_vars =>
        [\A s \in tenants : register.schools[s].status = "active" /\ ~dirty =>
           register'.schools[s].status = "active"]_vars
  BY FreshCommit
<1> QED BY <1>1, Soundness, PTL DEF Spec, FauSchoolIsNotClosed

\* plan_municipalities blocks a municipality that SSB's changes split, and
\* plan_schools passes over its schools: runs change neither.
THEOREM SplitIsLeftAlone ==
  Spec => SplitMunicipalityIsLeftAlone
<1>1. IInv /\ [Next]_vars =>
        [\A m \in DOMAIN register.municipalities :
           /\ register.municipalities[m].status = "active"
           /\ register.municipalities[m].number \in SplitCodes(sources) /\ ~dirty
           =>
             /\ register'.municipalities[m] = register.municipalities[m]
             /\ \A s \in DOMAIN register.schools :
                  register.schools[s].municipality_id = m =>
                    register'.schools[s] = register.schools[s]]_vars
  BY FreshCommit
<1> QED BY <1>1, Soundness, PTL DEF Spec, SplitMunicipalityIsLeftAlone

=============================================================================
