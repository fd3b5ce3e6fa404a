---------------------------- MODULE RegisterFetch ----------------------------
(***************************************************************************)
(* What a run of `fau register sync` reads from the sources (fetch.rs and  *)
(* the client in crates/register-sources): Kartverket, then SSB for a     *)
(* sync, then NSR's list page by page, then the detail of every unit the  *)
(* run wants, drained from one queue by a pool of workers.  Every request *)
(* is tried again on a transport error or a 5xx.  Meanwhile NSR goes on   *)
(* listing and removing units.                                            *)
(***************************************************************************)
EXTENDS Naturals, Sequences, SequencesExt, FiniteSets, FiniteSetsExt

CONSTANTS
  Runs,             \* the runs of the command
  Primary,          \* units NSR lists as active grunnskoler
  Others,           \* other units of the list: closed, or no grunnskole
  Listings,         \* what NSR may list at first: sequences of units
  Workers,          \* DETAIL_FETCHES_IN_PARALLEL of them
  PageSize,         \* NSR_PAGE_SIZE
  MaxPages,         \* NSR_MAX_PAGES
  Attempts,         \* a request and its DEFAULT_RETRY_DELAYS
  MaxTrouble        \* bound: failed requests and statements, panics, broken
                    \* connections, killed processes, changes of NSR's list

Units == Primary \cup Others

ASSUME SourcesAssumption ==
  /\ Primary \cap Others = {} /\ Listings \subseteq Seq(Units)
  /\ {PageSize, MaxPages, Attempts} \subseteq Nat \ {0} /\ Workers # {}
  /\ MaxTrouble \in Nat

VARIABLES
  listing,  \* NSR's list now
  fetch,    \* what each run has fetched
  trouble   \* bounded counter

fetchVars == <<listing, fetch>>

Trouble == trouble < MaxTrouble /\ trouble' = trouble + 1

-----------------------------------------------------------------------------
(* A worker takes the next orgnr from the queue and requests it; in the end *)
(* it returns its units or the error, or panics.                            *)

Ended == {"returned", "errored", "panicked"}

NotStarted ==
  [stage |-> "none", attempt |-> 1, page |-> 1, count |-> 0, total |-> 0, seen |-> {},
   listed |-> {}, arrived |-> FALSE, wanted |-> {}, queue |-> {}, failed |-> FALSE,
   worker |-> [w \in Workers |-> "take"], asks |-> [w \in Workers |-> {}],
   tried |-> [w \in Workers |-> 1], got |-> {}, done |-> 0]

FetchInit ==
  /\ listing \in Listings
  /\ fetch = [r \in Runs |-> NotStarted]
  /\ trouble = 0

StartFetch(r) == fetch' = [fetch EXCEPT ![r] = [NotStarted EXCEPT !.stage = "kartverket"]]

Fail(f) == [NotStarted EXCEPT !.stage = f]

-----------------------------------------------------------------------------
(* One request at a time: Kartverket, SSB, the pages of the list.           *)

Requesting(r) == fetch[r].stage \in {"kartverket", "ssb", "list"}

\* A seed is passed no code changes, so it does not ask SSB.
Answered(r, seed) ==
  /\ fetch[r].stage \in {"kartverket", "ssb"}
  /\ fetch' = [fetch EXCEPT ![r] = [@ EXCEPT
       !.stage = IF fetch[r].stage = "kartverket" /\ ~seed THEN "ssb" ELSE "list", !.attempt = 1]]
  /\ UNCHANGED <<listing, trouble>>

\* A transport error or a 5xx is tried again, up to Attempts times.
Retried(r) ==
  /\ Requesting(r) /\ Trouble /\ fetch[r].attempt < Attempts
  /\ fetch' = [fetch EXCEPT ![r].attempt = @ + 1]
  /\ UNCHANGED listing

\* The last attempt fails too, or the answer is a 4xx or does not parse.
GivenUp(r) ==
  /\ Requesting(r) /\ Trouble
  /\ fetch' = [fetch EXCEPT ![r] = Fail("source_error")]
  /\ UNCHANGED listing

PageCount == (Len(listing) + PageSize - 1) \div PageSize

PageOf(n) == SubSeq(listing, (n - 1) * PageSize + 1, Min({n * PageSize, Len(listing)}))

\* The deduplicated count must equal the total the first page claimed.
FinishedPaging(units, total) == Cardinality(units) = total

\* The page count and the total are the first page's.  A page that is empty
\* too early, a count that is not the total, or more pages than MaxPages fail
\* the run; otherwise the pages end and the details are queued: every active
\* grunnskole of the list, and every orgnr of it that the register holds open.
ReadPage(r, held, rows) ==
  LET f == fetch[r]
      first == f.page = 1
      count == IF first THEN PageCount ELSE f.count
      total == IF first THEN Len(listing) ELSE f.total
      seen == f.seen \cup ToSet(rows)
      last == rows = <<>> \/ f.page >= count
      wanted == (seen \cap Primary) \cup (seen \cap held)
      read == [f EXCEPT !.count = count, !.total = total, !.seen = seen, !.attempt = 1,
                        !.listed = IF first THEN ToSet(listing) ELSE f.listed]
  IN  /\ f.stage = "list"
      /\ fetch' = [fetch EXCEPT ![r] =
           IF last THEN IF f.page < count \/ ~FinishedPaging(seen, total)
                        THEN Fail("source_error")
                        ELSE [read EXCEPT !.stage = "details", !.wanted = wanted,
                                          !.queue = wanted, !.page = 1, !.count = 0]
           ELSE IF f.page = MaxPages THEN Fail("source_error")
           ELSE [read EXCEPT !.page = f.page + 1]]
      /\ UNCHANGED listing

PageRead(r, held) == ReadPage(r, held, PageOf(fetch[r].page)) /\ UNCHANGED trouble

\* NSR serves a page without its units.
PageEmpty(r, held) ==
  /\ Trouble
  /\ ReadPage(r, held, <<>>)

-----------------------------------------------------------------------------
(* The detail pass.                                                         *)

At(r, w, step) == fetch[r].stage = "details" /\ fetch[r].worker[w] = step

\* The next orgnr of the queue, unless another worker has failed.  (A flag
\* raised between the look and the take costs one more request.)
WorkerTakes(r, w) ==
  /\ At(r, w, "take")
  /\ LET queue == fetch[r].queue
         next == CHOOSE u \in queue : TRUE
     IN  fetch' = [fetch EXCEPT ![r] =
           IF queue = {} \/ fetch[r].failed THEN [@ EXCEPT !.worker[w] = "returned"]
           ELSE [@ EXCEPT !.worker[w] = "get", !.asks[w] = {next}, !.queue = queue \ {next}]]
  /\ UNCHANGED <<listing, trouble>>

WorkerGets(r, w) ==
  /\ At(r, w, "get")
  /\ fetch' = [fetch EXCEPT ![r] = [@ EXCEPT
       !.got = fetch[r].got \cup fetch[r].asks[w], !.done = fetch[r].done + 1, !.worker[w] = "take",
       !.asks[w] = {}, !.tried[w] = 1]]
  /\ UNCHANGED <<listing, trouble>>

WorkerRetries(r, w) ==
  /\ At(r, w, "get") /\ Trouble /\ fetch[r].tried[w] < Attempts
  /\ fetch' = [fetch EXCEPT ![r].tried[w] = @ + 1]
  /\ UNCHANGED listing

\* The first error ends the run: the others stop taking orgnrs.
WorkerFails(r, w) ==
  /\ At(r, w, "get") /\ Trouble
  /\ fetch' = [fetch EXCEPT ![r] = [@ EXCEPT !.failed = TRUE, !.worker[w] = "errored"]]
  /\ UNCHANGED listing

WorkerPanics(r, w) ==
  /\ At(r, w, "get") /\ Trouble
  /\ fetch' = [fetch EXCEPT ![r].worker[w] = "panicked"]
  /\ UNCHANGED listing

\* A panicked worker is joined: the others are dropped with the join set.
JoinPanicked(r) ==
  /\ \E w \in Workers : At(r, w, "panicked")
  /\ fetch' = [fetch EXCEPT ![r] = Fail("worker_panicked")]
  /\ UNCHANGED <<listing, trouble>>

\* Mutant: an error costs its own worker's units only.
JoinReturned(r) ==
  /\ fetch[r].stage = "details"
  /\ \A w \in Workers : fetch[r].worker[w] \in Ended \ {"panicked"}
  /\ fetch' = [fetch EXCEPT ![r].stage = "whole"]
  /\ UNCHANGED <<listing, trouble>>

\* All have returned: the first error counts, or else everything is there.
JoinAll(r) ==
  /\ fetch[r].stage = "details"
  /\ \A w \in Workers : fetch[r].worker[w] \in Ended \ {"panicked"}
  /\ fetch' = [fetch EXCEPT ![r] =
       IF \E w \in Workers : fetch[r].worker[w] = "errored"
       THEN Fail("source_error") ELSE [@ EXCEPT !.stage = "whole"]]
  /\ UNCHANGED <<listing, trouble>>

FetchStep(r, seed, held) ==
  \/ Answered(r, seed) \/ Retried(r) \/ GivenUp(r)
  \/ PageRead(r, held) \/ PageEmpty(r, held)
  \/ \E w \in Workers : \/ WorkerTakes(r, w) \/ WorkerGets(r, w)
                        \/ WorkerRetries(r, w) \/ WorkerFails(r, w) \/ WorkerPanics(r, w)
  \/ JoinPanicked(r) \/ JoinAll(r)

-----------------------------------------------------------------------------
(* NSR adds a unit anywhere in its list, or removes one.  A change matters  *)
(* only while somebody reads the list: one before is another first list.   *)

ListChanges ==
  /\ Trouble
  /\ \E r \in Runs : fetch[r].stage = "list"
  /\ \/ \E u \in Units \ ToSet(listing), i \in 1 .. Len(listing) + 1 :
          /\ listing' = InsertAt(listing, i, u)
          /\ fetch' = [r \in Runs |-> [fetch[r] EXCEPT !.arrived = @ \/ fetch[r].stage = "list"]]
     \/ \E i \in 1 .. Len(listing) : listing' = RemoveAt(listing, i) /\ UNCHANGED fetch

-----------------------------------------------------------------------------
(* Properties.                                                              *)

\* A detail pass that succeeds has every wanted unit, each fetched once: no error, early stop
\* or race for the queue loses or doubles one.
DetailPassIsWhole ==
  \A r \in Runs :
    fetch[r].stage = "whole" =>
      /\ fetch[r].got = fetch[r].wanted
      /\ fetch[r].done = Cardinality(fetch[r].wanted)

\* A list that passed the paging checks has every unit the first page counted,
\* whatever was removed while it was read and whichever pages came empty.
\* Only a unit that arrives meanwhile can stand in for one that is missed.
AcceptedListIsWhole ==
  \A r \in Runs :
    fetch[r].stage \in {"details", "whole"} /\ ~fetch[r].arrived => fetch[r].listed = fetch[r].seen

\* What a run plans from is whole: the list, and the details of what it wants of it (fetch.rs).
FetchIsWhole == AcceptedListIsWhole /\ DetailPassIsWhole

=============================================================================
