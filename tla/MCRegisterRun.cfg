\* A manual run and the scheduled one, with broken connections, failing requests, killed processes and a moving list.
CONSTANTS
  a = a
  b = b
  c = c
  Runs = {"manual", "cron"}
  Primary = {a}
  Others = {b, c}
  Listings <- SmallListings
  Workers = {1, 2}
  PageSize = 1
  MaxPages = 2
  Attempts = 2
  MaxTrouble = 1
  Held = {c}
SPECIFICATION FairSpec
INVARIANTS PlanIsCurrent RowTellsTheTruth FetchIsWhole
PROPERTIES RunsEnd
CHECK_DEADLOCK FALSE
