\* One server, two scrapes at a time, one request, two migrators, one outage.
CONSTANTS
  Migrator = {m1, m2}
  NoMigrator = NoMigrator
  Latest = 2
  Probe = {p1, p2}
  Request = {r1}
  MinimumContractVersion = 2
  ReadableFrom = 2
  CacheTtl = 2
  CheckTimeout = 2
  PreDrain = 1
  DrainBound = 2
  MaxOutages = 1
  MaxTime = 3
SPECIFICATION FairSpec
SYMMETRY Interchangeable
INVARIANTS SaysWhatItRan
PROPERTIES ReadyIsFresh ReadyEndsWithTheSignal DrainEndsInTime
CHECK_DEADLOCK FALSE
