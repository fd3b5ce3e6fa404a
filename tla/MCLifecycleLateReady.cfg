\* A scrape whose check was under way when the signal came.
CONSTANTS
  Migrator = {m1}
  NoMigrator = NoMigrator
  Latest = 2
  Probe = {p1, p2}
  Request = {r1}
  MinimumContractVersion = 2
  ReadableFrom = 2
  CacheTtl = 2
  CheckTimeout = 2
  PreDrain = 1
  DrainBound = 3
  MaxOutages = 0
  MaxTime = 4
SPECIFICATION Spec
PROPERTIES NoReadyInShutdown
CHECK_DEADLOCK FALSE
