CONSTANTS
  Names <- MCNames
  SlugOf <- MCSlugOf
  Trigrams <- MCTrigrams
  Svalbard = 2100
  SvalbardName = "Svalbard"
  Abroad = 2599
  Bystanders = 98
  MaxSuffix = 9
  Scenarios <- MCFirstSlugScenarios
  MaxRuns = 4
  MaxSignups = 0
  MaxResolved = 0
SPECIFICATION Spec
INVARIANT AppliesCleanly
CHECK_DEADLOCK FALSE
