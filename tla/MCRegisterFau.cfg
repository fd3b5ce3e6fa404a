CONSTANTS
  Names <- MCNames
  SlugOf <- MCSlugOf
  Trigrams <- MCTrigrams
  Svalbard = 2100
  SvalbardName = "Svalbard"
  Abroad = 2599
  Bystanders = 98
  MaxSuffix = 9
  Scenarios <- MCScenarios
  MaxRuns = 4
  MaxSignups = 1
  MaxResolved = 1
SPECIFICATION Spec
INVARIANT FauSchoolStaysOpen
CHECK_DEADLOCK FALSE
