\* Nine registers and the source changes that may hit them, with sign-ups and an operator.
CONSTANTS
  Names <- MCNames
  SlugOf <- MCSlugOf
  Trigrams <- MCTrigrams
  Svalbard = 2100
  SvalbardName = "Svalbard"
  Abroad = 2599
  Bystanders = 98
  MaxSuffix = 9
  Scenarios <- MCScenarios
  MaxRuns = 4
  MaxSignups = 1
  MaxResolved = 1
SPECIFICATION Spec
INVARIANTS AppliesCleanly RunsConverge VanishedSchoolIsHandled OldAddressNeverMisleads OneOpenItemPerQuestion
PROPERTIES SplitMunicipalityIsLeftAlone SqlFollowsTheReference
CHECK_DEADLOCK FALSE
