\* One stream, an outage, and two commits of every kind.
CONSTANTS
  ann = ann
  bo = bo
  g1 = g1
  NoMember = NoMember
  Member = {ann, bo}
  Group = {g1}
  Follows <- GuestsFollow
  FirstRoles <- AdminAndMember
  FirstGroups <- WithOrWithoutGroup
  Offered <- Roles
  Incident = {"freeze", "close"}
  MaxCommits = 2
  Stream = {s1}
  Viewers = {bo}
  Buffer = 1
  MaxBreaks = 1
SPECIFICATION FairSpec
INVARIANTS RevocationReachesStreams NoSilentGap ReturnerStartsWithoutGroups DisclosureFollowsTheRule
PROPERTY RevokedStreamEnds
CHECK_DEADLOCK FALSE
