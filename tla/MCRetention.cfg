\* One account in two FAU-er, a setting change and an erasure at a time.
CONSTANTS
  Tenant = {1, 2}
  Setter = {s1}
  Eraser = {e1}
  Period = {0, 1, 2}
  DefaultPeriod = 1
  OfferedPeriods <- MCOffered
  Followed = {}
  LastDay = 1
  MaxRoles <- MCMaxRoles
  FirstJobDay = 1
SPECIFICATION Spec
INVARIANTS ChecksHold StampFollowsSetting ErasedStaysForgotten NoCircularWait
PROPERTIES ExpiredIsGone
CHECK_DEADLOCK FALSE
