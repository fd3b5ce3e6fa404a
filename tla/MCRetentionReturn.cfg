\* A returner whose new role began before they came back: their old contributions show their name.
CONSTANTS
  Tenant = {1}
  Setter = {}
  Eraser = {}
  Period = {1}
  DefaultPeriod = 1
  OfferedPeriods <- MCBackdated
  Followed = {1}
  LastDay = 4
  MaxRoles <- MCMaxRoles
  FirstJobDay = 0
SPECIFICATION Spec
INVARIANTS OldContributionsStayUnnamed
CHECK_DEADLOCK FALSE
