\* Access requests and replacement proposals.
CONSTANTS
  ann = ann
  bo = bo
  NoOne = NoOne
  Person = {ann, bo}
  Assignment = {1, 2}
  Invitation = {1, 2}
  Request = {1}
  Seed <- AdminAndMember
  Leaders = {NoOne}
  OfferedPeriods <- NextTerm
  OfferedClasses <- MemberOnly
  HandoverDays = 2
  InvitationDays = 2
  LapseDays = 1
  DailyLimit = 2
  AdminEndMin = 1
  AdminEndMax = 2
  Incident = {}
  LastDay = 3
  MaxLag = 1
  MaxToken = 1
  MaxInFlight = 0
  MaxSweeps = 0
SPECIFICATION Spec
INVARIANTS RequestsAgree
PROPERTIES ClosedRequestStaysClosed
CHECK_DEADLOCK FALSE
