\* A role accepted after its end still produces a handover window.
CONSTANTS
  ann = ann
  bo = bo
  NoOne = NoOne
  Person = {ann, bo}
  Assignment = {1, 2, 3}
  Invitation = {1}
  Request = {}
  Seed <- TwoAdmins
  Leaders = {NoOne}
  OfferedPeriods <- ShortTerm
  OfferedClasses <- AdminOnly
  HandoverDays = 2
  InvitationDays = 2
  LapseDays = 1
  DailyLimit = 1
  AdminEndMin = 1
  AdminEndMax = 2
  Incident = {}
  LastDay = 3
  MaxLag = 0
  MaxToken = 2
  MaxInFlight = 1
  MaxSweeps = 1
SPECIFICATION Spec
INVARIANTS HandoverOnlyAfterService
CHECK_DEADLOCK FALSE
