\* One school representative hands the recovery seat to another.
CONSTANTS
  ann = ann
  bo = bo
  NoOne = NoOne
  Person = {ann, bo}
  Assignment = {1, 2}
  Invitation = {1}
  Request = {}
  Seed <- OneAdmin
  Leaders = {NoOne, bo}
  OfferedPeriods <- NextTerm
  OfferedClasses <- AdminOnly
  HandoverDays = 1
  InvitationDays = 2
  LapseDays = 1
  DailyLimit = 1
  AdminEndMin = 1
  AdminEndMax = 2
  Incident = {"seat"}
  LastDay = 3
  MaxLag = 1
  MaxToken = 1
  MaxInFlight = 1
  MaxSweeps = 1
SPECIFICATION Spec
PROPERTIES SeatHolderNeverSeatsItself
CHECK_DEADLOCK FALSE
