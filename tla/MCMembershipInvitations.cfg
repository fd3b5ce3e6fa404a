\* A removed admin is invited back as a guest: two acceptances in flight, the link re-sent and withdrawn, a sweep.
CONSTANTS
  ann = ann
  bo = bo
  NoOne = NoOne
  Person = {ann, bo}
  Assignment = {1, 2, 3, 4}
  Invitation = {1}
  Request = {}
  Seed <- TwoAdmins
  Leaders = {NoOne}
  OfferedPeriods <- NextTerm
  OfferedClasses <- GuestOnly
  HandoverDays = 2
  InvitationDays = 2
  LapseDays = 1
  DailyLimit = 1
  AdminEndMin = 1
  AdminEndMax = 2
  Incident = {}
  LastDay = 2
  MaxLag = 1
  MaxToken = 2
  MaxInFlight = 2
  MaxSweeps = 1
SPECIFICATION Spec
INVARIANTS FormerTenureIsInert InvitationUsedOnce
PROPERTIES InvitationDiesWithItsIssuer ResentTokenAdmitsNobody
CHECK_DEADLOCK FALSE
