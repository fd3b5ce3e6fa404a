\* Signups for two schools, sweeps that overlap, crashes and freezes: the limit and the circles of waits.
CONSTANTS
  School = {s1, s2}
  Address = {p1, p2}
  Transaction = {r1, r2, r3}
  AnySchool = AnySchool
  NoAddress = NoAddress
  NoTenant = NoTenant
  PendingDays = 1
  AdminEndMin = 2
  AdminEndMax = 2
  MaxPending = 1
  Incident = {"crash", "freeze", "disabled"}
  LastDay = 1
  MaxLag = 0
  MaxSignups = 3
SPECIFICATION Spec
INVARIANTS PendingLimitHolds OnlySweepsWaitInACircle
SYMMETRY Symmetry
CHECK_DEADLOCK FALSE
