\* Signups of two addresses for one school, the sweep and activations overlap.
CONSTANTS
  School = {s1}
  Address = {p1, p2}
  Transaction = {r1, r2, r3}
  AnySchool = AnySchool
  NoAddress = NoAddress
  NoTenant = NoTenant
  PendingDays = 2
  AdminEndMin = 3
  AdminEndMax = 3
  MaxPending = 1
  Incident = {"close"}
  LastDay = 2
  MaxLag = 1
  MaxSignups = 3
SPECIFICATION Spec
SYMMETRY Symmetry
INVARIANTS ExpiredSignupHoldsNoSchool
PROPERTIES ImplementsClaim
CHECK_DEADLOCK FALSE
