\* First users of a unit race; the key service may never answer, and any transaction may roll back.
CONSTANTS
  Session = {s1, s2}
  Unit = {u1}
  Request = {r1, r2}
  NoKey = NoKey
  NoSession = NoSession
  NoUnit = NoUnit
  Idle = 1
  MaxKeys = 2
SPECIFICATION FairSpec
INVARIANTS LossStaysInItsSession
PROPERTIES RequestsEnd
SYMMETRY Interchangeable
CHECK_DEADLOCK FALSE
