\* A transaction that stored a unit's first key rolls back.
CONSTANTS
  Session = {s1, s2}
  Unit = {u1}
  Request = {r1, r2}
  NoKey = NoKey
  NoSession = NoSession
  NoUnit = NoUnit
  Idle = 1
  MaxKeys = 2
SPECIFICATION Spec
INVARIANTS RowsAreReadable
CHECK_DEADLOCK FALSE
