\* A session logs out while one of its requests waits for OpenBao.
CONSTANTS
  Session = {s1, s2}
  Unit = {u1}
  Request = {r1, r2}
  NoKey = NoKey
  NoSession = NoSession
  NoUnit = NoUnit
  Idle = 1
  MaxKeys = 1
SPECIFICATION Spec
INVARIANTS NoKeyAfterLogout
CHECK_DEADLOCK FALSE
