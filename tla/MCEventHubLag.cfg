\* One stream, no outage: a slow reader, and a revocation.
CONSTANTS
  ann = ann
  bo = bo
  g1 = g1
  NoMember = NoMember
  Member = {ann, bo}
  Group = {g1}
  Follows = {}
  FirstRoles <- AdminAndMember
  FirstGroups <- OpenGroup
  Offered = {}
  Incident = {}
  MaxCommits = 3
  Stream = {s1}
  Viewers = {bo}
  Buffer = 1
  MaxBreaks = 0
SPECIFICATION Spec
INVARIANT RevokedBufferIsDiscarded
CHECK_DEADLOCK FALSE
