SPECIFICATION FairSpec
CONSTANTS
  Users = {u1}
  Contents = {c1, c2}
  Handlers = {h1, h2}
  Ops = {"put", "status", "pull"}
  MaxRev = 2
  MaxWriters = 1
  Absent = Absent
  Torn = Torn
  Devices = {d1}
  kMaxConflictRetries = 1
  MaxLogouts = 1
PROPERTIES
  OneOperation
  OperationEnds
