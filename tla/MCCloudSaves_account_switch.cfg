SPECIFICATION Spec
CONSTANTS
  Users = {u1, u2}
  Contents = {c1, c2, c3}
  Handlers = {h1}
  Ops = {"put", "status", "pull"}
  MaxRev = 2
  MaxWriters = 1
  Absent = Absent
  Torn = Torn
  Devices = {d1, d2}
  kMaxConflictRetries = 1
  MaxLogouts = 1
SYMMETRY Symmetry
INVARIANTS
  NoSilentLoss
