SPECIFICATION ApiSpec
CONSTANTS
  Users = {u1}
  Contents = {c1, c2}
  Handlers = {h1, h2}
  Ops = {"put", "status", "pull", "delete"}
  MaxRev = 3
  MaxWriters = 1
  Absent = Absent
  Torn = Torn
SYMMETRY Symmetry
INVARIANTS
  ApiTypeOK
PROPERTIES
  ImplementsRegister
