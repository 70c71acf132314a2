SPECIFICATION ApiSpec
CONSTANTS
  Users = {u1}
  Contents = {c1, c2}
  Handlers = {h1, h2}
  Ops = {"put", "status", "pull"}
  MaxRev = 2
  MaxWriters = 2
  Absent = Absent
  Torn = Torn
INVARIANTS
  NoLostUpdate
