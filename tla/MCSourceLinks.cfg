SPECIFICATION Spec
CONSTANTS
  me = me
  you = you
  a = a
  b = b
  Users = {me, you}
  Me = me
  Others = {you}
  Urls = {a, b}
  Secretless = {b}
  Handlers = {h1, h2}
  MaxPerUser = 1
  MaxSources = 2
  MaxQueue = 2
  EditWhileSync = FALSE
  None = None
SYMMETRY Symmetry
INVARIANTS
  TypeOK
  RemoteIdOwn
  SyncedIsStored
PROPERTIES
  OwnRows
