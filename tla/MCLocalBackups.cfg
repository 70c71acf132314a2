SPECIFICATION Spec
CONSTANTS
  p1 = p1
  f1 = f1
  f2 = f2
  v1 = v1
  v2 = v2
  Profiles = {p1}
  Files = {f1, f2}
  Versions = {v1, v2}
  FilesOf <- MCFilesOf
  Cloud <- MCCloud
  MaxTime = 1
  MaxQueue = 1
  None = None
  Absent = Absent
  Torn = Torn
  NoSave = NoSave
  Broken = Broken
INVARIANTS
  TypeOK
  LiveIsWhole
  ListedIsWhole
PROPERTIES
  ImplementsShelf
  KeptUntilDeleted
  RestoredIsBackup
CONSTRAINT
  OneMess
