SPECIFICATION Spec
CONSTANTS
  m1 = m1
  m2 = m2
  v1 = v1
  v2 = v2
  w1 = w1
  f1 = f1
  f2 = f2
  Mods = {m1, m2}
  Versions = {v1, v2, w1}
  Files = {f1, f2}
  ModOf <- MCModOf
  FilesOf <- MCFilesOf
  MaxQueue = 1
  Troubles = {}
  None = None
CONSTRAINT OneCutShort
INVARIANTS
  TypeOK
  OneModLive
  MarkerTells
PROPERTIES
  EnabledIsStaged
  UninstalledIsGone
  ImportIsWhole
