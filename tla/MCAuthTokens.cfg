SPECIFICATION Spec
CONSTANTS
  Names = {n1}
  Tokens = {t1, t2, t3}
  Handlers = {h1, h2}
  Faults = TRUE
  Bearers = {t1}
  Lapsing = {t1}
  None = None
SYMMETRY Symmetry
INVARIANTS
  TypeOK
  OneLive
  RevokedStaysOut
PROPERTIES
  ImplementsSessions
