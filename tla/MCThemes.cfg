SPECIFICATION Spec
CONSTANTS
  a = a
  b = b
  c = c
  p1 = p1
  p2 = p2
  Themes = {a, b, c}
  Parts = {p1, p2}
  PartsOf <- MCPartsOf
  Verdict <- MCVerdict
  Backgrounds <- MCBackgrounds
  MaxQueue = 2
  Troubles = {"write"}
  None = None
INVARIANTS
  TypeOK
  RecordNotForeign
  AppliedShown
PROPERTIES
  AllOrNothing
