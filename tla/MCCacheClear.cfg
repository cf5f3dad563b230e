SPECIFICATION MCSpec
CONSTANTS
  Names = {a, b}
  Writers = {w1, w2}
  Second = {w2}
  Ids = {i1, i2, i3, i4}
  MaxForeign = 1
  Faults = TRUE
  None = None
VIEW View
SYMMETRY Symmetry
CHECK_DEADLOCK FALSE
INVARIANTS DeletesOnlyClassified TruthfulReport
PROPERTIES NeverDeletesForeign
