SPECIFICATION MCSpec
CONSTANTS
  Names = {a, b}
  Writers = {w1}
  Second = {}
  Ids = {i1, i2, i3, i4, i5}
  MaxForeign = 0
  Faults = FALSE
  None = None
CHECK_DEADLOCK FALSE
INVARIANTS OwnLayoutIsCleared
