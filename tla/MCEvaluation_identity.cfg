SPECIFICATION MCSpec
CONSTANTS
  Lanes = {"claude"}
  Runs = {r1, r2}
  Outputs = {o1, o2}
  Possible <- MCPossible
  Trees = {t1, t2}
  Wellbuilt = {t1, t2}
  None = None
  Torn = Torn
  Foreign = {f}
  MaxSwaps = 1
INVARIANT CurrentMeansUsed
CHECK_DEADLOCK FALSE
SYMMETRY Symmetric
