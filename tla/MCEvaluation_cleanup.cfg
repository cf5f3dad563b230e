SPECIFICATION MCSpec
CONSTANTS
  Lanes = {"codex"}
  Runs = {r1, r2}
  Outputs = {o1, o2}
  Possible <- MCPossible
  Trees = {t1, t2}
  Wellbuilt = {t1, t2}
  None = None
  Torn = Torn
  Foreign = {f}
  MaxSwaps = 1
INVARIANT CleanupClaimTrue
CHECK_DEADLOCK FALSE
SYMMETRY Symmetric
