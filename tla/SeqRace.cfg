SPECIFICATION Spec
CONSTANTS
  Thread = {t1, t2}
  Options <- MCOptions
  Counts = {1, 3}
  Reserve = 2
  MinGap = 2
  Overlap = TRUE
  SetValues = {2}
  MaxOps = 4
  MaxCrashes = 1
SYMMETRY Threads
INVARIANT NoDuplicate
CHECK_DEADLOCK FALSE
