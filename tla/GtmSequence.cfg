SPECIFICATION Spec
CONSTANTS
  Thread = {t1, t2}
  Options <- MCOptions
  Counts = {1, 3}
  Reserve = 2
  MinGap = 2
  Overlap = FALSE
  SetValues = {2}
  MaxOps = 4
  MaxCrashes = 2
SYMMETRY Threads
INVARIANTS TypeOK NoDuplicate StoreAhead
PROPERTIES InRange Ascends
CHECK_DEADLOCK FALSE
