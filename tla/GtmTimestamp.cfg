CONSTANTS
  Gtm = {g1, g2}
  First = g1
  Thread = {w1}
  SyncLimit = 1
  StartupDelta = 4
  MaxStall = 1
  MaxSet = 1
  MaxClock = 5
  MaxCrashes = 2
  WaitForRedo = TRUE
SPECIFICATION Spec
INVARIANTS TypeOK NoReissue CheckedIsDurable
PROPERTY MonotoneIssue
