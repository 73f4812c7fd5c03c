CONSTANTS
  Gtm = {g1, g2}
  First = g1
  Thread = {w1}
  SyncLimit = 1
  StartupDelta = 4
  MaxStall = 1
  MaxSet = 0
  MaxClock = 9
  MaxCrashes = 1
  WaitForRedo = FALSE
SPECIFICATION Spec
PROPERTY NeverTurnsAround
