CONSTANTS
  Dn = {d1, d2}
  Coord = c
  LocalWrites = {TRUE, FALSE}
  Prompt = FALSE
  CancelSync = FALSE
  MaxCrashes = 0
  MaxFails = 0
SPECIFICATION Spec
INVARIANT Agreement
