CONSTANTS
  Dn = {d1, d2}
  Coord = c
  LocalWrites = {FALSE}
  Prompt = TRUE
  CancelSync = TRUE
  MaxCrashes = 1
  MaxFails = 1
SPECIFICATION Spec
INVARIANT Agreement
