SPECIFICATION Spec
CONSTANTS
  Coord = {1, 2}
  Session = {"p", "r"}
  Home <- MCHome
  Pausers = {"p", "r"}
  DdlSessions = {}
  MaxStatements = 3
  MaxCancels = 1
INVARIANT Exclusion
CHECK_DEADLOCK FALSE
