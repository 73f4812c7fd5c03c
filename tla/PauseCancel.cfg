SPECIFICATION Spec
CONSTANTS
  Coord <- MCCoord
  Session = {"p", "r"}
  Home <- MCHome
  Pausers = {"p"}
  DdlSessions = {}
  MaxStatements = 3
  MaxCancels = 1
PROPERTY NoDanglingHolder
CHECK_DEADLOCK FALSE
