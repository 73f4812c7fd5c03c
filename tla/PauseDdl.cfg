SPECIFICATION Spec
CONSTANTS
  Coord <- MCCoord
  Session = {"p", "q"}
  Home <- MCHome
  Pausers = {"p"}
  DdlSessions = {"q"}
  MaxStatements = 2
  MaxCancels = 0
PROPERTY PauseReturns
CHECK_DEADLOCK FALSE
