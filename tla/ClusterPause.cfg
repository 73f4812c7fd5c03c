SPECIFICATION Spec
CONSTANTS
  Coord <- MCCoord
  Session = {"p", "q", "r"}
  Home <- MCHome
  Pausers = {"p"}
  DdlSessions = {}
  MaxStatements = 3
  MaxCancels = 1
INVARIANTS TypeOK Exclusion CountExact HolderKnows
PROPERTIES PauseReturns NoStrayPause
CHECK_DEADLOCK FALSE
