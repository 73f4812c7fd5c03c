CONSTANTS
  N = 3
  Start = {1, 3}
  MaxClock = 2
  MaxOps = 3
SPECIFICATION Spec
INVARIANTS TypeOK SlotsOwned NoFailure
PROPERTIES ImplementsCell Drains
CHECK_DEADLOCK FALSE
