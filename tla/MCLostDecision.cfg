CONSTANTS
  c1 = c1  c2 = c2
  Kinds <- Manual
  Ids = {1}
  Asks <- MCAsks
  Available <- MCAvailable
  Routine <- MCRoutine
  MaxPending = 1
  Slots = 1
  Callers = {c1, c2}
  Uses <- MCUses
  Fickle <- MCFickle
  MaxLaunches = 2
  MaxTurns = 2
SPECIFICATION SessionSpec
INVARIANTS AllowedIsNotLost
CHECK_DEADLOCK FALSE
