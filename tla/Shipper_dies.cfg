SPECIFICATION Spec
CONSTANTS
  Capacity = 2
  BackoffMin = 1
  BackoffMax = 2
  MaxEvents = 3
  MaxConns = 2
  MaxCommands = 1
INVARIANTS
  RunEndsOnlyWhenStopped
CHECK_DEADLOCK FALSE
