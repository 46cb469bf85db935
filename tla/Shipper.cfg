SPECIFICATION FairSpec
CONSTANTS
  Capacity = 2
  BackoffMin = 1
  BackoffMax = 2
  MaxEvents = 3
  MaxConns = 3
  MaxCommands = 1
INVARIANTS
  TypeOK
  WriteOrder
  NoOvertaking
  LossIsWarned
  PopsTheSentEvent
  LeaksAreFailures
PROPERTIES
  ImplementsFeed
  EventuallyLeaves
  StopEnds
CHECK_DEADLOCK FALSE
