SPECIFICATION Spec
CONSTANTS
  Endpoints = {e1}
  MaxSecond = 1
  MaxSent = 2
  MaxConns <- ConnsOfRoamer
  Roamer = e1
  MaxOnWire = 2
  Limit = 1
  MaxAnswers = 1
INVARIANTS
  ResultsAreStored
CHECK_DEADLOCK FALSE
