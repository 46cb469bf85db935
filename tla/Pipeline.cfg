SPECIFICATION Spec
CONSTANTS
  Endpoints = {e1, e2}
  MaxSecond = 1
  MaxSent = 2
  MaxConns <- ConnsOfRoamer
  Roamer = e1
  MaxOnWire = 2
  Limit = 1
  MaxAnswers = 1
INVARIANTS
  TypeOK
  OnlyCollisionsAreDropped
  CrashHasCause
  VerdictStands
  FallbackIsOffline
  EachCountsOnce
  ShownIsStored
PROPERTIES
  StoredIsShown
  ImplementsLedger
CHECK_DEADLOCK FALSE
