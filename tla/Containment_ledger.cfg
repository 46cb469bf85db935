SPECIFICATION Spec
CONSTANTS
  Pids = {p1}
  MaxProcs = 1
  MaxSecond = 1
  MaxAlerts = 2
  MaxOthers = 0
PROPERTIES
  EvidenceImmutable
CHECK_DEADLOCK FALSE
