SPECIFICATION Spec
CONSTANTS
  Pids = {p1, p2, p3}
  MaxProcs = 3
  MaxSecond = 0
  MaxAlerts = 1
  MaxOthers = 1
SYMMETRY PidSymmetry
INVARIANTS
  TypeOK
  SparesBystanders
  EvidenceIsOfTarget
  KillReportIsTrue
  SurvivorsWereOutOfSight
  NothingLeftFrozen
  AnsweredDespiteFailures
CHECK_DEADLOCK FALSE
