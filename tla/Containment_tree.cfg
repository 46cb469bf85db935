SPECIFICATION Spec
CONSTANTS
  Pids = {p1, p2, p3}
  MaxProcs = 3
  MaxSecond = 0
  MaxAlerts = 1
  MaxOthers = 0
SYMMETRY PidSymmetry
INVARIANTS
  TreeIsDead
CHECK_DEADLOCK FALSE
