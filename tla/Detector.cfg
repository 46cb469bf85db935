SPECIFICATION Spec
CONSTANTS
  Pids = {1, 2}
  R2Offset = 2
  R3Offset = 1
  Ports = {1, 2}
  C2Ports = {1}
  ScanThreshold = 2
  ScanWindow = 1
  Files = {f1, f2}
  CanaryThreshold = 2
  CanaryWindow = 1
  MaxTime = 2
  MaxChanges = 4
INVARIANTS
  TypeOK
  OneAlertPerKey
  ScanIsFound
  BurstIsReported
PROPERTIES
  SuspectIsReported
CHECK_DEADLOCK FALSE
