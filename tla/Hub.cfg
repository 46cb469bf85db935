SPECIFICATION Spec
CONSTANTS
  Endpoints = {e1}
  Dashboards = {d1, d2}
  Kinds = {"enrollment", "heartbeat", "alert", "pong", "bad"}
  MaxConns = 2
  MaxMessages = 2
  MaxCommands = 1
SYMMETRY DashboardSymmetry
INVARIANTS
  TypeOK
  RegistryIsNewest
  LeftBehindByCrash
  NoSecondPush
  SkipsAreRemovals
CHECK_DEADLOCK FALSE
