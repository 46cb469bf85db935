SPECIFICATION Spec
CONSTANTS
  Endpoints = {e1}
  Dashboards = {d1}
  Kinds <- AgentKinds
  MaxConns = 2
  MaxMessages = 1
  MaxCommands = 1
INVARIANTS
  LiveIsRegistered
CHECK_DEADLOCK FALSE
