SPECIFICATION FairSpec
CONSTANTS
  Endpoints = {e1}
  Dashboards = {d1}
  Kinds <- AgentKinds
  MaxConns = 1
  MaxMessages = 2
  MaxCommands = 0
PROPERTIES
  LiveTurnsOnline
CHECK_DEADLOCK FALSE
