SPECIFICATION FairSpec
CONSTANTS
  Endpoints = {e1}
  Dashboards = {d1}
  Kinds = {"enrollment", "heartbeat", "alert", "pong", "bad"}
  MaxConns = 2
  MaxMessages = 3
  MaxCommands = 0
PROPERTIES
  GoneGoesOffline
CHECK_DEADLOCK FALSE
