SPECIFICATION FairSpec
CONSTANTS
  Clients = {c1, c2}
  c1 = c1
  c2 = c2
  Requests = {"start", "stop"}
  Shapes = {"router", "stream"}
  Faults = {"config", "create", "device", "disk", "provider", "persist", "settle", "interims", "drain"}
  MaxSessions = 1
  MaxUtts = 1
  MaxTurns = 1
  MaxCrashes = 0
  QueueMax = 1
PROPERTY NobodyWaitsForEver
PROPERTY DeadSessionEnds
CHECK_DEADLOCK FALSE
