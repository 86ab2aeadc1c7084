SPECIFICATION Spec
CONSTANTS
  Clients = {c1, c2}
  c1 = c1
  c2 = c2
  Requests = {"start", "stop", "delete"}
  Shapes = {"router", "stream"}
  Faults = {"device", "settle", "drain", "finish", "crash"}
  MaxSessions = 1
  MaxUtts = 1
  MaxTurns = 1
  MaxCrashes = 1
  QueueMax = 1
SYMMETRY ClientSymmetry
PROPERTY BootHeals
PROPERTY DeletedIsFinal
CHECK_DEADLOCK FALSE
