SPECIFICATION Spec
CONSTANTS
  Clients = {c1, c2}
  c1 = c1
  c2 = c2
  Requests = {"start", "stop", "delete"}
  Shapes = {"router"}
  Faults = {}
  MaxSessions = 1
  MaxUtts = 1
  MaxTurns = 1
  MaxCrashes = 0
  QueueMax = 1
INVARIANT DeletedLeavesNothing
CHECK_DEADLOCK FALSE
