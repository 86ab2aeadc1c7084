SPECIFICATION Spec
CONSTANTS
  Clients = {c1, c2}
  c1 = c1
  c2 = c2
  Requests = {"start", "stop"}
  Shapes = {"router"}
  Faults = {"config", "device", "drain", "crash"}
  MaxSessions = 2
  MaxUtts = 1
  MaxTurns = 1
  MaxCrashes = 1
  QueueMax = 1
SYMMETRY ClientSymmetry
INVARIANT OneRecorder
INVARIANT OneOwner
INVARIANT OwnershipInv
PROPERTY ImplementsRecorder
CHECK_DEADLOCK FALSE
