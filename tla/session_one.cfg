SPECIFICATION Spec
CONSTANTS
  Clients = {c1, c2}
  c1 = c1
  c2 = c2
  Requests = {"start", "stop"}
  Shapes = {"router", "stream"}
  Faults = {"config", "create", "device", "disk", "provider", "persist", "settle", "drain", "crash"}
  MaxSessions = 1
  MaxUtts = 2
  MaxTurns = 1
  MaxCrashes = 1
  QueueMax = 1
SYMMETRY ClientSymmetry
INVARIANT TypeOK
INVARIANT LiveViewFollows
INVARIANT EndedIsSettled
INVARIANT RecordingKept
INVARIANT NoZombieRow
INVARIANT HonestEnding
CHECK_DEADLOCK FALSE
