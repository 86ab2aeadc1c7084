SPECIFICATION Spec
CONSTANTS
  Clients = {c1, c2}
  c1 = c1
  c2 = c2
  Ops = {"transcribe", "diarize"}
  Requests = {"cancel", "delete", "shutdown", "crash"}
  Faults = {"probe", "provider", "store"}
  MaxJobs = 1
  MaxUtts = 2
  MaxCrashes = 1
SYMMETRY ClientSymmetry
INVARIANT RunningHasRun
INVARIANT JobTellsTruth
INVARIANT DeletedStaysGone
CHECK_DEADLOCK FALSE
