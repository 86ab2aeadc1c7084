SPECIFICATION FairSpec
CONSTANTS
  Clients = {c1, c2}
  c1 = c1
  c2 = c2
  Ops = {"transcribe", "diarize"}
  Requests = {"cancel", "adopt", "shutdown"}
  Faults = {"probe", "provider", "store"}
  MaxJobs = 1
  MaxUtts = 2
  MaxCrashes = 1
INVARIANT WholeCopyOrNone
PROPERTY JobsEnd
CHECK_DEADLOCK FALSE
