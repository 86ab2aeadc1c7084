SPECIFICATION FairSpec
CONSTANTS
  p1 = p1
  p2 = p2
  Providers = {p1, p2}
  Primary = p1
  Fallback = p2
  StreamFaults = {"connect", "unsupported", "socket", "send", "drain"}
  QueueFrames = 2
  KeepFrames = 1
  MaxReconnects = 0
  MaxOpenTurns = 1
  MaxFrames = 3
  MaxTurns = 2
  MaxHealthy = 1
  RouterFaults = {"transient", "terminal"}
  DegradedAfter = 2
  MaxUtts = 3
  QueueMax = 2
INVARIANT EveryTurnSettles
INVARIANT MarkersDisjoint
INVARIANT LostOnlyAfterAll
INVARIANT OneAlertPerOutage
PROPERTY SettledStays
PROPERTY LostIsMarked
PROPERTY StopEndsPath
