SPECIFICATION Spec
CONSTANTS
  MaxSegs = 3
  MaxTurns = 3
  MaxWords = 4
  MaxDeltas = 2
  MaxSockets = 6
  MaxUtts = 2
  MaxPosts = 2
  JobTimeout = 6
  MaxVideos = 2
  MaxPolls = 1
  Window = 2
  PollEvery = 2
  QueueMax = 3
  Fresh = 1
  MaxClock = 7
  MaxReleases = 2
  MaxCalls = 3
  MaxDeaths = 1
  People = {10, 20, 30}
  Spread = 1
  Fragments = {13}
  Threshold = 4
  FloorMargin = 1
  CentroidMemory = 2
  Tables = {"a", "b"}
  MaxBanks = 1
  MaxUtterances = 3
  Browsers = {b1, b2}
  Passwords = {p1, p2}
  MaxAttempts = 2
  MaxKeys = 1
  Voices = {1, 2}
  Held = 2
  MaxSeconds = 3
  MaxFinals = 2
  MaxRestarts = 1
  RingMax = 2
  PaneMax = 2
  MaxLines = 4
  Block = 3
  Frame = 2
  VadWindow = 3
  Silence = 2
  PreRoll = 2
  MaxUtterance = 8
  BlockQueue = 2
  MaxBlocks = 7
  MaxRequests = 3
INVARIANTS
  SaidIsWritten
  ConnectionsKept
  CallsKept
  LibraryTellsOneStory
  VideoBooks
  TimelineKept
  OneUpdate
  SpeakersKeptApart
  DoorHolds
  GradedByCause
  LabelsTellTruth
  PaneTellsStory
  SpeechIsWhole
  CampaignBooks
CHECK_DEADLOCK FALSE
