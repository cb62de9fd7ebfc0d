SPECIFICATION MCFairSpec
CONSTANTS
  Interval = 2
  Timeout = 6
  MinSecs = 1
  MaxSecs = 60
  Saturation = 6
  MaxTroubles = 3
  Silent = {"hello", "verdict", "bare", "control"}
  MaxBytes = 4
  MaxPiece = 2
  SinkRoom = 2
  MaxNoise = 2
  Connection = {c1, c2}
  Install = {k1, k2}
  Newest = 1
  MaxUpdates = 1
  PrefixLen = 2
  MaxFrameLen = 4
  MaxBody = 3
  ChunkLen = 5
  PingLen = 3
INVARIANTS
  OwnerIsTold
  UnsupportedMeansNoneShared
  LegalOpenersAreRead
  AnswersAreWhole
PROPERTIES
  TunnelComesUp
CHECK_DEADLOCK FALSE
