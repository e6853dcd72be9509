SPECIFICATION FairSpec
CONSTANTS
  s1 = s1
  s2 = s2
  s3 = s3
  x = x
  y = y
  NoSocket = NoSocket
  NoTime = NoTime
  Sids = {x, y}
  Sockets = {s1, s2, s3}
  SidOf <- MCSidOf
  MaxSessions = 2
  IdleTimeout = 1
  PingWait = 0
  MaxLag = 1
  MaxChunks = 1
  Askers = {s1}
INVARIANTS
  BookkeepingAgrees
  PingMeansSilence
PROPERTIES
  SilenceIsNoticed
CHECK_DEADLOCK FALSE
