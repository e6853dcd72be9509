SPECIFICATION FairSpec
CONSTANTS
  b1 = b1
  b2 = b2
  c1 = c1
  c2 = c2
  c3 = c3
  c4 = c4
  local = local
  thread = thread
  web = web
  NoLimit = NoLimit
  Batches = {b1, b2}
  Calls = {c1, c2, c4}
  Tools = {local, thread, web}
  BatchOf <- MCBatchOf
  ToolOf <- SharedTool
  Kind <- MCKind
  Rpm <- SomeRpm
  MaxConcurrent = 1
  MaxAttempts = 2
  Window = 1
  MaxTime = 2
INVARIANTS
  PermitsBalance
  TimeoutStopsTask
  ResultsTruthful
  WindowRespected
PROPERTIES
  EveryBatchEnds
  
CHECK_DEADLOCK FALSE
