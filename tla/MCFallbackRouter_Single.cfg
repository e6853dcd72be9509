SPECIFICATION FairSpec
CONSTANTS
  r1 = r1
  r2 = r2
  a1 = a1
  a2 = a2
  b1 = b1
  ka = ka
  kb = kb
  ks = ks
  Requests = {r1}
  Models = {a1, a2, b1}
  Keys = {ka, ks, kb}
  Platforms = {"A", "B"}
  Registered = {"A", "B"}
  ModelPlatform <- MCModelPlatform
  KeyPlatform <- MCKeyPlatform
  Scope <- MCScope
  Orders <- TwoOrders
  MaxRetries = 2
  OverallBudget = 1
  PlatformLimit = 2
  Errors = {"auth", "credit", "throttled", "exhausted", "missing", "transient", "rejected"}
  Saves = {TRUE, FALSE}
  Modes = {"chat", "stream"}
  TransientCooldown = 1
  EscalatedCooldown = 2
  MaxCooldown = 3
  BenchTime = 1
  MaxTime = 3
  MaxEdits = 0
INVARIANTS
  TypeOK
  SkipsHaveCause
PROPERTIES
  NeverCalledTwice
  LateCallsStayOnModel
  EveryRequestEnds
CHECK_DEADLOCK FALSE
