SPECIFICATION Spec
CONSTANTS
  r1 = r1
  r2 = r2
  a1 = a1
  a2 = a2
  b1 = b1
  ka = ka
  kb = kb
  Relays = {r1}
  Models = {a1, a2, b1}
  Keys = {ka, kb}
  Platforms = {"A", "B"}
  Registered = {"A", "B"}
  ModelPlatform <- MCModelPlatform
  KeyPlatform <- MCKeyPlatform
  Scope <- MCScope
  Orders <- MCOrders
  Errors <- Refused
  MaxIters = 4
  Budget = 2
  TransientCooldown = 1
  EscalatedCooldown = 2
  MaxCooldown = 3
  MaxTime = 1
  MaxEdits = 0
PROPERTIES
  AuthSkipsPlatform
CHECK_DEADLOCK FALSE
