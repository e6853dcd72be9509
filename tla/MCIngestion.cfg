SPECIFICATION FairSpec
CONSTANTS
  d1 = d1
  f1 = f1
  t1 = t1
  t2 = t2
  hosted = hosted
  local = local
  NoProvider = NoProvider
  NoDoc = NoDoc
  Worker = Worker
  Docs = {d1}
  Files = {f1}
  Tasks = {t1, t2}
  Providers = {hosted, local}
  Local = local
  Rank <- MCRank
  Kafka = TRUE
  Retries = 2
  MaxRequests = 3
  MaxKeyChanges = 1
  MaxCrashes = 1
INVARIANTS
  TypeOK
  RowsAgree
  JobNeverOverstates
  OneSpaceWhileKeysStay
PROPERTIES
  KeepsShelf
  EveryIngestSettles
CHECK_DEADLOCK FALSE
