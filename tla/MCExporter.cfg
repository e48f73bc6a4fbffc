\* A scrape of two routers and a probe of one, with one slot between them.
SPECIFICATION FairExporterSpec
CONSTANTS
  m1 = m1
  p1 = p1
  r1 = r1
  r2 = r2
  All = All
  Free = Free
  Requests = {m1, p1}
  Routers = {r1, r2}
  Target <- MCTargetPair
  SemSize = 1
  Spaced = TRUE
  PersistentPool = FALSE
  RemoteRouters = {r1}
INVARIANTS
  TypeOK
  SemaphoreAccounted
  OnlySetupTimeoutsLeak
  MutexReturned
  CutOffByOthersAlone
PROPERTIES
  Answered
  WaitEnds
  ScrapeContractHolds
CHECK_DEADLOCK FALSE
