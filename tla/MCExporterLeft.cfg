\* The connection that a scrape which timed out leaves up.
SPECIFICATION ExporterSpec
CONSTANTS
  m1 = m1
  p1 = p1
  r1 = r1
  r2 = r2
  All = All
  Free = Free
  Requests = {m1, p1}
  Routers = {r1, r2}
  Target <- MCTargetPair
  SemSize = 1
  Spaced = TRUE
  PersistentPool = FALSE
  RemoteRouters = {r1}
INVARIANT NoConnectionLeft
CHECK_DEADLOCK FALSE
