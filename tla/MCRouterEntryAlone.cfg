\* Overlapping scrapes of a router as the exporter sets it up, whose handlers
\* wait for their collectors.
CONSTANTS
  s1 = s1
  s2 = s2
  wlan = wlan
  Scrapes = {s1, s2}
  Collectors = {wlan}
  Children = {}
  PersistentPool = FALSE
  PersistentCache = FALSE
  Detach = FALSE
  NoCache = NoCache
  Nobody = Nobody
  MaxTable = 2
SPECIFICATION FairSpec
INVARIANTS
  LookupsCurrent
PROPERTIES
  ScrapeEnds
