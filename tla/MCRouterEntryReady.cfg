CONSTANTS
  s1 = s1
  wlan = wlan
  Scrapes = {s1}
  Collectors = {wlan}
  Children = {}
  PersistentPool = FALSE
  PersistentCache = FALSE
  Detach = FALSE
  NoCache = NoCache
  Nobody = Nobody
  MaxTable = 1
SPECIFICATION Spec
INVARIANTS
  ReadyMeansConnected
