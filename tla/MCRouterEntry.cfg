CONSTANTS
  s1 = s1
  s2 = s2
  wlan = wlan
  Scrapes = {s1, s2}
  Collectors = {wlan}
  Children = {"dhcp", "capsman"}
  PersistentPool = FALSE
  PersistentCache = FALSE
  Detach = TRUE
  NoCache = NoCache
  Nobody = Nobody
  MaxTable = 1
SYMMETRY Symmetry
SPECIFICATION Spec
INVARIANTS
  NoIdleConnection
PROPERTIES
  FetchedOnce
