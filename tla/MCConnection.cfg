\* Interleavings of one scraper and two streaming collectors.
CONSTANTS
  s1 = s1
  s2 = s2
  s3 = s3
  s4 = s4
  scraper = scraper
  a = a
  b = b
  Scrapers = {scraper}
  Streamers = {a, b}
  Sessions = {s1, s2, s3, s4}
  NoSession = NoSession
  NoOwner = NoOwner
  Goroutines <- MCGoroutines
  Calls <- MCCalls
  Config <- MCConfig
  MaxFailures = 2
  MaxElapsed = 2
  MaxRecords = 1
SYMMETRY Symmetry
SPECIFICATION Spec
INVARIANTS
  TypeOK
  SessionsAccountedFor
  StreamSessionOwned
  CurrentSessionsOpen
PROPERTIES
  DelayNeverShrinks
  SessionsIndependent
  StreamContractHolds
