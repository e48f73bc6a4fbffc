\* Liveness of one scraper and one streaming collector.
CONSTANTS
  s1 = s1
  s2 = s2
  s3 = s3
  scraper = scraper
  a = a
  Scrapers = {scraper}
  Streamers = {a}
  Sessions = {s1, s2, s3}
  NoSession = NoSession
  NoOwner = NoOwner
  Goroutines <- MCGoroutines
  Calls <- MCCalls
  Config <- MCConfig
  MaxFailures = 2
  MaxElapsed = 2
  MaxRecords = 1
SPECIFICATION FairSpec
PROPERTIES
  StreamReturns
  Reconnects
