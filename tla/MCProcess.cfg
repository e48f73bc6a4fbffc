\* The exporter with a request, two routers and the background task started twice.
CONSTANTS
  s1 = s1
  s2 = s2
  r1 = r1
  r2 = r2
  q1 = q1
  Starters = {s1, s2}
  Routers = {r1, r2}
  Requests = {q1}
  NoOwner = NoOwner
  NoResult = NoResult
  DNSServer = TRUE
  MaxTests = 2
SPECIFICATION ProcessSpec
CHECK_DEADLOCK FALSE
INVARIANTS
  SuccessIsGraceful
  ShownInOrder
PROPERTIES
  ResultsAdvance
  SignalEndsProcess
  ListenFailureEnds
  CollectEnds
