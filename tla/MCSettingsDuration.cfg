SPECIFICATION Spec
CONSTANTS
  Words <- AnyText
  Routers <- TwoRouters
  Environments <- DurationEnvironments
  Files <- OneFile
INVARIANT
  InvalidDurationIgnored
CHECK_DEADLOCK FALSE
