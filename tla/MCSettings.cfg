SPECIFICATION Spec
CONSTANTS
  Words <- AnyText
  Routers <- MCRouters
  Environments <- MCEnvironments
  Files <- MCFiles
INVARIANTS
  TypeOK
  ClashesKnown
  SemaphoreUsable
CHECK_DEADLOCK FALSE
