SPECIFICATION Spec
CONSTANTS
  Words <- AnyText
  Routers <- TwoRouters
  Environments <- RouteEnvironments
  Files <- OneFile
INVARIANT
  OverridesAreSpecific
CHECK_DEADLOCK FALSE
