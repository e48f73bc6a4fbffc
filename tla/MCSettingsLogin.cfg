SPECIFICATION Spec
CONSTANTS
  Words <- AnyText
  Routers <- TwoRouters
  Environments <- LoginEnvironments
  Files <- OneFile
INVARIANT
  EnvironmentOverridesCredentials
CHECK_DEADLOCK FALSE
