SPECIFICATION Spec
CONSTANTS
  Words <- AnyText
  Routers <- TwoRouters
  Environments <- FieldEnvironments
  Files <- OneFile
INVARIANT
  EnvironmentOverridesFiles
CHECK_DEADLOCK FALSE
