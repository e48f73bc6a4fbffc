SPECIFICATION Spec
CONSTANTS
  Names <- MCNames
  Upper <- MCUpper
  MainFiles <- MCMainFiles
  SystemFiles <- MCSystemFiles
  MainTemplate <- MCMainTemplate
  SystemTemplate <- MCSystemTemplate
  Environments <- MCEnvironments
  Flags = {0, 3}
  MaxEdits = 1
CHECK_DEADLOCK FALSE
INVARIANTS
  EntriesResolve
  SystemResolves
  LabelsReachTheRouter
