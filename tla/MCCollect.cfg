CONSTANTS
  Setups <- MCSetups
  Tables <- MCTables
  Numbers <- MCNumbers
  Durations <- MCDurations
  Times <- MCTimes
  Now = 86400
  MaxChanges = 1
  MaxRefused = 1
SPECIFICATION Spec
INVARIANTS
  SeriesUnique
  CountsAreWhole
  ReadingsAreReal
  RowsReachTheAnswer
