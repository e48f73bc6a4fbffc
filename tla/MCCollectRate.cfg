CONSTANTS
  Setups <- MCRateSetups
  Tables <- MCRateTables
  Numbers <- MCNumbers
  Durations <- MCDurations
  Times <- MCTimes
  Now = 86400
  MaxChanges = 1
  MaxRefused = 1
SPECIFICATION Spec
INVARIANT
  RateIsShown
