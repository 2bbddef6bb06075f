SPECIFICATION FairSpec
CONSTANTS
  PipeSize = 2
  MaxToken = 3
  MaxLogs = 2
  MaxBytes = 6
  MaxSteps = 2
INVARIANTS
  ScreenFaithful
  FailureShowsItsEnd
PROPERTIES
  CommandReturns
CHECK_DEADLOCK FALSE
