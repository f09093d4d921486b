SPECIFICATION FetchFairSpec
CONSTANTS
  Session = {1001, 1002}
  MaxWrites = 3
  MaxCommands = 1
INVARIANTS
  FetchTypeOK
  OneBufferAtATime
  PrintsWhatIsRecorded
  NestedInPlace
PROPERTIES
  FetchFailureExplained
  FetchEnds
CHECK_DEADLOCK FALSE
