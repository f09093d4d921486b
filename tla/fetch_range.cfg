SPECIFICATION RangesSpec
CONSTANTS
  NoText = NoText
  AnyStatus = AnyStatus
  Session = {1, 2}
  Time = {1, 2, 3, 4}
  Status = {0, 1}
  MaxFinished = 3
INVARIANT FetchKeepsRange
