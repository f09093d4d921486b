SPECIFICATION ToolSpec
CONSTANTS
  NoText = NoText
  NoCli = NoCli
  NoSession = 0
  p1 = p1
  p2 = p2
  work = work
  Cli = {p1, p2}
  Session = {1, 2}
  PlainName = {work}
  NewName = {work, 2}
  MaxCommands = 1
  AnyStatus = AnyStatus
  Time = {1, 2, 3, 4}
  Status = {0}
  MaxFinished = 3
SYMMETRY AdminSymmetry
INVARIANTS
  AdminTypeOK
  TablesAndMetaAgree
  RemovedStaysRemoved
  NamesDistinct
  FailureExplained
  RowsFollowCommands
  RemoveSelectsSlice
  FetchSelectsSlice
  FetchOffByOneAtMost
PROPERTY
  RemoveSkipsNone
CHECK_DEADLOCK FALSE
