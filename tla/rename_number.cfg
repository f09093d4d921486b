SPECIFICATION AdminSpec
CONSTANTS
  NoText = NoText
  NoCli = NoCli
  NoSession = 0
  Cli = {p}
  Session = {1, 2}
  PlainName = {work}
  NewName = {work, 2}
  MaxCommands = 1
INVARIANT NumbersAreOwn
CHECK_DEADLOCK FALSE
