SPECIFICATION NhiSpec
CONSTANTS
  NoPid = NoPid
  NoIndicator = NoIndicator
  NoText = NoText
  root = root
  s1 = s1
  s2 = s2
  c1 = c1
  c2 = c2
  i1 = i1
  i2 = i2
  Root = root
  Pid = {root, s1, c1}
  ShellPid = {s1}
  Indicator = {i1, i2}
  Data <- Texts
  MaxShells = 2
  MaxChildren = 3
  RingCapacity = 2
  MaxCommands = 2
  MaxRestarts = 1
CHECK_DEADLOCK FALSE
INVARIANT
  NhidSurvives
