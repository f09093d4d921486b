SPECIFICATION TwoShellsSpec
CONSTANTS
  NoPid = NoPid
  NoIndicator = NoIndicator
  root = root
  s1 = s1
  s2 = s2
  c1 = c1
  i1 = i1
  i2 = i2
  d = d
  cpu0 = cpu0
  cpu1 = cpu1
  Data = {d}
  Root = root
  Pid = {root, s1, s2, c1}
  ShellPid = {s1, s2}
  Indicator = {i1, i2}
  MaxShells = 3
  MaxChildren = 2
  RingCapacity = 1
  Cpu = {cpu0, cpu1}
INVARIANT
  IndicatorOfItsShell
