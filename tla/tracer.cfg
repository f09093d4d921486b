SPECIFICATION Spec
CONSTANTS
  NoPid = NoPid
  NoIndicator = NoIndicator
  root = root
  s1 = s1
  s2 = s2
  c1 = c1
  c2 = c2
  i1 = i1
  i2 = i2
  d = d
  Data = {d}
  Root = root
  Pid = {root, s1, s2, c1}
  ShellPid = {s1, s2}
  Indicator = {i1, i2}
  MaxShells = 3
  MaxChildren = 3
  RingCapacity = 1
SYMMETRY Symmetry
INVARIANTS
  TypeOK
  ChildrenWellFormed
  NoForeignEvent
  RegistrationNeverClobbers
  ClosedSessionsAreOver
