SPECIFICATION Spec
CONSTANTS
  Nil = Nil
  p1 = p1
  Paths = {p1}
  Contents = {1, 2}
  SizeOf <- SameSize
  TicksPerSecond = 1
  HoldingDays = 1
  MaxRels = 1
  MaxObjs = 1
  MaxClock = 1
  MaxDay = 0
  MaxFaults = 1
  MaxCloud = 0
  Allowed = {"scanskip"}
INVARIANT OnlyDeletionsAreQuarantined
