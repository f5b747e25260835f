SPECIFICATION Spec
CONSTANTS
  Nil = Nil
  p1 = p1
  Paths = {p1}
  Contents = {1, 2}
  SizeOf <- SameSize
  TicksPerSecond = 1
  HoldingDays = 1
  MaxRels = 1
  MaxObjs = 3
  MaxClock = 3
  MaxDay = 2
  MaxFaults = 1
  MaxCloud = 0
  Allowed = {"delete", "restore", "purge", "dbloss"}
INVARIANT NoDuplicateUploads
PROPERTY LifecycleSpec
PROPERTY OnlyTrashedRowsAreDropped
