SPECIFICATION Spec
CONSTANTS
  Nil = Nil
  p1 = p1
  Paths = {p1}
  Contents = {1, 2}
  SizeOf <- SameSize
  TicksPerSecond = 1
  HoldingDays = 0
  MaxRels = 2
  MaxObjs = 2
  MaxClock = 2
  MaxDay = 0
  MaxFaults = 1
  MaxCloud = 1
  Allowed = {"delete", "restore", "purge", "crash", "dbloss", "apifail", "lostreply", "defer", "scanskip", "clouddelete", "cloudtamper", "cloudstray", "racyedit", "restoreinsweep"}
INVARIANT TypeOK
INVARIANT RowsOwnTheirObjects
INVARIANT TankRowsPointIntoTank
INVARIANT IInv
