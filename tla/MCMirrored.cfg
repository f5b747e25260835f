SPECIFICATION FairSpec
CONSTANTS
  Nil = Nil
  p1 = p1
  Paths = {p1}
  Contents = {1, 2}
  SizeOf <- SameSize
  TicksPerSecond = 1
  HoldingDays = 1
  MaxRels = 1
  MaxObjs = 4
  MaxClock = 3
  MaxDay = 1
  MaxFaults = 1
  MaxCloud = 1
  Allowed = {"delete", "crash", "apifail", "lostreply", "clouddelete", "restore"}
PROPERTY EventuallyMirrored
 
PROPERTY EventuallyQuarantined
