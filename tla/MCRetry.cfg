SPECIFICATION Spec
CONSTANTS
  Nil = Nil
  p1 = p1
  Paths = {p1}
  Contents = {1, 2}
  SizeOf <- SameSize
  TicksPerSecond = 1
  HoldingDays = 1
  MaxRels = 2
  MaxObjs = 3
  MaxClock = 3
  MaxDay = 0
  MaxFaults = 2
  MaxCloud = 1
  Allowed = {"crash", "apifail", "lostreply", "clouddelete", "cloudtamper", "delete"}
INVARIANT NoDuplicateUploads
INVARIANT NoneMeansMirrored
INVARIANT ChainIsDisjoint
