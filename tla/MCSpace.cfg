SPECIFICATION FairSpec
CONSTANTS
  Nil = Nil
  NumAccounts = 3
  Limit <- Tens
  Percent = 20
  AtStart <- Crowded
  Files = {1, 2}
  Sizes = {1, 3}
  MaxEdits = 1
  MaxFaults = 1
  MaxLooks = 1
  Allowed = {"growth", "coldgrowth", "ui", "purge", "uploadfail", "quotafail", "provisionfail"}
INVARIANT SpaceTypeOK
INVARIANT EstimateCovers
PROPERTY ReserveIsKept
PROPERTY PassesEnd
