SPECIFICATION Spec
CONSTANTS
  Accounts = {a1, a2}
  Flows = {f1, f2}
  MaxGrants = 3
  MaxFaults = 1
  MaxRestarts = 1
SYMMETRY Symmetry
CHECK_DEADLOCK FALSE
INVARIANT CredTypeOK
INVARIANT ListedHasToken
INVARIANT EngineKnowsClients
INVARIANT RotatedTokenIsKept
INVARIANT ClockNotAhead
INVARIANT FlagIsTrue
