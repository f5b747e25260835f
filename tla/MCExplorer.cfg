SPECIFICATION Spec
CONSTANTS
  NumEntries = 4
  Parent <- Home
  Dirs = {1, 3}
  Sensitive = {2, 3, 4}
  Own <- OwnFiles
  MaxFiles = 1
  MaxFindings = 2
  MaxChanges = 4
  MaxBrowses = 2
INVARIANT ExplorerTypeOK
INVARIANT WarnedOfAll
PROPERTY AnswerIsRight
CHECK_DEADLOCK FALSE
