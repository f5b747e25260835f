SPECIFICATION FairSpec
CONSTANTS
  Nil = Nil
  A = A
  B = B
  inner = inner
  other = other
  dir = dir
  sub = sub
  Files = {inner, other}
  Dirs = {dir, sub}
  Folders = {A, B}
  AtStart = {A}
  FolderOf <- FolderOfName
  DirOf <- DirOfName
  EventSlots = 1
  MaxEdits = 2
  MaxAsks = 1
  MaxFaults = 1
  Allowed = {"pause", "add", "remove", "locked"}
INVARIANT TriggersTypeOK
INVARIANT ChangeIsOnItsWay
PROPERTY ChangeIsSeen
