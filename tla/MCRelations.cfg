\* One root added twice, both times to a container of one name.
CONSTANTS
    Nil = Nil
    TicksPerSecond = 1
    TrashFolderName = tank
    Roots = {r}
    Names = {n1}
    Paths = {a, b}
    DirOf <- OneDir
    Contents = {1, 2}
    Files <- OneFile
    MaxRequests = 2
    MaxEdits = 1
    MaxEvents = 2
SPECIFICATION FairSpec
INVARIANT RelTypeOK
INVARIANT NoOrphanRows
INVARIANT OneObjectPerPath
INVARIANT RowsPointHome
PROPERTY MirrorsAreApart
PROPERTY EveryRelationMirrors
