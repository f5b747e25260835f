------------------------- MODULE MirrorSync_proofs -------------------------
(***************************************************************************)
(* Proof that IInv is an invariant of MirrorSync, one lemma per action, and *)
(* with it TypeOK, RowsOwnTheirObjects and TankRowsPointIntoTank.          *)
(***************************************************************************)
EXTENDS MirrorSync, TLAPS

(***************************************************************************)
(* Lemmas about the operators of Drive and Store.                          *)
(***************************************************************************)

\* Create fills one slot and leaves the other objects alone.
LEMMA CreateLemma ==
    ASSUME NEW os \in [ObjIds -> Object], NEW id \in ObjIds, NEW r \in Nat,
           NEW p \in Paths, NEW c \in Contents
    PROVE  /\ Create(os, id, r, p, c) \in [ObjIds -> Object]
           /\ \A o \in ObjIds : o # id => Create(os, id, r, p, c)[o] = os[o]
           /\ Create(os, id, r, p, c)[id] = [rel |-> r, path |-> p, content |-> c,
                                             where |-> "live", since |-> 0]
BY DEF Create, Object, Places

\* Update changes nothing but the content.
LEMMA UpdateLemma ==
    ASSUME NEW os \in [ObjIds -> Object], NEW id \in ObjIds, NEW c \in Contents
    PROVE  /\ Update(os, id, c) \in [ObjIds -> Object]
           /\ \A o \in ObjIds : /\ Update(os, id, c)[o].where = os[o].where
                                /\ Update(os, id, c)[o].rel = os[o].rel
                                /\ Update(os, id, c)[o].path = os[o].path
                                /\ Update(os, id, c)[o].content \in {os[o].content, c}
BY DEF Update, Object

\* A move into the tank keeps relation, path and content.
LEMMA MoveToTankLemma ==
    ASSUME NEW os \in [ObjIds -> Object], NEW id \in ObjIds, NEW d \in Nat
    PROVE  /\ MoveToTank(os, id, d) \in [ObjIds -> Object]
           /\ MoveToTank(os, id, d)[id].where = "tank"
           /\ \A o \in ObjIds : /\ o # id => MoveToTank(os, id, d)[o] = os[o]
                                /\ MoveToTank(os, id, d)[o].rel = os[o].rel
                                /\ MoveToTank(os, id, d)[o].path = os[o].path
                                /\ MoveToTank(os, id, d)[o].content = os[o].content
BY DEF MoveToTank, Object, Places

\* So does the move back into the container.
LEMMA MoveToContainerLemma ==
    ASSUME NEW os \in [ObjIds -> Object], NEW id \in ObjIds
    PROVE  /\ MoveToContainer(os, id) \in [ObjIds -> Object]
           /\ MoveToContainer(os, id)[id].where = "live"
           /\ \A o \in ObjIds : /\ o # id => MoveToContainer(os, id)[o] = os[o]
                                /\ MoveToContainer(os, id)[o].rel = os[o].rel
                                /\ MoveToContainer(os, id)[o].path = os[o].path
                                /\ MoveToContainer(os, id)[o].content = os[o].content
BY DEF MoveToContainer, Object, Places

\* Deleting for good only ends an object that still exists.
LEMMA PermanentDeleteLemma ==
    ASSUME NEW os \in [ObjIds -> Object], NEW id \in ObjIds,
           NEW by \in {"removed", "reaped", "purged"}
    PROVE  /\ PermanentDelete(os, id, by) \in [ObjIds -> Object]
           /\ \A o \in ObjIds :
                /\ PermanentDelete(os, id, by)[o].where = os[o].where
                   \/ (os[o].where \in {"live", "tank"} /\ PermanentDelete(os, id, by)[o].where = by)
                /\ PermanentDelete(os, id, by)[o].rel = os[o].rel
                /\ PermanentDelete(os, id, by)[o].path = os[o].path
                /\ PermanentDelete(os, id, by)[o].content = os[o].content
BY DEF PermanentDelete, Exists, Object, Places

\* MarkTrashed touches one row and not the object it names.
LEMMA MarkTrashedLemma ==
    ASSUME NEW rs0 \in [Keys -> Row \cup {Nil}], NEW k \in Keys, NEW d \in Nat
    PROVE  /\ MarkTrashed(rs0, k, d) \in [Keys -> Row \cup {Nil}]
           /\ \A j \in Keys : j # k => MarkTrashed(rs0, k, d)[j] = rs0[j]
           /\ rs0[k] = Nil => MarkTrashed(rs0, k, d)[k] = Nil
           /\ rs0[k] # Nil => MarkTrashed(rs0, k, d)[k].remoteID = rs0[k].remoteID
BY DEF MarkTrashed, Row, Statuses

(***************************************************************************)
(* Frames: a part of the invariant survives a step that leaves alone the   *)
(* variables it speaks of.                                                 *)
(***************************************************************************)

\* The types of variables a step does not touch.
LEMMA TypeFrame ==
    /\ DiskType /\ UNCHANGED diskVars => DiskType'
    /\ DriveType /\ UNCHANGED driveVars => DriveType'
    /\ StoreType /\ UNCHANGED storeVars => StoreType'
    /\ PassType /\ UNCHANGED <<mu, passVars>> => PassType'
    /\ PoolType /\ UNCHANGED poolVars => PoolType'
    /\ ReapType /\ UNCHANGED reapVars => ReapType'
    /\ RestoreType /\ UNCHANGED rs => RestoreType'
    /\ EnvType /\ UNCHANGED envVars => EnvType'
BY DEF DiskType, DriveType, StoreType, PassType, PoolType, ReapType, RestoreType, EnvType,
       diskVars, driveVars, storeVars, passVars, poolVars, reapVars, envVars

\* The relations between variables a step does not touch.
LEMMA InvFrame ==
    /\ MutexInv /\ UNCHANGED <<mu, pc, task, rs>> => MutexInv'
    /\ ObjectsInv /\ UNCHANGED <<objs, made, listed>> => ObjectsInv'
    /\ TaskObjectsInv /\ UNCHANGED <<task, objs>> => TaskObjectsInv'
    /\ TaskReadyInv /\ UNCHANGED task => TaskReadyInv'
    /\ TaskTrashInv /\ UNCHANGED <<task, objs, rows>> => TaskTrashInv'
    /\ RestoreInv /\ UNCHANGED <<rs, objs, rows>> => RestoreInv'
    /\ RowsOwnTheirObjects /\ UNCHANGED <<objs, rows>> => RowsOwnTheirObjects'
    /\ TankRowsPointIntoTank /\ UNCHANGED <<objs, rows>> => TankRowsPointIntoTank'
BY DEF MutexInv, ObjectsInv, TaskObjectsInv, TaskReadyInv, TaskTrashInv, RestoreInv,
       RowsOwnTheirObjects, TankRowsPointIntoTank, IsObjectOf, NoTasks

\* A used object stays used and keeps its relation and path.
Persists ==
    \A o \in ObjIds : objs[o].where # "none"
        => objs'[o].where # "none" /\ objs'[o].rel = objs[o].rel /\ objs'[o].path = objs[o].path

\* Nothing used comes back into the mirror.
StaysOut ==
    \A o \in ObjIds : objs[o].where \notin {"none", "live"} => objs'[o].where # "live"

\* What a Drive call that touches objects in place has to show.
LEMMA InPlace ==
    ASSUME DriveType, ObjectsInv, UNCHANGED <<made, listed>>, objs' \in [ObjIds -> Object],
           \A o \in ObjIds : /\ objs'[o].rel = objs[o].rel
                             /\ objs'[o].path = objs[o].path
                             /\ objs'[o].where = "none" <=> objs[o].where = "none"
                             /\ objs[o].where # "none" => objs'[o].content \in Contents
    PROVE  DriveType' /\ Persists /\ ObjectsInv'
BY DEF DriveType, ObjectsInv, Persists

\* Files.Update: an object gets new content where it is.
LEMMA ContentUpdated ==
    ASSUME DriveType, ObjectsInv, NEW o \in ObjIds, NEW c \in Contents, Exists(objs[o]),
           objs' = Update(objs, o, c), UNCHANGED <<made, listed>>
    PROVE  DriveType' /\ Persists /\ StaysOut /\ ObjectsInv'
<1>1. objs \in [ObjIds -> Object]
  BY DEF DriveType
<1>2. /\ objs' \in [ObjIds -> Object]
      /\ \A a \in ObjIds : /\ objs'[a].where = objs[a].where
                           /\ objs'[a].rel = objs[a].rel
                           /\ objs'[a].path = objs[a].path
                           /\ objs'[a].content \in {objs[a].content, c}
  BY <1>1, UpdateLemma
<1>3. \A a \in ObjIds : objs[a].where # "none" => objs[a].content \in Contents
  BY DEF ObjectsInv
<1>4. StaysOut
  BY <1>2 DEF StaysOut
<1> QED BY <1>2, <1>3, <1>4, InPlace

\* MoveToFolder into the tank: an object leaves the mirror.
LEMMA Tanked ==
    ASSUME DriveType, ObjectsInv, NEW o \in ObjIds, NEW d \in Nat, Exists(objs[o]),
           objs' = MoveToTank(objs, o, d), UNCHANGED <<made, listed>>
    PROVE  DriveType' /\ Persists /\ StaysOut /\ ObjectsInv' /\ objs'[o].where = "tank"
<1>1. objs \in [ObjIds -> Object]
  BY DEF DriveType
<1>2. /\ objs' \in [ObjIds -> Object] /\ objs'[o].where = "tank"
      /\ \A a \in ObjIds : /\ a # o => objs'[a] = objs[a]
                           /\ objs'[a].rel = objs[a].rel
                           /\ objs'[a].path = objs[a].path
                           /\ objs'[a].content = objs[a].content
  BY <1>1, MoveToTankLemma
<1>3. \A a \in ObjIds : objs[a].where # "none" => objs[a].content \in Contents
  BY DEF ObjectsInv
<1>4. StaysOut
  BY <1>2 DEF StaysOut
<1>5. objs[o].where # "none"
  BY DEF Exists
<1> QED BY <1>2, <1>3, <1>4, <1>5, InPlace

\* MoveToFolder out of the tank: only this object comes back.
LEMMA MovedBack ==
    ASSUME DriveType, ObjectsInv, NEW o \in ObjIds, Exists(objs[o]),
           objs' = MoveToContainer(objs, o), UNCHANGED <<made, listed>>
    PROVE  DriveType' /\ Persists /\ ObjectsInv' /\ \A a \in ObjIds : a # o => objs'[a] = objs[a]
<1>1. objs \in [ObjIds -> Object]
  BY DEF DriveType
<1>2. /\ objs' \in [ObjIds -> Object] /\ objs'[o].where = "live"
      /\ \A a \in ObjIds : /\ a # o => objs'[a] = objs[a]
                           /\ objs'[a].rel = objs[a].rel
                           /\ objs'[a].path = objs[a].path
                           /\ objs'[a].content = objs[a].content
  BY <1>1, MoveToContainerLemma
<1>3. \A a \in ObjIds : objs[a].where # "none" => objs[a].content \in Contents
  BY DEF ObjectsInv
<1>4. objs[o].where # "none"
  BY DEF Exists
<1> QED BY <1>2, <1>3, <1>4, InPlace

\* Files.Delete: nothing comes back into the mirror.
LEMMA Deleted ==
    ASSUME DriveType, ObjectsInv, NEW o \in ObjIds, NEW by \in {"removed", "reaped", "purged"},
           objs' = PermanentDelete(objs, o, by), UNCHANGED <<made, listed>>
    PROVE  DriveType' /\ Persists /\ StaysOut /\ ObjectsInv'
<1>1. objs \in [ObjIds -> Object]
  BY DEF DriveType
<1>2. /\ objs' \in [ObjIds -> Object]
      /\ \A a \in ObjIds :
            /\ objs'[a].where = objs[a].where
               \/ (objs[a].where \in {"live", "tank"} /\ objs'[a].where = by)
            /\ objs'[a].rel = objs[a].rel
            /\ objs'[a].path = objs[a].path
            /\ objs'[a].content = objs[a].content
  BY <1>1, PermanentDeleteLemma
<1>3. \A a \in ObjIds : objs[a].where # "none" => objs[a].content \in Contents
  BY DEF ObjectsInv
<1>4. StaysOut
  BY <1>2 DEF StaysOut
<1> QED BY <1>2, <1>3, <1>4, InPlace

\* Files.Create: the next object id appears at the path.
LEMMA NewObject ==
    ASSUME DriveType, ObjectsInv, NEW r \in Nat, NEW p \in Paths, NEW c \in Contents,
           made < MaxObjs, made' = made + 1, objs' = Create(objs, made + 1, r, p, c),
           UNCHANGED listed
    PROVE  /\ DriveType' /\ Persists /\ StaysOut /\ ObjectsInv'
           /\ objs'[made + 1].rel = r /\ objs'[made + 1].path = p
           /\ objs'[made + 1].where # "none"
<1>1. objs \in [ObjIds -> Object] /\ made \in Nat /\ MaxObjs \in Nat /\ made + 1 \in ObjIds
  BY BoundsAssumption DEF DriveType, ObjIds
<1>2. /\ objs' \in [ObjIds -> Object]
      /\ \A a \in ObjIds : a # made + 1 => objs'[a] = objs[a]
      /\ objs'[made + 1] = [rel |-> r, path |-> p, content |-> c, where |-> "live", since |-> 0]
  BY <1>1, CreateLemma
<1>3. objs[made + 1].where = "none"
  BY <1>1 DEF ObjectsInv
<1>4. DriveType'
  BY <1>1, <1>2 DEF DriveType
<1>5. Persists /\ StaysOut
  BY <1>2, <1>3 DEF Persists, StaysOut
<1>6. ObjectsInv'
  BY <1>1, <1>2, <1>3 DEF ObjectsInv, ObjIds
<1> QED BY <1>2, <1>4, <1>5, <1>6

\* What refers to objects still does while objects persist.
LEMMA PersistsFrame ==
    ASSUME TypeOK, Persists
    PROVE  /\ TaskObjectsInv /\ UNCHANGED task => TaskObjectsInv'
           /\ RowsOwnTheirObjects /\ UNCHANGED rows => RowsOwnTheirObjects'
           /\ RestoreInv /\ UNCHANGED <<rs, rows>> => RestoreInv'
<1> USE DEF Persists, IsObjectOf
<1>1. TaskObjectsInv /\ UNCHANGED task => TaskObjectsInv'
  BY DEF TypeOK, PoolType, Task, TaskObjectsInv
<1>2. RowsOwnTheirObjects /\ UNCHANGED rows => RowsOwnTheirObjects'
  BY DEF TypeOK, StoreType, Row, RowsOwnTheirObjects
<1>3. RestoreInv /\ UNCHANGED <<rs, rows>> => RestoreInv'
  BY DEF TypeOK, RestoreType, Restoring, RestoreInv
<1> QED BY <1>1, <1>2, <1>3

\* Rows of objects outside the mirror stay so while nothing comes back.
LEMMA StaysOutFrame ==
    ASSUME TypeOK, RowsOwnTheirObjects, StaysOut
    PROVE  /\ TaskTrashInv /\ UNCHANGED <<task, rows>> => TaskTrashInv'
           /\ TankRowsPointIntoTank /\ UNCHANGED rows => TankRowsPointIntoTank'
<1>1. TankRowsPointIntoTank /\ UNCHANGED rows => TankRowsPointIntoTank'
  BY DEF StaysOut, TypeOK, StoreType, Row, RowsOwnTheirObjects, TankRowsPointIntoTank, IsTrashed
<1>2. TaskTrashInv /\ UNCHANGED <<task, rows>> => TaskTrashInv'
  BY DEF StaysOut, TypeOK, StoreType, PoolType, Row, Task, RowsOwnTheirObjects, TaskTrashInv, Keys
<1> QED BY <1>1, <1>2

\* Writing one row that names an object of its own.
LEMMA RowWritten ==
    ASSUME RowsOwnTheirObjects, UNCHANGED objs, NEW k \in Keys,
           IsObjectOf(rows'[k].remoteID, k[1], k[2]),
           \A j \in Keys : j # k => rows'[j] = rows[j]
    PROVE  RowsOwnTheirObjects'
<1> SUFFICES ASSUME NEW j \in Keys, rows'[j] # Nil
             PROVE  IsObjectOf(rows[j].remoteID, j[1], j[2])'
  BY DEF RowsOwnTheirObjects, IsObjectOf
<1>1. CASE j = k
  BY <1>1 DEF IsObjectOf
<1>2. CASE j # k
  BY <1>2 DEF RowsOwnTheirObjects, IsObjectOf
<1> QED BY <1>1, <1>2
-----------------------------------------------------------------------------

(* The reconciliation pass without its tasks.                              *)

\* The scan keeps the invariant: it only fills the pass's snapshot of the tree.
LEMMA BeginPassInv == ASSUME IInv, BeginPass PROVE IInv'
<1>1. PassType'
  BY SizeAssumption, BoundsAssumption
  DEF IInv, TypeOK, BeginPass, PassType, DiskType, scanLocal, Stat, LocalState, LocalFile,
      poolVars
<1>2. EnvType'
  BY DEF IInv, TypeOK, BeginPass, EnvType
<1>3. MutexInv'
  BY DEF IInv, BeginPass, MutexInv, poolVars
<1> QED
  BY <1>1, <1>2, <1>3, TypeFrame, InvFrame
  DEF IInv, TypeOK, BeginPass, passVars, snapVars, poolVars, reapVars, diskVars, driveVars,
      storeVars, envVars

\* Listing a container records objects that exist, with their content.
LEMMA ListRemoteInv == ASSUME IInv, ListRemote PROVE IInv'
<1>1. PassType'
  BY DEF IInv, TypeOK, ListRemote, PassType, DriveType, Object, ListFolderRecursive
<1>2. ObjectsInv'
  BY DEF IInv, TypeOK, ListRemote, ObjectsInv, DriveType, ListFolderRecursive, driveVars
<1>3. MutexInv'
  BY DEF IInv, ListRemote, MutexInv, poolVars
<1> QED
  BY <1>1, <1>2, <1>3, TypeFrame, InvFrame
  DEF IInv, TypeOK, ListRemote, passVars, snapVars, poolVars, reapVars, diskVars, driveVars,
      storeVars, envVars

\* Loading the base copies rows into the pass's snapshot.
LEMMA LoadBaseInv == ASSUME IInv, LoadBase PROVE IInv'
<1>1. base' \in [Keys -> Row \cup {Nil}]
  BY DEF IInv, TypeOK, LoadBase, PassType, StoreType
<1>2. at' \in 0..MaxRels /\ pc' \in {"list", "build"} /\ unbuilt' \subseteq Paths
  BY BoundsAssumption DEF IInv, TypeOK, LoadBase, PassType, StoreType, Rels
<1>3. PassType'
  BY <1>1, <1>2 DEF IInv, TypeOK, LoadBase, PassType
<1>4. MutexInv'
  BY DEF IInv, LoadBase, MutexInv, poolVars
<1> QED
  BY <1>1, <1>2, <1>3, <1>4, TypeFrame, InvFrame
  DEF IInv, TypeOK, LoadBase, passVars, snapVars, poolVars, reapVars, diskVars, driveVars,
      storeVars, envVars

\* A failed listing or query ends the pass before it has any task.
LEMMA AbortPassInv == ASSUME IInv, AbortPass PROVE IInv'
<1>1. PassType'
  BY BoundsAssumption
  DEF IInv, TypeOK, AbortPass, ReturnFromPass, PassType, NoScan, NoListing, NoRows
<1>2. EnvType'
  BY DEF IInv, TypeOK, AbortPass, ReturnFromPass, EnvType
<1>3. ObjectsInv'
  BY DEF IInv, AbortPass, ReturnFromPass, ObjectsInv, NoListing, driveVars
<1>4. MutexInv'
  BY DEF IInv, AbortPass, ReturnFromPass, MutexInv, poolVars
<1> QED
  BY <1>1, <1>2, <1>3, <1>4, TypeFrame, InvFrame
  DEF IInv, TypeOK, AbortPass, ReturnFromPass, passVars, snapVars, poolVars, reapVars, diskVars,
      driveVars, storeVars, envVars

\* The pass ends when its pool is empty.
LEMMA EndPassInv == ASSUME IInv, EndPass PROVE IInv'
<1>1. PassType'
  BY BoundsAssumption DEF IInv, TypeOK, EndPass, ReturnFromPass, PassType, NoScan, NoListing, NoRows
<1>2. ObjectsInv'
  BY DEF IInv, EndPass, ReturnFromPass, ObjectsInv, NoListing, driveVars
<1>3. MutexInv'
  BY DEF IInv, EndPass, ReturnFromPass, MutexInv, poolVars
<1> QED
  BY <1>1, <1>2, <1>3, TypeFrame, InvFrame
  DEF IInv, TypeOK, EndPass, ReturnFromPass, passVars, snapVars, poolVars, reapVars, diskVars,
      driveVars, storeVars, envVars

\* Starting the pool drops the snapshots and keeps the tasks.
LEMMA StartExecInv == ASSUME IInv, StartExec PROVE IInv'
<1>1. PassType'
  BY BoundsAssumption DEF IInv, TypeOK, StartExec, PassType, NoScan, NoListing, NoRows
<1>2. ObjectsInv'
  BY DEF IInv, StartExec, ObjectsInv, NoListing, driveVars
<1>3. MutexInv'
  BY DEF IInv, StartExec, MutexInv, poolVars
<1> QED
  BY <1>1, <1>2, <1>3, TypeFrame, InvFrame
  DEF IInv, TypeOK, StartExec, passVars, snapVars, poolVars, reapVars, diskVars, driveVars,
      storeVars, envVars

\* A task that fails by itself leaves nothing but its absence.
LEMMA TaskErrorInv == ASSUME IInv, NEW p \in Paths, TaskError(p) PROVE IInv'
<1>1. PoolType'
  BY DEF IInv, TypeOK, TaskError, Executing, Done, PoolType
<1>2. MutexInv'
  BY DEF IInv, TypeOK, PoolType, TaskError, Executing, Done, MutexInv, NoTasks, passVars
<1>3. TaskObjectsInv'
  BY DEF IInv, TypeOK, PoolType, TaskError, Executing, Done, TaskObjectsInv, IsObjectOf, driveVars
<1>4. TaskReadyInv'
  BY DEF IInv, TypeOK, PoolType, TaskError, Executing, Done, TaskReadyInv
<1>5. TaskTrashInv'
  BY DEF IInv, TypeOK, PoolType, TaskError, Executing, Done, TaskTrashInv, driveVars
<1> QED
  BY <1>1, <1>2, <1>3, <1>4, <1>5, TypeFrame, InvFrame
  DEF IInv, TypeOK, TaskError, Executing, passVars, snapVars, poolVars, reapVars, diskVars,
      driveVars, storeVars, envVars

\* So does a task whose call fails.
LEMMA TaskFailInv == ASSUME IInv, NEW p \in Paths, TaskFail(p) PROVE IInv'
<1>1. PoolType'
  BY DEF IInv, TypeOK, TaskFail, Executing, Done, PoolType
<1>2. MutexInv'
  BY DEF IInv, TypeOK, PoolType, TaskFail, Executing, Done, MutexInv, NoTasks, passVars
<1>3. TaskObjectsInv'
  BY DEF IInv, TypeOK, PoolType, TaskFail, Executing, Done, TaskObjectsInv, IsObjectOf, driveVars
<1>4. TaskReadyInv'
  BY DEF IInv, TypeOK, PoolType, TaskFail, Executing, Done, TaskReadyInv
<1>5. TaskTrashInv'
  BY DEF IInv, TypeOK, PoolType, TaskFail, Executing, Done, TaskTrashInv, driveVars
<1>6. EnvType'
  BY DEF IInv, TypeOK, TaskFail, EnvType
<1> QED
  BY <1>1, <1>2, <1>3, <1>4, <1>5, <1>6, TypeFrame, InvFrame
  DEF IInv, TypeOK, TaskFail, Executing, passVars, snapVars, poolVars, reapVars, diskVars,
      driveVars, storeVars, envVars

\* The second half of trash marks a row whose object has left the mirror.
LEMMA TrashMarkInv == ASSUME IInv, NEW p \in Paths, TrashMark(p) PROVE IInv'
<1>1. <<task[p].rel, p>> \in Keys /\ now \in Nat
  BY DEF IInv, TypeOK, PoolType, Task, TrashMark, Executing, EnvType, Keys
<1>2. StoreType'
  BY <1>1, MarkTrashedLemma DEF IInv, TypeOK, StoreType, TrashMark, Executing, FileID
<1>3. \A k \in Keys : k # <<task[p].rel, p>> => rows'[k] = rows[k]
  BY <1>1, MarkTrashedLemma DEF IInv, TypeOK, StoreType, TrashMark, FileID
<1>4. rows'[<<task[p].rel, p>>] # Nil => /\ rows[<<task[p].rel, p>>] # Nil
           /\ rows'[<<task[p].rel, p>>].remoteID = rows[<<task[p].rel, p>>].remoteID
  BY <1>1, MarkTrashedLemma DEF IInv, TypeOK, StoreType, TrashMark, FileID
<1>5. rows[<<task[p].rel, p>>] # Nil => objs[rows[<<task[p].rel, p>>].remoteID].where # "live"
  BY DEF IInv, TrashMark, Executing, TaskTrashInv
<1>6. PoolType'
  BY DEF IInv, TypeOK, TrashMark, Executing, Done, PoolType
<1>7. MutexInv'
  BY DEF IInv, TypeOK, PoolType, TrashMark, Executing, Done, MutexInv, NoTasks, passVars
<1>8. TaskObjectsInv'
  BY DEF IInv, TypeOK, PoolType, TrashMark, Executing, Done, TaskObjectsInv, IsObjectOf, driveVars
<1>9. TaskReadyInv'
  BY DEF IInv, TypeOK, PoolType, TrashMark, Executing, Done, TaskReadyInv
<1>10. RowsOwnTheirObjects'
  BY <1>1, <1>3, <1>4, RowWritten DEF IInv, TrashMark, RowsOwnTheirObjects, IsObjectOf, driveVars
<1>11. TankRowsPointIntoTank'
  BY <1>1, <1>3, <1>4, <1>5 DEF IInv, TrashMark, TankRowsPointIntoTank, IsTrashed, driveVars
<1>12. TaskTrashInv'
  BY <1>1, <1>3
  DEF IInv, TypeOK, PoolType, Task, TrashMark, Executing, Done, TaskTrashInv, driveVars, Keys
<1>13. RestoreInv'
  BY DEF IInv, TrashMark, Executing, MutexInv, RestoreInv, PassType
<1> QED
  BY <1>1, <1>2, <1>3, <1>4, <1>5, <1>6, <1>7, <1>8, <1>9, <1>10, <1>11, <1>12, <1>13,
     TypeFrame, InvFrame
  DEF IInv, TypeOK, TrashMark, Executing, passVars, snapVars, poolVars, reapVars, diskVars,
      driveVars, storeVars, envVars

\* A task that writes its row and is done: UploadRecord and Adopt.
LEMMA RowRecorded ==
    ASSUME IInv, NEW p \in Paths, NEW status \in {"SYNCED", "CONFLICT"},
           pc = "exec", task[p] # Nil,
           task[p].act = "ADOPT" \/ (task[p].act \in Uploads /\ task[p].phase = "sent"),
           rows' = UpsertFile(rows, FileID(task[p].rel, p), Recorded(p, status)),
           task' = [task EXCEPT ![p] = Nil],
           UNCHANGED <<local, objs, made, nrel, mu, pc, at, scan, listed, base, unbuilt,
                       dupes, todo, cur, rs, clock, now, faults, cloud>>
    PROVE  IInv'
<1> DEFINE id == <<task[p].rel, p>>
<1>1. /\ task[p] \in Task /\ task[p].remote \in ObjIds /\ task[p].md5 \in Contents
      /\ id \in Keys
  BY DEF IInv, TypeOK, PoolType, Task, TaskReadyInv, Keys
<1>2. StatNow(p).mtime \in Nat /\ StatNow(p).size \in Nat
  BY SizeAssumption DEF IInv, TypeOK, DiskType, LocalFile, StatNow, Stat
<1>3. Recorded(p, status) \in Row
  BY <1>1, <1>2 DEF Recorded, Row, Statuses
<1>4. /\ rows' \in [Keys -> Row \cup {Nil}] /\ rows'[id] = Recorded(p, status)
      /\ \A k \in Keys : k # id => rows'[k] = rows[k]
  BY <1>1, <1>3 DEF IInv, TypeOK, StoreType, UpsertFile, FileID
<1>5. TypeOK'
  <2>1. StoreType' /\ PoolType'
    BY <1>4 DEF IInv, TypeOK, StoreType, PoolType
  <2> QED
    BY <2>1, TypeFrame DEF IInv, TypeOK, passVars, reapVars, diskVars, driveVars, envVars
<1>6. task'[p] = Nil /\ \A q \in Paths : q # p => task'[q] = task[q]
  BY DEF IInv, TypeOK, PoolType
<1>7. MutexInv' /\ TaskObjectsInv' /\ TaskReadyInv'
  BY <1>6 DEF IInv, MutexInv, TaskObjectsInv, TaskReadyInv, IsObjectOf
<1>8. IsObjectOf(task[p].remote, task[p].rel, p)
  BY <1>1, NilAssumption DEF IInv, TaskReadyInv, TaskObjectsInv
<1>9. RowsOwnTheirObjects'
  <2>1. rows'[id].remoteID = task[p].remote
    BY <1>4 DEF Recorded
  <2>2. IsObjectOf(rows'[id].remoteID, id[1], id[2])
    BY <1>8, <2>1
  <2> QED
    BY <1>1, <1>4, <2>2, RowWritten DEF IInv
<1>10. TankRowsPointIntoTank'
  BY <1>4 DEF IInv, TankRowsPointIntoTank, IsTrashed, Recorded
<1>11. TaskTrashInv'
  BY <1>1, <1>4, <1>6 DEF IInv, TypeOK, PoolType, Task, TaskTrashInv, Keys
<1>12. ObjectsInv' /\ RestoreInv'
  BY InvFrame DEF IInv, MutexInv, RestoreInv
<1> QED
  BY <1>5, <1>7, <1>9, <1>10, <1>11, <1>12 DEF IInv

\* The row written after an upload names the object uploaded to.
LEMMA UploadRecordInv == ASSUME IInv, NEW p \in Paths, UploadRecord(p) PROVE IInv'
<1> DEFINE status == IF task[p].act = "CONFLICT" THEN "CONFLICT" ELSE "SYNCED"
<1>1. status \in {"SYNCED", "CONFLICT"}
  OBVIOUS
<1>2. rows' = UpsertFile(rows, FileID(task[p].rel, p), Recorded(p, status))
  BY DEF UploadRecord
<1> QED
  BY <1>1, <1>2, RowRecorded
  DEF UploadRecord, Executing, Done, Uploads, passVars, reapVars, diskVars, driveVars, envVars

\* The row written by an adoption names the adopted object.
LEMMA AdoptInv == ASSUME IInv, NEW p \in Paths, Adopt(p) PROVE IInv'
BY RowRecorded DEF Adopt, Executing, Done, passVars, reapVars, diskVars, driveVars, envVars

\* A sweep takes its list of objects from rows.
LEMMA SweepStartInv == ASSUME IInv, SweepStart PROVE IInv'
<1>1. ReapType'
  BY
  DEF IInv, TypeOK, SweepStart, ReapType, StoreType, Row, Entries, TrashedBefore, ListTrashed,
      IsTrashed, Reapers
<1> QED
  BY <1>1, TypeFrame, InvFrame
  DEF IInv, TypeOK, SweepStart, passVars, snapVars, poolVars, reapVars, diskVars, driveVars,
      storeVars, envVars

\* So does a purge, which also takes syncMu.
LEMMA PurgeStartInv == ASSUME IInv, PurgeStart PROVE IInv'
<1>1. ReapType'
  BY
  DEF IInv, TypeOK, PurgeStart, ReapType, StoreType, Row, Entries, TrashedBefore, ListTrashed,
      IsTrashed, Reapers
<1>2. PassType'
  BY DEF IInv, TypeOK, PurgeStart, PassType, passVars
<1>3. MutexInv'
  BY DEF IInv, PurgeStart, MutexInv, passVars, poolVars
<1> QED
  BY <1>1, <1>2, <1>3, TypeFrame, InvFrame
  DEF IInv, TypeOK, PurgeStart, passVars, snapVars, poolVars, reapVars, diskVars, driveVars,
      storeVars, envVars

\* Skipping an entry shortens the list.
LEMMA ReapFailInv == ASSUME IInv, NEW w \in Reapers, ReapFail(w) PROVE IInv'
<1>1. ReapType'
  BY DEF IInv, TypeOK, ReapFail, ReapType
<1>2. EnvType'
  BY DEF IInv, TypeOK, ReapFail, EnvType
<1> QED
  BY <1>1, <1>2, TypeFrame, InvFrame
  DEF IInv, TypeOK, ReapFail, passVars, snapVars, poolVars, reapVars, diskVars, driveVars,
      storeVars, envVars

\* Deleting a row takes nothing from the rows that remain.
LEMMA DropRowInv == ASSUME IInv, NEW w \in Reapers, DropRow(w) PROVE IInv'
<1>1. ReapType'
  BY DEF IInv, TypeOK, DropRow, ReapType
<1>2. cur[w] \in Keys
  BY DEF IInv, TypeOK, ReapType, DropRow
<1>3. \A k \in Keys : rows'[k] = IF k = cur[w] THEN Nil ELSE rows[k]
  BY <1>2 DEF IInv, TypeOK, DropRow, DeleteFileRow, StoreType
<1>4. StoreType'
  BY <1>2 DEF IInv, TypeOK, DropRow, DeleteFileRow, StoreType
<1>5. TaskTrashInv'
  BY <1>3 DEF IInv, TypeOK, PoolType, Task, Keys, DropRow, TaskTrashInv, poolVars, driveVars
<1>6. RestoreInv'
  BY <1>3
  DEF IInv, TypeOK, RestoreType, Restoring, DropRow, RestoreInv, IsObjectOf, IsTrashed,
      driveVars
<1>7. RowsOwnTheirObjects'
  BY <1>3 DEF IInv, DropRow, RowsOwnTheirObjects, driveVars
<1>8. TankRowsPointIntoTank'
  BY <1>3 DEF IInv, DropRow, TankRowsPointIntoTank, IsTrashed, driveVars
<1> QED
  BY <1>1, <1>2, <1>3, <1>4, <1>5, <1>6, <1>7, <1>8, TypeFrame, InvFrame
  DEF IInv, TypeOK, DropRow, passVars, snapVars, poolVars, reapVars, diskVars, driveVars,
      storeVars, envVars

\* A finished purge releases syncMu.
LEMMA PurgeEndInv == ASSUME IInv, PurgeEnd PROVE IInv'
<1>1. PassType'
  BY DEF IInv, TypeOK, PurgeEnd, PassType, passVars
<1>2. MutexInv'
  BY DEF IInv, PurgeEnd, MutexInv, passVars, poolVars
<1> QED
  BY <1>1, <1>2, TypeFrame, InvFrame
  DEF IInv, TypeOK, PurgeEnd, passVars, snapVars, poolVars, reapVars, diskVars, driveVars,
      storeVars, envVars

\* A restore starts on a row, and its object belongs to that row.
LEMMA RestoreDownloadInv == ASSUME IInv, NEW k \in Keys, RestoreDownload(k) PROVE IInv'
<1>1. /\ rows[k] \in Row /\ objs[rows[k].remoteID].content \in Contents
        /\ IsObjectOf(rows[k].remoteID, k[1], k[2])
  BY
  DEF IInv, TypeOK, RestoreDownload, StoreType, IsTrashed, Exists, ObjectsInv, Row,
      RowsOwnTheirObjects, IsObjectOf
<1>2. DiskType'
  BY <1>1 DEF IInv, TypeOK, RestoreDownload, DiskType, LocalFile, Keys
<1>3. RestoreType'
  BY <1>1 DEF RestoreDownload, RestoreType, Restoring, Row
<1>4. PassType'
  BY DEF IInv, TypeOK, RestoreDownload, PassType, passVars
<1>5. MutexInv'
  BY DEF IInv, RestoreDownload, MutexInv, passVars, poolVars
<1>6. RestoreInv'
  BY <1>1 DEF RestoreDownload, RestoreInv, IsObjectOf, driveVars
<1> QED
  BY <1>1, <1>2, <1>3, <1>4, <1>5, <1>6, TypeFrame, InvFrame
  DEF IInv, TypeOK, RestoreDownload, passVars, snapVars, poolVars, reapVars, diskVars,
      driveVars, storeVars, envVars

\* The restored row still names its object and is no longer TRASHED.
LEMMA RestoreUpsertInv == ASSUME IInv, RestoreUpsert PROVE IInv'
<1>1. rs \in Restoring
  BY DEF IInv, TypeOK, RestoreType, RestoreUpsert
<1>2. /\ rs' \in Restoring /\ rs'.id = rs.id /\ rs'.obj = rs.obj
  BY <1>1 DEF RestoreUpsert, Restoring
<1>3. /\ rows' \in [Keys -> Row \cup {Nil}]
      /\ rows'[rs.id].remoteID = rs.obj /\ rows'[rs.id].status = "SYNCED"
      /\ \A k \in Keys : k # rs.id => rows'[k] = rows[k]
  BY <1>1, SizeAssumption
  DEF IInv, TypeOK, RestoreUpsert, Restoring, UpsertFile, StoreType, DiskType, LocalFile, Row,
      Statuses, Keys
<1>4. StoreType'
  BY <1>3 DEF IInv, TypeOK, StoreType, RestoreUpsert
<1>5. RestoreType'
  BY <1>2 DEF RestoreType
<1>6. MutexInv'
  BY DEF IInv, RestoreUpsert, MutexInv, passVars, poolVars
<1>7. TaskTrashInv'
  BY NilAssumption DEF IInv, TypeOK, RestoreUpsert, MutexInv, TaskTrashInv, NoTasks, poolVars
<1>8. RestoreInv'
  BY <1>1, <1>2, <1>3 DEF IInv, RestoreUpsert, RestoreInv, IsObjectOf, IsTrashed, driveVars
<1>9. RowsOwnTheirObjects'
  BY <1>1, <1>3, RowWritten DEF IInv, RestoreUpsert, RestoreInv, Restoring, driveVars
<1>10. TankRowsPointIntoTank'
  BY <1>1, <1>3 DEF IInv, RestoreUpsert, TankRowsPointIntoTank, IsTrashed, driveVars
<1> QED
  BY <1>1, <1>2, <1>3, <1>4, <1>5, <1>6, <1>7, <1>8, <1>9, <1>10, TypeFrame, InvFrame
  DEF IInv, TypeOK, RestoreUpsert, passVars, snapVars, poolVars, reapVars, diskVars, driveVars,
      storeVars, envVars

\* A failed restore releases syncMu and changes nothing.
LEMMA RestoreFailInv == ASSUME IInv, RestoreFail PROVE IInv'
<1>1. PassType'
  BY DEF IInv, TypeOK, RestoreFail, PassType, passVars
<1>2. RestoreType'
  BY DEF RestoreFail, RestoreType
<1>3. EnvType'
  BY DEF IInv, TypeOK, RestoreFail, EnvType
<1>4. RestoreInv'
  BY DEF RestoreFail, RestoreInv
<1>5. MutexInv'
  BY DEF IInv, TypeOK, PassType, RestoreFail, MutexInv, passVars, poolVars
<1> QED
  BY <1>1, <1>2, <1>3, <1>4, <1>5, TypeFrame, InvFrame
  DEF IInv, TypeOK, RestoreFail, passVars, snapVars, poolVars, reapVars, diskVars, driveVars,
      storeVars, envVars

\* Edits of the local tree touch nothing the invariant relates.
LEMMA UserWriteInv == ASSUME IInv, NEW p \in Paths, UserWrite(p) PROVE IInv'
<1>1. DiskType'
  BY DEF IInv, TypeOK, UserWrite, DiskType, LocalFile
<1> QED
  BY <1>1, TypeFrame, InvFrame
  DEF IInv, TypeOK, UserWrite, daemonVars, passVars, snapVars, poolVars, reapVars, diskVars,
      driveVars, storeVars, envVars

\* Nor do local deletions.
LEMMA UserDeleteInv == ASSUME IInv, NEW p \in Paths, UserDelete(p) PROVE IInv'
<1>1. DiskType'
  BY DEF IInv, TypeOK, UserDelete, DiskType, LocalFile
<1> QED
  BY <1>1, TypeFrame, InvFrame
  DEF IInv, TypeOK, UserDelete, daemonVars, passVars, snapVars, poolVars, reapVars, diskVars,
      driveVars, storeVars, envVars

\* Nor does the passing of a day.
LEMMA TickInv == ASSUME IInv, Tick PROVE IInv'
<1>1. EnvType'
  BY DEF IInv, TypeOK, Tick, EnvType
<1> QED
  BY <1>1, TypeFrame, InvFrame
  DEF IInv, TypeOK, Tick, daemonVars, passVars, snapVars, poolVars, reapVars, diskVars,
      driveVars, storeVars, envVars

\* A crash forgets what was in memory; objects and rows, or an empty database, remain.
LEMMA CrashInv == ASSUME IInv, Crash PROVE IInv'
<1>1. PassType'
  BY BoundsAssumption DEF Crash, PassType, NoScan, NoListing, NoRows
<1>2. StoreType'
  BY BoundsAssumption DEF IInv, TypeOK, Crash, StoreType, storeVars, NoRows, Rels
<1>3. PoolType' /\ ReapType' /\ RestoreType'
  BY DEF Crash, PoolType, ReapType, RestoreType, NoTasks
<1>4. EnvType'
  BY DEF IInv, TypeOK, Crash, EnvType
<1>5. MutexInv'
  BY DEF Crash, MutexInv
<1>6. ObjectsInv'
  BY DEF IInv, Crash, ObjectsInv, NoListing, driveVars
<1>7. TaskObjectsInv' /\ TaskReadyInv' /\ TaskTrashInv' /\ RestoreInv'
  BY DEF Crash, TaskObjectsInv, TaskReadyInv, TaskTrashInv, RestoreInv, NoTasks
<1>8. RowsOwnTheirObjects' /\ TankRowsPointIntoTank'
  BY
  DEF IInv, Crash, RowsOwnTheirObjects, TankRowsPointIntoTank, IsTrashed, NoRows, driveVars,
      storeVars
<1> QED
  BY <1>1, <1>2, <1>3, <1>4, <1>5, <1>6, <1>7, <1>8, TypeFrame, InvFrame
  DEF IInv, TypeOK, Crash, passVars, snapVars, poolVars, reapVars, diskVars, driveVars,
      storeVars, envVars

\* Deleting an object for good cannot bring it back into the mirror.
LEMMA ReapInv == ASSUME IInv, NEW w \in Reapers, Reap(w) PROVE IInv'
<1>1. ReapType'
  BY DEF IInv, TypeOK, Reap, ReapType
<1>2. PICK e \in todo[w] :
        objs' = PermanentDelete(objs, e[2], IF w = "sweep" THEN "reaped" ELSE "purged")
  BY DEF Reap
<1>3. e[2] \in ObjIds
  BY DEF IInv, TypeOK, ReapType
<1>4. DriveType' /\ Persists /\ StaysOut /\ ObjectsInv'
  BY <1>2, <1>3, Deleted DEF IInv, TypeOK, Reap, passVars
<1> QED
  BY <1>1, <1>2, <1>3, <1>4, TypeFrame, InvFrame, PersistsFrame, StaysOutFrame
  DEF IInv, TypeOK, Reap, passVars, snapVars, poolVars, reapVars, diskVars, driveVars,
      storeVars, envVars

\* Nor can a deletion on drive.google.com.
LEMMA CloudDeleteInv == ASSUME IInv, NEW o \in ObjIds, CloudDelete(o) PROVE IInv'
<1>1. EnvType'
  BY DEF IInv, TypeOK, CloudDelete, CloudChange, EnvType
<1>2. DriveType' /\ Persists /\ StaysOut /\ ObjectsInv'
  BY Deleted DEF IInv, TypeOK, CloudDelete, CloudChange, daemonVars
<1> QED
  BY <1>1, <1>2, TypeFrame, InvFrame, PersistsFrame, StaysOutFrame
  DEF IInv, TypeOK, CloudDelete, daemonVars, CloudChange, passVars, snapVars, poolVars,
      reapVars, diskVars, driveVars, storeVars, envVars

\* A change of content on drive.google.com leaves the object where it is.
LEMMA CloudTamperInv == ASSUME IInv, NEW o \in ObjIds, CloudTamper(o) PROVE IInv'
<1>1. EnvType'
  BY DEF IInv, TypeOK, CloudTamper, CloudChange, EnvType
<1>2. DriveType' /\ Persists /\ StaysOut /\ ObjectsInv'
  BY ContentUpdated DEF IInv, TypeOK, CloudTamper, CloudChange, Exists, daemonVars
<1> QED
  BY <1>1, <1>2, TypeFrame, InvFrame, PersistsFrame, StaysOutFrame
  DEF IInv, TypeOK, CloudTamper, daemonVars, CloudChange, passVars, snapVars, poolVars,
      reapVars, diskVars, driveVars, storeVars, envVars

\* A stray object is new: no row, task or restore names it.
LEMMA CloudStrayInv == ASSUME IInv, NEW k \in Keys, CloudStray(k) PROVE IInv'
<1>1. EnvType'
  BY DEF IInv, TypeOK, CloudStray, CloudChange, EnvType
<1>2. k[1] \in Nat /\ k[2] \in Paths
  BY BoundsAssumption DEF Keys, Rels
<1>3. DriveType' /\ Persists /\ StaysOut /\ ObjectsInv'
  BY <1>2, NewObject DEF IInv, TypeOK, CloudStray, CloudChange, daemonVars
<1> QED
  BY <1>1, <1>2, <1>3, TypeFrame, InvFrame, PersistsFrame, StaysOutFrame
  DEF IInv, TypeOK, CloudStray, daemonVars, CloudChange, passVars, snapVars, poolVars, reapVars,
      diskVars, driveVars, storeVars, envVars

\* Quarantining a redundant twin takes it out of the mirror.
LEMMA DedupeInv == ASSUME IInv, NEW o \in ObjIds, Dedupe(o) PROVE IInv'
<1>1. EnvType' /\ PoolType'
  BY DEF IInv, TypeOK, Dedupe, EnvType, PoolType
<1>2. DriveType' /\ Persists /\ StaysOut /\ ObjectsInv'
  <2>1. CASE Exists(objs[o]) /\ objs' = MoveToTank(objs, o, now)
    BY <2>1, Tanked DEF IInv, TypeOK, EnvType, Dedupe, passVars
  <2>2. CASE UNCHANGED objs
    BY <2>2 DEF IInv, TypeOK, DriveType, ObjectsInv, Persists, StaysOut, Dedupe, passVars
  <2> QED
    BY <2>1, <2>2 DEF Dedupe
<1> QED
  BY <1>1, <1>2, TypeFrame, InvFrame, PersistsFrame, StaysOutFrame
  DEF IInv, TypeOK, Dedupe, passVars, snapVars, poolVars, reapVars, diskVars, driveVars,
      storeVars, envVars

\* The only move back into the mirror: its row is SYNCED by then, and no other
\* row names the object.
LEMMA RestoreMoveInv == ASSUME IInv, RestoreMove PROVE IInv'
<1>1. rs \in Restoring /\ rs.obj \in ObjIds
  BY DEF IInv, TypeOK, RestoreType, Restoring, RestoreMove
<1>2. PassType'
  BY DEF IInv, TypeOK, RestoreMove, PassType, passVars
<1>3. RestoreType' /\ RestoreInv'
  BY DEF RestoreMove, RestoreType, RestoreInv
<1>4. MutexInv'
  BY DEF IInv, TypeOK, PassType, RestoreMove, MutexInv, passVars, poolVars
<1>5. /\ DriveType' /\ Persists /\ ObjectsInv'
        /\ \A o \in ObjIds : o # rs.obj => objs'[o] = objs[o]
  <2>1. CASE Exists(objs[rs.obj])
    BY <1>1, <2>1, MovedBack DEF IInv, TypeOK, RestoreMove, passVars
  <2>2. CASE ~Exists(objs[rs.obj])
    BY <2>2 DEF IInv, TypeOK, DriveType, ObjectsInv, Persists, RestoreMove, passVars
  <2> QED
    BY <2>1, <2>2
<1>6. TankRowsPointIntoTank'
  <2> SUFFICES ASSUME NEW k \in Keys, IsTrashed(rows[k])
               PROVE  objs'[rows[k].remoteID].where # "live"
    BY DEF TankRowsPointIntoTank, IsTrashed, RestoreMove, storeVars
  <2>1. rows[k].remoteID \in ObjIds /\ IsObjectOf(rows[k].remoteID, k[1], k[2])
    BY DEF IInv, TypeOK, StoreType, Row, IsTrashed, RowsOwnTheirObjects, IsObjectOf
  <2>2. rows[k].remoteID # rs.obj
    BY <1>1, <2>1 DEF IInv, RestoreMove, RestoreInv, Restoring, IsObjectOf, Keys
  <2> QED
    BY <1>5, <2>1, <2>2 DEF IInv, TankRowsPointIntoTank
<1>7. TaskTrashInv'
  BY DEF IInv, RestoreMove, MutexInv, TaskTrashInv, NoTasks, poolVars
<1> QED
  BY <1>1, <1>2, <1>3, <1>4, <1>5, <1>6, <1>7, TypeFrame, InvFrame, PersistsFrame
  DEF IInv, TypeOK, RestoreMove, passVars, snapVars, poolVars, reapVars, diskVars, driveVars,
      storeVars, envVars

\* The first half of trash moves the row's own object into the tank.
LEMMA TrashMoveInv == ASSUME IInv, NEW p \in Paths, TrashMove(p) PROVE IInv'
<1> DEFINE id == <<task[p].rel, p>>
           o == rows[id].remoteID
<1>1. /\ task[p] \in Task /\ task[p] # Nil /\ task[p].act = "TRASH" /\ id \in Keys /\ now \in Nat
      /\ pc = "exec" /\ UNCHANGED <<mu, passVars, dupes, reapVars, rs, diskVars, storeVars, made>>
  BY DEF IInv, TypeOK, PoolType, Task, EnvType, TrashMove, Executing, Keys, storeVars
<1>2. \/ task' = [task EXCEPT ![p] = Nil] /\ UNCHANGED objs
      \/ /\ rows[id] # Nil /\ Exists(objs[o]) /\ objs' = MoveToTank(objs, o, now)
         /\ task' = [task EXCEPT ![p] = [@ EXCEPT !.phase = "sent"]]
  BY DEF TrashMove, Done, FileID
<1>3. rows[id] # Nil => o \in ObjIds
  BY <1>1 DEF IInv, TypeOK, StoreType, Row
<1>4. \A q \in Paths : q # p => task'[q] = task[q]
  BY <1>2 DEF IInv, TypeOK, PoolType
<1>5. \/ task'[p] = Nil
      \/ /\ task'[p] \in Task /\ task'[p].rel = task[p].rel /\ task'[p].act = "TRASH"
         /\ task'[p].remote = task[p].remote
  BY <1>1, <1>2 DEF IInv, TypeOK, PoolType, Task
<1>6. /\ DriveType' /\ Persists /\ StaysOut /\ ObjectsInv'
      /\ task'[p] # Nil => rows[id] # Nil /\ objs'[o].where = "tank"
  <2>1. CASE UNCHANGED objs /\ task'[p] = Nil
    BY <1>1, <2>1 DEF IInv, TypeOK, DriveType, ObjectsInv, Persists, StaysOut, passVars
  <2>2. CASE rows[id] # Nil /\ Exists(objs[o]) /\ objs' = MoveToTank(objs, o, now)
    BY <1>1, <1>3, <2>2, Tanked DEF IInv, TypeOK, passVars
  <2> QED
    BY <1>2, <2>1, <2>2 DEF IInv, TypeOK, PoolType
<1>7. TypeOK'
  <2>1. PoolType'
    BY <1>1, <1>2, <1>4, <1>5 DEF IInv, TypeOK, PoolType
  <2>2. UNCHANGED envVars
    BY DEF TrashMove
  <2> QED
    BY <1>1, <1>6, <2>1, <2>2, TypeFrame DEF IInv, TypeOK
<1>8. MutexInv' /\ TaskReadyInv'
  <2>1. MutexInv'
    BY <1>1 DEF IInv, MutexInv, passVars
  <2>2. TaskReadyInv'
    BY <1>4, <1>5 DEF IInv, TaskReadyInv, Uploads
  <2> QED
    BY <2>1, <2>2
<1>9. TaskObjectsInv'
  <2> SUFFICES ASSUME NEW q \in Paths, task'[q] # Nil, task'[q].remote # Nil
               PROVE  IsObjectOf(task[q].remote, task[q].rel, q)'
    BY DEF TaskObjectsInv, IsObjectOf
  <2>1. /\ task[q] # Nil /\ task'[q].remote = task[q].remote /\ task'[q].rel = task[q].rel
        /\ task[q].remote \in ObjIds
    BY <1>1, <1>4, <1>5 DEF IInv, TypeOK, PoolType, Task
  <2>2. IsObjectOf(task[q].remote, task[q].rel, q)
    BY <2>1 DEF IInv, TaskObjectsInv
  <2> QED
    BY <1>6, <2>1, <2>2 DEF IsObjectOf, Persists
<1>10. TaskTrashInv'
  <2> SUFFICES ASSUME NEW q \in Paths, task'[q] # Nil, task'[q].act = "TRASH",
                      task'[q].phase = "sent", rows[<<task'[q].rel, q>>] # Nil
               PROVE  objs'[rows[<<task'[q].rel, q>>].remoteID].where # "live"
    BY <1>1 DEF TaskTrashInv, storeVars
  <2>1. CASE q = p
    BY <1>5, <1>6, <2>1
  <2>2. CASE q # p
    <3>1. /\ task'[q] = task[q] /\ <<task[q].rel, q>> \in Keys
          /\ objs[rows[<<task[q].rel, q>>].remoteID].where # "live"
      BY <1>4, <2>2 DEF IInv, TypeOK, PoolType, Task, TaskTrashInv, Keys
    <3>2. /\ rows[<<task[q].rel, q>>].remoteID \in ObjIds
          /\ objs[rows[<<task[q].rel, q>>].remoteID].where # "none"
      BY <3>1 DEF IInv, TypeOK, StoreType, Row, RowsOwnTheirObjects
    <3> QED
      BY <1>6, <3>1, <3>2 DEF StaysOut
  <2> QED
    BY <2>1, <2>2
<1>11. RestoreInv' /\ RowsOwnTheirObjects' /\ TankRowsPointIntoTank'
  BY <1>1, <1>6, PersistsFrame, StaysOutFrame DEF IInv, storeVars
<1> QED
  BY <1>6, <1>7, <1>8, <1>9, <1>10, <1>11 DEF IInv

\* An upload creates an object at the task's path or updates the task's object.
LEMMA UploadSendInv == ASSUME IInv, NEW p \in Paths, UploadSend(p) PROVE IInv'
<1>1. task[p] \in Task /\ task[p].rel \in Nat /\ local[p].content \in Contents
  BY BoundsAssumption
  DEF IInv, TypeOK, PoolType, DiskType, LocalFile, Task, Rels, UploadSend, Executing, Done,
      UploadTo
<1>2. PICK o \in ObjIds : UploadTo(p, o)
        /\ task' = [task EXCEPT ![p] = [@ EXCEPT !.remote = o, !.md5 = local[p].content,
                                                 !.phase = "sent"]]
  BY DEF UploadSend
<1>3. /\ DriveType' /\ Persists /\ StaysOut /\ ObjectsInv'
        /\ objs'[o].rel = task[p].rel /\ objs'[o].path = p /\ objs'[o].where # "none"
  <2>1. CASE task[p].remote = Nil
    BY <1>1, <1>2, <2>1, NewObject DEF IInv, TypeOK, UploadTo, UploadSend, Executing, passVars
  <2>2. CASE task[p].remote # Nil
    <3>1. /\ o = task[p].remote /\ Exists(objs[o]) /\ UNCHANGED <<made, listed>>
          /\ objs' = Update(objs, o, local[p].content)
      BY <1>2, <2>2 DEF UploadTo, UploadSend, Executing, passVars
    <3>2. DriveType' /\ Persists /\ StaysOut /\ ObjectsInv'
      BY <1>1, <3>1, ContentUpdated DEF IInv, TypeOK
    <3>3. IsObjectOf(o, task[p].rel, p)
      BY <2>2, <3>1 DEF IInv, TaskObjectsInv, UploadSend, Executing
    <3> QED
      BY <3>2, <3>3 DEF Persists, IsObjectOf
  <2> QED
    BY <2>1, <2>2
<1>4. \A q \in Paths : q # p => task'[q] = task[q]
  BY <1>2 DEF IInv, TypeOK, UploadSend, Executing, Done, Uploads, PoolType
<1>5. PoolType'
  BY <1>1, <1>2 DEF IInv, TypeOK, UploadSend, Executing, Done, Uploads, PoolType, Task
<1>6. MutexInv'
  BY DEF IInv, TypeOK, PoolType, UploadSend, Executing, Done, MutexInv, NoTasks, passVars
<1>7. /\ task'[p].remote = o /\ task'[p].rel = task[p].rel /\ task'[p].act \in Uploads
        /\ task'[p].md5 # Nil
  BY <1>1, <1>2, NilAssumption
  DEF IInv, TypeOK, UploadSend, Executing, Done, Uploads, PoolType, Task
<1>8. TaskObjectsInv'
  BY <1>3, <1>4, <1>7 DEF IInv, TypeOK, PoolType, Task, TaskObjectsInv, IsObjectOf, Persists
<1>9. TaskReadyInv'
  BY <1>4, <1>7, NilAssumption DEF IInv, TypeOK, PoolType, Uploads, TaskReadyInv, ObjIds
<1>10. TaskTrashInv'
  BY <1>3, <1>4, <1>7
  DEF IInv, TypeOK, PoolType, Task, StoreType, Row, RowsOwnTheirObjects, UploadSend, StaysOut,
      TaskTrashInv, Keys, Uploads
<1> QED
  BY <1>1, <1>2, <1>3, <1>4, <1>5, <1>6, <1>7, <1>8, <1>9, <1>10, TypeFrame, InvFrame,
     PersistsFrame, StaysOutFrame
  DEF IInv, TypeOK, UploadSend, Executing, passVars, snapVars, poolVars, reapVars, diskVars,
      driveVars, storeVars, envVars

\* The same when its reply is lost.
LEMMA UploadLostInv == ASSUME IInv, NEW p \in Paths, UploadLost(p) PROVE IInv'
<1>1. task[p] \in Task /\ task[p].rel \in Nat /\ local[p].content \in Contents
  BY BoundsAssumption
  DEF IInv, TypeOK, PoolType, DiskType, LocalFile, Task, Rels, UploadLost, Executing, Done,
      UploadTo
<1>2. PICK o \in ObjIds : UploadTo(p, o)
  BY DEF UploadLost
<1>3. /\ DriveType' /\ Persists /\ StaysOut /\ ObjectsInv'
        /\ objs'[o].rel = task[p].rel /\ objs'[o].path = p /\ objs'[o].where # "none"
  <2>1. CASE task[p].remote = Nil
    BY <1>1, <1>2, <2>1, NewObject DEF IInv, TypeOK, UploadTo, UploadLost, Executing, passVars
  <2>2. CASE task[p].remote # Nil
    <3>1. /\ o = task[p].remote /\ Exists(objs[o]) /\ UNCHANGED <<made, listed>>
          /\ objs' = Update(objs, o, local[p].content)
      BY <1>2, <2>2 DEF UploadTo, UploadLost, Executing, passVars
    <3>2. DriveType' /\ Persists /\ StaysOut /\ ObjectsInv'
      BY <1>1, <3>1, ContentUpdated DEF IInv, TypeOK
    <3>3. IsObjectOf(o, task[p].rel, p)
      BY <2>2, <3>1 DEF IInv, TaskObjectsInv, UploadLost, Executing
    <3> QED
      BY <3>2, <3>3 DEF Persists, IsObjectOf
  <2> QED
    BY <2>1, <2>2
<1>4. \A q \in Paths : q # p => task'[q] = task[q]
  BY <1>2 DEF IInv, TypeOK, UploadLost, Executing, Done, Uploads, PoolType
<1>5. PoolType'
  BY <1>1, <1>2 DEF IInv, TypeOK, UploadLost, Executing, Done, Uploads, PoolType, Task
<1>6. MutexInv'
  BY DEF IInv, TypeOK, PoolType, UploadLost, Executing, Done, MutexInv, NoTasks, passVars
<1>7. task'[p] = Nil
  BY DEF IInv, TypeOK, UploadLost, Executing, Done, Uploads, PoolType
<1>8. TaskObjectsInv'
  BY <1>3, <1>4, <1>7 DEF IInv, TypeOK, PoolType, Task, TaskObjectsInv, IsObjectOf, Persists
<1>9. TaskReadyInv'
  BY <1>4, <1>7 DEF IInv, TypeOK, PoolType, TaskReadyInv
<1>10. TaskTrashInv'
  BY <1>3, <1>4, <1>7
  DEF IInv, TypeOK, PoolType, Task, StoreType, Row, RowsOwnTheirObjects, UploadLost, StaysOut,
      TaskTrashInv, Keys
<1>11. EnvType'
  BY DEF IInv, TypeOK, UploadLost, EnvType
<1> QED
  BY <1>1, <1>2, <1>3, <1>4, <1>5, <1>6, <1>7, <1>8, <1>9, <1>10, <1>11, TypeFrame, InvFrame,
     PersistsFrame, StaysOutFrame
  DEF IInv, TypeOK, UploadLost, Executing, passVars, snapVars, poolVars, reapVars, diskVars,
      driveVars, storeVars, envVars

\* The decisions the merge and the choice of a candidate may come to.
LEMMA MergeDecides ==
    ASSUME NEW l, NEW r, NEW b
    PROVE  Merge(l, r, b) \in {"NONE", "UPLOAD", "REUPLOAD", "TRASH", "CONFLICT"}
BY DEF Merge

LEMMA PickedIsCandidate ==
    ASSUME NEW cands, NEW id, NEW o \in pickRemote(cands, id)
    PROVE  o = Nil \/ o \in cands
BY DEF pickRemote

LEMMA TwinIsCandidate ==
    ASSUME NEW n \in Rels, NEW c \in [Rels -> SUBSET ObjIds], NEW t \in findRemoteTwin(n, c)
    PROVE  t[1] \in Rels /\ t[2] \in c[t[1]]
BY BoundsAssumption DEF findRemoteTwin, Rels

\* A queued task acts on a candidate of its own relation and path.
LEMMA TaskQueued ==
    ASSUME IInv, NEW p \in Paths, NEW r \in Rels, NEW act \in Actions, NEW o \in ObjIds \cup {Nil},
           o # Nil => o \in Candidates(r, p), act = "ADOPT" => o # Nil,
           Queue(p, r, act, o), UNCHANGED <<objs, rows>>
    PROVE  /\ task' \in [Paths -> Task \cup {Nil}]
           /\ TaskObjectsInv' /\ TaskReadyInv' /\ TaskTrashInv'
<1> DEFINE t == [rel |-> r, act |-> act, remote |-> o,
                 md5 |-> IF o = Nil THEN Nil ELSE listed[o], phase |-> "queued"]
<1>1. o # Nil => listed[o] \in Contents /\ IsObjectOf(o, r, p)
  BY DEF IInv, TypeOK, PassType, Candidates, ObjectsInv, IsObjectOf
<1>2. t \in Task
  BY <1>1 DEF Task
<1>3. /\ task' \in [Paths -> Task \cup {Nil}] /\ task'[p] = t
      /\ \A q \in Paths : q # p => task'[q] = task[q]
  BY <1>2 DEF IInv, TypeOK, PoolType, Queue
<1>4. TaskObjectsInv'
  BY <1>1, <1>3 DEF IInv, TaskObjectsInv, IsObjectOf
<1>5. TaskReadyInv'
  BY <1>1, <1>3, NilAssumption DEF IInv, TaskReadyInv
<1>6. TaskTrashInv'
  BY <1>3 DEF IInv, TaskTrashInv
<1> QED
  BY <1>3, <1>4, <1>5, <1>6

\* A tracked path's task acts on the object its relation's listing shows.
LEMMA BuildOwnedInv == ASSUME IInv, NEW p \in Paths, BuildOwned(p) PROVE IInv'
<1> DEFINE Tracked(r) == base[<<r, p>>]
           Act(r, o) == Merge(scan[p], RemoteState(o), Tracked(r))
           Choice(r, o) ==
                /\ Built(p)
                /\ dupes' = dupes \cup (IF o = Nil THEN {}
                                        ELSE redundant(Candidates(r, p), o, listed))
                /\ IF Act(r, o) = "NONE" THEN UNCHANGED task ELSE Queue(p, r, Act(r, o), o)
                /\ UNCHANGED <<nrel, faults>>
<1>a. PICK r \in Owners(p) :
        \E o \in pickRemote(Candidates(r, p), Tracked(r).remoteID) : Choice(r, o)
  BY DEF BuildOwned
<1>1. PICK o \in pickRemote(Candidates(r, p), Tracked(r).remoteID) : Choice(r, o)
  BY <1>a
<1> DEFINE act == Act(r, o)
<1>2. r \in Rels /\ (o = Nil \/ o \in Candidates(r, p)) /\ o \in ObjIds \cup {Nil}
  BY PickedIsCandidate DEF Owners, Candidates
<1>3. act \in Actions /\ act # "ADOPT"
  BY MergeDecides DEF Actions
<1>4. /\ pc = "build" /\ unbuilt' = unbuilt \ {p}
      /\ UNCHANGED <<local, objs, made, rows, nrel, mu, pc, at, scan, listed, base, todo, cur,
                     rs, clock, now, faults, cloud>>
  BY <1>1 DEF Built, snapVars, reapVars, diskVars, driveVars
<1>5. /\ task' \in [Paths -> Task \cup {Nil}]
      /\ TaskObjectsInv' /\ TaskReadyInv' /\ TaskTrashInv'
  <2>1. CASE UNCHANGED task
    BY <1>4, <2>1, InvFrame DEF IInv, TypeOK, PoolType
  <2>2. CASE Queue(p, r, act, o)
    BY <1>2, <1>3, <1>4, <2>2, TaskQueued
  <2> QED
    BY <1>1, <2>1, <2>2
<1>6. PoolType' /\ PassType'
  <2>1. dupes' \subseteq ObjIds
    BY <1>1 DEF IInv, TypeOK, PoolType, redundant, Candidates
  <2> QED
    BY <1>4, <1>5, <2>1 DEF IInv, TypeOK, PoolType, PassType
<1>7. MutexInv'
  BY <1>4 DEF IInv, MutexInv
<1> QED
  BY <1>4, <1>5, <1>6, <1>7, TypeFrame, InvFrame
  DEF IInv, TypeOK, reapVars, diskVars, driveVars, storeVars, envVars

\* An untracked path's task acts on a twin of the same path, or on none.
LEMMA BuildNewInv == ASSUME IInv, NEW p \in Paths, BuildNew(p) PROVE IInv'
<1> DEFINE at1 == [r \in Rels |-> Candidates(r, p)]
           Found(t) == LET same == local[p] # Nil /\ local[p].content = listed[t[2]]
                       IN  Queue(p, t[1], IF same THEN "ADOPT" ELSE "UPLOAD", t[2])
           TasksOK == /\ task' \in [Paths -> Task \cup {Nil}]
                      /\ TaskObjectsInv' /\ TaskReadyInv' /\ TaskTrashInv'
<1>1. /\ pc = "build" /\ unbuilt' = unbuilt \ {p}
      /\ UNCHANGED <<local, objs, made, rows, mu, pc, at, scan, listed, base, dupes, todo, cur,
                     rs, clock, now, cloud>>
  BY DEF BuildNew, Built, snapVars, reapVars, diskVars, driveVars
<1>2. \/ UNCHANGED <<nrel, faults>> /\ \E t \in findRemoteTwin(nrel, at1) : Found(t)
      \/ UNCHANGED faults /\ \E r \in Rels : /\ nrel' = IF r > nrel THEN r ELSE nrel
                                             /\ Queue(p, r, "UPLOAD", Nil)
      \/ faults' = faults + 1 /\ nrel' \in nrel..MaxRels /\ UNCHANGED task
  BY DEF BuildNew
<1>3. nrel' \in Rels /\ faults' \in Nat
  BY <1>2, BoundsAssumption DEF IInv, TypeOK, StoreType, EnvType, Rels
<1>4. TasksOK
  <2>1. ASSUME NEW t \in findRemoteTwin(nrel, at1), Found(t)
        PROVE  TasksOK
    <3>1. t[1] \in Rels /\ t[2] \in Candidates(t[1], p)
      <4>1. nrel \in Rels /\ at1 \in [Rels -> SUBSET ObjIds]
        BY DEF IInv, TypeOK, StoreType, Candidates
      <4> QED
        BY <4>1, TwinIsCandidate
    <3>2. t[2] \in ObjIds
      BY <3>1 DEF Candidates
    <3>3. t[2] # Nil
      BY <3>2, NilAssumption DEF ObjIds
    <3>4. \E act \in {"ADOPT", "UPLOAD"} : Queue(p, t[1], act, t[2])
      BY <2>1
    <3> QED
      BY <1>1, <3>1, <3>2, <3>3, <3>4, TaskQueued DEF Actions
  <2>2. ASSUME NEW r \in Rels, Queue(p, r, "UPLOAD", Nil)
        PROVE  TasksOK
    BY <1>1, <2>2, TaskQueued DEF Actions
  <2>3. CASE UNCHANGED task
    BY <1>1, <2>3, InvFrame DEF IInv, TypeOK, PoolType
  <2> QED
    BY <1>2, <2>1, <2>2, <2>3
<1>5. PoolType' /\ PassType' /\ StoreType' /\ EnvType'
  BY <1>1, <1>3, <1>4 DEF IInv, TypeOK, PoolType, PassType, StoreType, EnvType
<1>6. MutexInv'
  BY <1>1 DEF IInv, MutexInv
<1> QED
  BY <1>1, <1>4, <1>5, <1>6, TypeFrame, InvFrame
  DEF IInv, TypeOK, reapVars, diskVars, driveVars

\* The invariant holds initially.
LEMMA InitInv == Init => IInv
<1> SUFFICES ASSUME Init PROVE IInv
  OBVIOUS
<1>1. TypeOK
  BY BoundsAssumption DEF Init, TypeOK, DiskType, DriveType, StoreType, PassType, PoolType,
     ReapType, RestoreType, EnvType, NoScan, NoListing, NoRows, NoTasks, Unused, Object, Places,
     Rels
<1>2. MutexInv /\ ObjectsInv
  BY BoundsAssumption DEF Init, MutexInv, ObjectsInv, Unused, NoListing, NoTasks, ObjIds
<1>3. TaskObjectsInv /\ TaskReadyInv /\ TaskTrashInv /\ RestoreInv
  BY DEF Init, TaskObjectsInv, TaskReadyInv, TaskTrashInv, RestoreInv, NoTasks
<1>4. RowsOwnTheirObjects /\ TankRowsPointIntoTank
  BY DEF Init, RowsOwnTheirObjects, TankRowsPointIntoTank, IsTrashed, NoRows
<1> QED
  BY <1>1, <1>2, <1>3, <1>4 DEF IInv

\* Every step, and stuttering, keeps the invariant.
LEMMA NextInv == IInv /\ [Next]_vars => IInv'
<1> SUFFICES ASSUME IInv, [Next]_vars PROVE IInv'
  OBVIOUS
<1>1. CASE PassStep
  <2>1. CASE BuildStep
    BY <2>1, BuildOwnedInv, BuildNewInv DEF BuildStep
  <2>2. ASSUME NEW p \in Paths, TaskStep(p) PROVE IInv'
    BY <2>2, UploadSendInv, UploadLostInv, UploadRecordInv, AdoptInv, TrashMoveInv, TrashMarkInv,
       TaskErrorInv, TaskFailInv DEF TaskStep
  <2>3. CASE PoolStep
    BY <2>2, <2>3, DedupeInv DEF PoolStep
  <2> QED
    BY <1>1, <2>1, <2>3, BeginPassInv, ListRemoteInv, LoadBaseInv, AbortPassInv, StartExecInv,
       EndPassInv DEF PassStep
<1>2. CASE SweepStep \/ PurgeStep
  <2>1. ASSUME NEW w \in Reapers, ReapStep(w) PROVE IInv'
    BY <2>1, ReapInv, ReapFailInv, DropRowInv DEF ReapStep
  <2> QED
    BY <1>2, <2>1, SweepStartInv, PurgeEndInv DEF SweepStep, PurgeStep, Reapers
<1>3. CASE RestoreStep
  BY <1>3, RestoreUpsertInv, RestoreMoveInv, RestoreFailInv DEF RestoreStep
<1>4. CASE UserStep
  BY <1>4, UserWriteInv, UserDeleteInv, PurgeStartInv, RestoreDownloadInv DEF UserStep
<1>5. CASE CloudStep
  BY <1>5, CloudDeleteInv, CloudTamperInv, CloudStrayInv DEF CloudStep
<1>6. CASE UNCHANGED vars
  BY <1>6, TypeFrame, InvFrame
  DEF vars, IInv, TypeOK, passVars, poolVars, reapVars, diskVars, driveVars, storeVars, envVars
<1> QED
  BY <1>1, <1>2, <1>3, <1>4, <1>5, <1>6, TickInv, CrashInv DEF Next

-----------------------------------------------------------------------------
(* The theorems.                                                           *)

\* The inductive invariant holds in every reachable state, for any number of
\* paths, contents, accounts, objects and faults and any mix of behaviours.
THEOREM Invariance == Spec => []IInv
<1> QED
  BY InitInv, NextInv, PTL DEF Spec

\* Every variable keeps the type its code gives it: in particular every row
\* that UpsertFile writes names a real object and a real MD5.
THEOREM TypeCorrect == Spec => []TypeOK
<1>1. IInv => TypeOK
  BY DEF IInv
<1> QED
  BY <1>1, Invariance, PTL

\* No interleaving of passes, retries, restores, sweeps, purges, crashes and
\* changes on Drive makes a row name an object of another relation or path.
THEOREM RowsOwn == Spec => []RowsOwnTheirObjects
<1>1. IInv => RowsOwnTheirObjects
  BY DEF IInv
<1> QED
  BY <1>1, Invariance, PTL

\* No interleaving makes a TRASHED row name an object at its place in the
\* mirror: Sweep and PurgeTrash start only from rows whose object has left it.
THEOREM TankRows == Spec => []TankRowsPointIntoTank
<1>1. IInv => TankRowsPointIntoTank
  BY DEF IInv
<1> QED
  BY <1>1, Invariance, PTL
=============================================================================
