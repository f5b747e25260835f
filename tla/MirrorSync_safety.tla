------------------------- MODULE MirrorSync_safety -------------------------
(***************************************************************************)
(* What rests on IInv: purges drop only TRASHED rows, every object lives   *)
(* the life AssetLifecycle promises, no edit is taken for mirrored when it *)
(* is not, and a path has one owner and one object.                        *)
(***************************************************************************)
EXTENDS MirrorSync_proofs, FiniteSetTheorems

(* Which steps write what.                                                 *)

LEMMA StepTypes ==
    ASSUME IInv
    PROVE  /\ rows \in [Keys -> Row \cup {Nil}] /\ objs \in [ObjIds -> Object]
           /\ local \in [Paths -> LocalFile \cup {Nil}] /\ task \in [Paths -> Task \cup {Nil}]
           /\ todo \in [Reapers -> SUBSET (Keys \X ObjIds)] /\ cur \in [Reapers -> Keys \cup {Nil}]
           /\ rs \in Restoring \cup {Nil} /\ now \in Nat /\ clock \in Nat
  BY DEF IInv, TypeOK, StoreType, DriveType, DiskType, PoolType, ReapType, RestoreType, EnvType

\* Rows are written by tasks, sweeps and purges, restores, and a crash.
LEMMA WhoWritesRows ==
    ASSUME [Next]_vars
    PROVE  \/ UNCHANGED rows
           \/ \E p \in Paths : UploadRecord(p) \/ Adopt(p) \/ TrashMark(p)
           \/ \E w \in Reapers : DropRow(w)
           \/ RestoreUpsert \/ Crash
  <1> USE DEF storeVars
  <1>1. CASE PassStep
    <2>1. CASE BeginPass \/ ListRemote \/ LoadBase \/ AbortPass \/ StartExec \/ EndPass
      BY <2>1 DEF BeginPass, ListRemote, LoadBase, AbortPass, StartExec, EndPass, ReturnFromPass
    <2>2. CASE BuildStep
      BY <2>2 DEF BuildStep, BuildOwned, BuildNew, Built
    <2>3. ASSUME NEW p \in Paths, TaskStep(p)
          PROVE  UNCHANGED rows \/ UploadRecord(p) \/ Adopt(p) \/ TrashMark(p)
      BY <2>3 DEF TaskStep, UploadSend, UploadLost, TrashMove, TaskError, TaskFail
    <2>4. ASSUME NEW o \in ObjIds, Dedupe(o) PROVE UNCHANGED rows
      BY <2>4 DEF Dedupe
    <2> QED BY <1>1, <2>1, <2>2, <2>3, <2>4 DEF PassStep, PoolStep
  <1>2. CASE SweepStep \/ PurgeStep
    BY <1>2 DEF SweepStep, PurgeStep, ReapStep, SweepStart, Reap, ReapFail, PurgeEnd, Reapers
  <1>3. CASE RestoreStep
    BY <1>3 DEF RestoreStep, RestoreMove, RestoreFail
  <1>4. CASE UserStep
    BY <1>4 DEF UserStep, UserWrite, UserDelete, PurgeStart, RestoreDownload
  <1>5. CASE CloudStep \/ Tick
    BY <1>5 DEF CloudStep, CloudDelete, CloudTamper, CloudStray, CloudChange, Tick
  <1>6. CASE UNCHANGED vars
    BY <1>6 DEF vars
  <1> QED BY <1>1, <1>2, <1>3, <1>4, <1>5, <1>6 DEF Next

\* The row a task writes when its object is in place.
LEMMA RowOfTask ==
    ASSUME IInv, NEW p \in Paths, UploadRecord(p) \/ Adopt(p)
    PROVE  /\ task[p] \in Task /\ <<task[p].rel, p>> \in Keys
           /\ \E status \in {"SYNCED", "CONFLICT"} : /\ Recorded(p, status) \in Row
                                                     /\ rows'[<<task[p].rel, p>>] = Recorded(p, status)
           /\ \A k \in Keys : k # <<task[p].rel, p>> => rows'[k] = rows[k]
           /\ task'[p] = Nil /\ \A q \in Paths : q # p => task'[q] = task[q]
  <1>1. /\ task[p] \in Task /\ task[p].remote \in ObjIds /\ task[p].md5 \in Contents
        /\ <<task[p].rel, p>> \in Keys
    BY DEF IInv, TypeOK, PoolType, Task, TaskReadyInv, Keys, UploadRecord, Adopt, Executing
  <1>2. StatNow(p).mtime \in Nat /\ StatNow(p).size \in Nat
    BY SizeAssumption DEF IInv, TypeOK, DiskType, LocalFile, StatNow, Stat
  <1>3. \A status \in {"SYNCED", "CONFLICT"} : Recorded(p, status) \in Row
    BY <1>1, <1>2 DEF Recorded, Row, Statuses
  <1>4. \E status \in {"SYNCED", "CONFLICT"} :
          rows' = UpsertFile(rows, <<task[p].rel, p>>, Recorded(p, status))
    BY DEF UploadRecord, Adopt, FileID
  <1> QED BY <1>1, <1>3, <1>4, StepTypes DEF UpsertFile, UploadRecord, Adopt, Done

\* The row a restore writes.
LEMMA RowOfRestore ==
    ASSUME IInv, RestoreUpsert
    PROVE  /\ rs \in Restoring /\ rs.id \in Keys /\ rs.id[2] \in Paths
           /\ rows'[rs.id] \in Row /\ rows'[rs.id].remoteID = rs.obj /\ rows'[rs.id].md5 = rs.md5
           /\ rows'[rs.id].mtime = IF local[rs.id[2]] = Nil THEN clock ELSE local[rs.id[2]].mtime
           /\ rows'[rs.id].status = "SYNCED"
           /\ \A k \in Keys : k # rs.id => rows'[k] = rows[k]
  <1>1. rs \in Restoring
    BY StepTypes DEF RestoreUpsert
  <1>2. rs.id \in Keys /\ rs.id[2] \in Paths /\ rs.obj \in ObjIds /\ rs.md5 \in Contents /\ rs.size \in Nat
    BY <1>1 DEF Restoring, Keys
  <1> DEFINE f == local[rs.id[2]]
             r == [mtime |-> IF f = Nil THEN clock ELSE f.mtime,
                   size |-> IF f = Nil THEN rs.size ELSE SizeOf[f.content],
                   remoteID |-> rs.obj, md5 |-> rs.md5, status |-> "SYNCED", deletedAt |-> 0]
  <1>3. rows' = [rows EXCEPT ![rs.id] = r]
    BY DEF RestoreUpsert, UpsertFile
  <1>4. r \in Row
    BY <1>2, StepTypes, SizeAssumption DEF LocalFile, Row, Statuses
  <1>5. rows'[rs.id] = r /\ \A k \in Keys : k # rs.id => rows'[k] = rows[k]
    BY <1>2, <1>3, StepTypes
  <1> HIDE DEF f
  <1> QED BY <1>1, <1>2, <1>4, <1>5 DEF f

\* The row the second half of trash marks.
LEMMA RowOfTrash ==
    ASSUME IInv, NEW p \in Paths, TrashMark(p)
    PROVE  LET k == <<task[p].rel, p>> IN
           /\ task[p] \in Task /\ k \in Keys
           /\ rows[k] = Nil => rows'[k] = Nil
           /\ rows[k] # Nil => rows'[k] = [rows[k] EXCEPT !.status = "TRASHED", !.deletedAt = now]
           /\ rows'[k] # Nil => rows[k] # Nil
           /\ \A j \in Keys : j # k => rows'[j] = rows[j]
           /\ task'[p] = Nil /\ \A q \in Paths : q # p => task'[q] = task[q]
  <1>1. task[p] \in Task /\ <<task[p].rel, p>> \in Keys
    BY StepTypes DEF TrashMark, Executing, Task, Keys
  <1> QED BY <1>1, StepTypes DEF TrashMark, MarkTrashed, FileID, Done

\* The pass and its pool hold syncMu, or take it, and leave the reapers alone.
LEMMA PassHolds ==
    ASSUME IInv, PassStep
    PROVE  \/ mu \in {"free", "pass"} /\ UNCHANGED <<todo, cur, rs, nrel>>
           \/ mu = "pass" /\ UNCHANGED <<todo, cur, rs>>
  <1> USE DEF IInv, MutexInv
  <1>1. CASE BeginPass \/ ListRemote \/ LoadBase \/ AbortPass \/ StartExec \/ EndPass
    BY <1>1 DEF BeginPass, ListRemote, LoadBase, AbortPass, StartExec, EndPass, ReturnFromPass,
       reapVars, storeVars
  <1>2. CASE BuildStep
    BY <1>2 DEF BuildStep, BuildOwned, BuildNew, Built, reapVars
  <1>3. CASE PoolStep
    <2>1. ASSUME NEW p \in Paths, TaskStep(p) PROVE mu = "pass" /\ UNCHANGED <<todo, cur, rs>>
      BY <2>1 DEF TaskStep, UploadSend, UploadLost, UploadRecord, Adopt, TrashMove, TrashMark,
         TaskError, TaskFail, Executing, reapVars
    <2>2. ASSUME NEW o \in ObjIds, Dedupe(o) PROVE mu = "pass" /\ UNCHANGED <<todo, cur, rs>>
      BY <2>2 DEF Dedupe, reapVars
    <2> QED BY <1>3, <2>1, <2>2 DEF PoolStep
  <1> QED BY <1>1, <1>2, <1>3 DEF PassStep
-----------------------------------------------------------------------------
(* Purges.                                                                 *)

\* A purge works under syncMu, on rows that are TRASHED until they are gone.
Purging == todo["purge"] # {} \/ cur["purge"] # Nil
Purged(k) == \/ cur["purge"] # Nil /\ k = cur["purge"]
             \/ \E o \in ObjIds : <<k, o>> \in todo["purge"]
PurgeInv ==
    /\ Purging => mu = "purge"
    /\ \A k \in Keys : Purged(k) => rows[k] = Nil \/ IsTrashed(rows[k])

LEMMA InitPurge == Init => PurgeInv
  BY DEF Init, PurgeInv, Purging, Purged, Reapers

\* Outside a purge there is nothing to show.
LEMMA NotPurging ==
    ASSUME PurgeInv, mu # "purge", todo'["purge"] = todo["purge"], cur'["purge"] = cur["purge"]
    PROVE  PurgeInv'
  BY DEF PurgeInv, Purging, Purged

\* Meanwhile rows only disappear.
LEMMA PurgeGoesOn ==
    ASSUME IInv, PurgeInv, Purging' => Purging /\ mu' = mu,
           \A k \in Keys : Purged(k)' => Purged(k),
           \A k \in Keys : rows'[k] = rows[k] \/ rows'[k] = Nil
    PROVE  PurgeInv'
  BY DEF PurgeInv, IsTrashed

LEMMA NextPurge == IInv /\ PurgeInv /\ [Next]_vars => PurgeInv'
  <1> SUFFICES ASSUME IInv, PurgeInv, [Next]_vars PROVE PurgeInv'
    OBVIOUS
  <1> USE DEF reapVars, storeVars, daemonVars
  <1>0. todo \in [Reapers -> SUBSET (Keys \X ObjIds)] /\ cur \in [Reapers -> Keys \cup {Nil}]
        /\ rows \in [Keys -> Row \cup {Nil}]
    BY DEF IInv, TypeOK, ReapType, StoreType
  <1>1. CASE PassStep
    BY <1>1, PassHolds, NotPurging
  <1>2. CASE RestoreStep
    BY <1>2, NotPurging DEF IInv, MutexInv, RestoreStep, RestoreUpsert, RestoreMove, RestoreFail
  <1>3. CASE UserStep
    <2>1. CASE PurgeStart
      <3>1. PICK ids \in {ListTrashed(rows)} \cup {{k} : k \in ListTrashed(rows)} :
              todo' = [todo EXCEPT !["purge"] = Entries(ids)]
        BY <2>1 DEF PurgeStart
      <3>2. mu' = "purge" /\ UNCHANGED <<cur, rows>> /\ todo'["purge"] = Entries(ids)
        BY <2>1, <3>1, <1>0 DEF PurgeStart, Reapers
      <3>3. cur["purge"] = Nil
        BY <2>1 DEF PurgeStart, PurgeInv, Purging
      <3>4. ids \subseteq ListTrashed(rows)
        OBVIOUS
      <3> QED BY <3>2, <3>3, <3>4 DEF PurgeInv, Purged, Entries, ListTrashed
    <2>2. ASSUME NEW p \in Paths, UserWrite(p) \/ UserDelete(p) PROVE PurgeInv'
      BY <2>2, PurgeGoesOn DEF UserWrite, UserDelete, Purging, Purged
    <2>3. ASSUME NEW k \in Keys, RestoreDownload(k) PROVE PurgeInv'
      BY <2>3, NotPurging DEF RestoreDownload
    <2> QED BY <1>3, <2>1, <2>2, <2>3 DEF UserStep
  <1>4. CASE CloudStep \/ Tick
    BY <1>4, PurgeGoesOn DEF CloudStep, CloudDelete, CloudTamper, CloudStray, CloudChange, Tick, Purging, Purged
  <1>5. CASE Crash
    BY <1>5 DEF Crash, PurgeInv, Purging, Purged, Reapers
  <1>6. CASE SweepStart
    BY <1>0, <1>6, PurgeGoesOn DEF SweepStart, Purging, Purged, Reapers
  <1>7. ASSUME NEW w \in Reapers, Reap(w) PROVE PurgeInv'
    <2>1. PICK e \in todo[w] : /\ todo' = [todo EXCEPT ![w] = @ \ {e}]
                               /\ cur' = [cur EXCEPT ![w] = e[1]]
      BY <1>7 DEF Reap
    <2>2. cur[w] = Nil /\ UNCHANGED <<mu, rows>>
      BY <1>7 DEF Reap
    <2>3. CASE w = "purge"
      <3>1. e \in Keys \X ObjIds /\ e = <<e[1], e[2]>>
        BY <1>0, <2>1
      <3>2. todo'["purge"] = todo["purge"] \ {e} /\ cur'["purge"] = e[1]
        BY <1>0, <2>1, <2>3 DEF Reapers
      <3>3. \A k \in Keys : Purged(k)' => Purged(k)
        BY <2>1, <2>3, <3>1, <3>2 DEF Purged
      <3> QED BY <2>1, <2>2, <2>3, <3>3, PurgeGoesOn DEF Purging
    <2>4. CASE w # "purge"
      <3>1. todo'["purge"] = todo["purge"] /\ cur'["purge"] = cur["purge"]
        BY <1>0, <2>1, <2>4 DEF Reapers
      <3> QED BY <2>2, <3>1, PurgeGoesOn DEF Purging, Purged
    <2> QED BY <2>3, <2>4
  <1>8. ASSUME NEW w \in Reapers, ReapFail(w) PROVE PurgeInv'
    BY <1>0, <1>8, PurgeGoesOn DEF ReapFail, Purging, Purged, Reapers
  <1>9. ASSUME NEW w \in Reapers, DropRow(w) PROVE PurgeInv'
    BY <1>0, <1>9, PurgeGoesOn DEF DropRow, DeleteFileRow, Purging, Purged, Reapers
  <1>10. CASE PurgeEnd
    BY <1>10 DEF PurgeEnd, PurgeInv, Purging, Purged
  <1>11. CASE UNCHANGED vars
    BY <1>11 DEF vars, PurgeInv, Purging, Purged
  <1> QED
    BY <1>1, <1>2, <1>3, <1>4, <1>5, <1>6, <1>7, <1>8, <1>9, <1>10, <1>11
    DEF Next, SweepStep, PurgeStep, ReapStep, Reapers

\* Outside a loss of the database, rows are dropped by sweeps and purges only.
LEMMA WhoDrops ==
    ASSUME IInv, [Next]_vars, faults' = faults, NEW k \in Keys, rows[k] # Nil, rows'[k] = Nil
    PROVE  \E w \in Reapers : cur[w] # Nil /\ k = cur[w]
  <1>1. ASSUME NEW p \in Paths, UploadRecord(p) \/ Adopt(p) PROVE FALSE
    BY <1>1, RowOfTask, RecordsAssumption
  <1>2. ASSUME NEW p \in Paths, TrashMark(p) PROVE FALSE
    <2>1. rows[k] \in Row
      BY StepTypes
    <2>2. [rows[k] EXCEPT !.status = "TRASHED", !.deletedAt = now] \in Row
      BY <2>1, StepTypes DEF Row, Statuses
    <2> QED BY <1>2, <2>2, RowOfTrash, RecordsAssumption
  <1>3. CASE RestoreUpsert
    BY <1>3, RowOfRestore, RecordsAssumption
  <1>4. CASE Crash
    BY <1>4, StepTypes DEF Crash, IInv, TypeOK, EnvType
  <1>5. ASSUME NEW w \in Reapers, DropRow(w) PROVE cur[w] # Nil /\ k = cur[w]
    BY <1>5, StepTypes DEF DropRow, DeleteFileRow
  <1> QED BY <1>1, <1>2, <1>3, <1>4, <1>5, WhoWritesRows

\* Outside a loss of the database and the sweep, the engine forgets a file
\* only when it is in the tank: purges wait for passes and restores.
THEOREM PurgesDropTrash == Spec => OnlyTrashedRowsAreDropped
  <1> DEFINE A == \A k \in Keys : /\ rows[k] # Nil /\ rows'[k] = Nil
                                  /\ faults' = faults /\ cur["sweep"] # k
                                  => IsTrashed(rows[k])
  <1>1. IInv /\ PurgeInv /\ [Next]_vars => A
    <2> SUFFICES ASSUME IInv, PurgeInv, [Next]_vars, NEW k \in Keys, rows[k] # Nil, rows'[k] = Nil,
                        faults' = faults, cur["sweep"] # k
                 PROVE  IsTrashed(rows[k])
      OBVIOUS
    <2>1. Purged(k)
      BY WhoDrops DEF Purged, Reapers
    <2> QED BY <2>1 DEF PurgeInv
  <1>2. IInv /\ PurgeInv /\ [Next]_vars => [A]_vars
    BY <1>1
  <1> QED BY <1>2, InitPurge, NextPurge, Invariance, PTL DEF Spec, OnlyTrashedRowsAreDropped
-----------------------------------------------------------------------------
(* Every object lives the life AssetLifecycle promises.                    *)

Place == [o \in ObjIds |-> objs[o].where]
Since == [o \in ObjIds |-> objs[o].since]

\* The day of the last move into the tank is a past day.
LifeInv == \A o \in ObjIds : /\ objs[o].since <= now
                             /\ objs[o].where = "none" => objs[o].since = 0

\* A row is marked no earlier than its object went into the tank.
MarkInv == \A k \in Keys : IsTrashed(rows[k]) /\ objs[rows[k].remoteID].where = "tank"
                           => objs[rows[k].remoteID].since <= rows[k].deletedAt

\* What a sweep or a purge is about to delete stays out of the mirror, and
\* what the sweep deletes has been in the tank for the holding period.
Due(w, o) == /\ objs[o].where \notin {"none", "live"}
             /\ w = "sweep" /\ objs[o].where = "tank" => objs[o].since + HoldingDays <= now
DueInv == /\ Sweeping => rs = Nil
          /\ \A w \in Reapers : \A e \in todo[w] : Due(w, e[2])

\* What the calls to Drive do to places.
PlacesStay == UNCHANGED <<Place, Since>>
EndsAs(o, by) == Lifecycle!Go(o, {"live", "tank"}, by) /\ UNCHANGED <<Since, now>>

LEMMA CreateAppears ==
    ASSUME IInv, LifeInv, NEW r \in Nat, NEW p \in Paths, NEW c \in Contents, now' = now,
           made < MaxObjs, objs' = Create(objs, made + 1, r, p, c)
    PROVE  \E o \in ObjIds : Lifecycle!Appear(o)
  <1>1. objs \in [ObjIds -> Object] /\ made + 1 \in ObjIds
    BY BoundsAssumption DEF IInv, TypeOK, DriveType, ObjIds
  <1>2. PICK id \in ObjIds : id = made + 1
    BY <1>1
  <1>3. objs[id].where = "none" /\ objs[id].since = 0
    BY <1>2 DEF IInv, TypeOK, DriveType, ObjIds, ObjectsInv, LifeInv
  <1>4. /\ \A a \in ObjIds : a # id => objs'[a] = objs[a]
        /\ objs'[id] = [rel |-> r, path |-> p, content |-> c, where |-> "live", since |-> 0]
    BY <1>1, <1>2, CreateLemma
  <1>5. objs'[id].where = "live" /\ objs'[id].since = 0
    BY <1>4
  <1>6. Place' = [Place EXCEPT ![id] = "live"] /\ UNCHANGED Since
    BY <1>3, <1>4, <1>5 DEF Place, Since
  <1>7. Lifecycle!Appear(id)
    BY <1>3, <1>6 DEF Lifecycle!Appear, Lifecycle!Go, Place, Since
  <1> QED BY <1>7

LEMMA UpdateStays ==
    ASSUME IInv, NEW o \in ObjIds, NEW c, objs' = Update(objs, o, c)
    PROVE  PlacesStay
  <1>1. objs \in [ObjIds -> Object]
    BY DEF IInv, TypeOK, DriveType
  <1>2. \A a \in ObjIds : objs'[a].where = objs[a].where /\ objs'[a].since = objs[a].since
    BY <1>1 DEF Update, Object
  <1> QED BY <1>2 DEF PlacesStay, Place, Since

LEMMA TankQuarantines ==
    ASSUME IInv, NEW o \in ObjIds, Exists(objs[o]), objs' = MoveToTank(objs, o, now), now' = now
    PROVE  PlacesStay \/ Lifecycle!Quarantine(o)
  <1>1. objs \in [ObjIds -> Object]
    BY DEF IInv, TypeOK, DriveType
  <1>2. /\ objs'[o].where = "tank" /\ \A a \in ObjIds : a # o => objs'[a] = objs[a]
        /\ objs'[o].since = IF objs[o].where = "tank" THEN objs[o].since ELSE now
    BY <1>1 DEF MoveToTank, Object
  <1>3. CASE objs[o].where = "tank"
    BY <1>2, <1>3 DEF PlacesStay, Place, Since
  <1>4. CASE objs[o].where = "live"
    <2>1. Place' = [Place EXCEPT ![o] = "tank"] /\ Since' = [Since EXCEPT ![o] = now]
      BY <1>2, <1>4 DEF Place, Since
    <2> QED BY <1>4, <2>1 DEF Lifecycle!Quarantine, Lifecycle!Go, Place, Since
  <1> QED BY <1>3, <1>4 DEF Exists

LEMMA DeleteEnds ==
    ASSUME IInv, NEW o \in ObjIds, NEW by \in {"removed", "reaped", "purged"},
           objs' = PermanentDelete(objs, o, by), now' = now
    PROVE  PlacesStay \/ EndsAs(o, by)
  <1>1. objs \in [ObjIds -> Object]
    BY DEF IInv, TypeOK, DriveType
  <1>2. CASE ~Exists(objs[o])
    BY <1>2 DEF PermanentDelete, PlacesStay, Place, Since
  <1>3. CASE Exists(objs[o])
    <2>1. /\ objs'[o].where = by /\ objs'[o].since = objs[o].since
          /\ \A a \in ObjIds : a # o => objs'[a] = objs[a]
      BY <1>1, <1>3 DEF PermanentDelete, Object
    <2>2. Place' = [Place EXCEPT ![o] = by] /\ UNCHANGED Since
      BY <2>1 DEF Place, Since
    <2> QED BY <1>3, <2>2 DEF EndsAs, Exists, Lifecycle!Go, Place
  <1> QED BY <1>2, <1>3

\* A task's transfer creates an object or updates one in place.
LEMMA UploadMoves ==
    ASSUME IInv, LifeInv, NEW p \in Paths, UploadSend(p) \/ UploadLost(p)
    PROVE  PlacesStay \/ \E o \in ObjIds : Lifecycle!Appear(o)
  <1>1. PICK o \in ObjIds : UploadTo(p, o)
    BY DEF UploadSend, UploadLost
  <1>2. task[p] \in Task /\ local[p] \in LocalFile /\ now' = now
    BY <1>1, StepTypes DEF UploadSend, UploadLost, Executing, UploadTo, envVars
  <1>3. CASE task[p].remote = Nil
    <2>1. made < MaxObjs /\ objs' = Create(objs, made + 1, task[p].rel, p, local[p].content)
      BY <1>1, <1>3 DEF UploadTo
    <2>2. task[p].rel \in Nat /\ local[p].content \in Contents
      BY <1>2 DEF Task, Rels, LocalFile
    <2> QED BY <1>2, <2>1, <2>2, CreateAppears
  <1>4. CASE task[p].remote # Nil
    BY <1>1, <1>4, UpdateStays DEF UploadTo
  <1> QED BY <1>3, <1>4

\* All that a step can do to the places of objects.
LEMMA ObjectsMove ==
    ASSUME IInv, LifeInv, [Next]_vars
    PROVE  \/ PlacesStay
           \/ \E o \in ObjIds : Lifecycle!Appear(o) \/ Lifecycle!Quarantine(o) \/ EndsAs(o, "removed")
           \/ RestoreMove /\ rs.obj \in ObjIds /\ Lifecycle!Recover(rs.obj)
           \/ \E e \in todo["sweep"] : EndsAs(e[2], "reaped")
           \/ \E e \in todo["purge"] : EndsAs(e[2], "purged")
  <1>1. ASSUME NEW p \in Paths, TaskStep(p)
        PROVE  \/ PlacesStay
               \/ \E o \in ObjIds : Lifecycle!Appear(o) \/ Lifecycle!Quarantine(o)
    <2>1. CASE UploadRecord(p) \/ Adopt(p) \/ TrashMark(p) \/ TaskError(p) \/ TaskFail(p)
      BY <2>1 DEF UploadRecord, Adopt, TrashMark, TaskError, TaskFail, driveVars, PlacesStay, Place, Since
    <2>2. CASE TrashMove(p)
      <3> DEFINE row == rows[<<task[p].rel, p>>]
      <3>1. row \in Row \cup {Nil}
        BY <2>2, StepTypes DEF TrashMove, Executing, Task, Keys
      <3>2. \/ UNCHANGED objs
            \/ row # Nil /\ Exists(objs[row.remoteID]) /\ objs' = MoveToTank(objs, row.remoteID, now)
        BY <2>2 DEF TrashMove, FileID
      <3>3. now' = now
        BY <2>2 DEF TrashMove, envVars
      <3>4. row # Nil => row.remoteID \in ObjIds
        BY <3>1 DEF Row
      <3> HIDE DEF row
      <3>5. CASE UNCHANGED objs
        BY <3>5 DEF PlacesStay, Place, Since
      <3> QED BY <3>2, <3>3, <3>4, <3>5, TankQuarantines
    <2> QED BY <1>1, <2>1, <2>2, UploadMoves DEF TaskStep
  <1>2. ASSUME NEW o \in ObjIds, Dedupe(o) PROVE PlacesStay \/ Lifecycle!Quarantine(o)
    <2>1. CASE UNCHANGED objs
      BY <2>1 DEF PlacesStay, Place, Since
    <2> QED BY <1>2, <2>1, TankQuarantines DEF Dedupe
  <1>3. CASE PassStep
    <2>1. CASE BeginPass \/ ListRemote \/ LoadBase \/ AbortPass \/ StartExec \/ EndPass \/ BuildStep
      <3>1. UNCHANGED objs
        BY <2>1 DEF BeginPass, ListRemote, LoadBase, AbortPass, StartExec, EndPass, ReturnFromPass,
           BuildStep, BuildOwned, BuildNew, Built, driveVars
      <3> QED BY <3>1 DEF PlacesStay, Place, Since
    <2> QED BY <1>1, <1>2, <1>3, <2>1 DEF PassStep, PoolStep
  <1>4. ASSUME NEW w \in Reapers, ReapStep(w)
        PROVE  PlacesStay \/ \E e \in todo[w] : EndsAs(e[2], IF w = "sweep" THEN "reaped" ELSE "purged")
    <2>1. CASE ReapFail(w) \/ DropRow(w)
      BY <2>1 DEF ReapFail, DropRow, driveVars, PlacesStay, Place, Since
    <2>2. CASE Reap(w)
      <3>1. PICK e \in todo[w] : objs' = PermanentDelete(objs, e[2], IF w = "sweep" THEN "reaped" ELSE "purged")
        BY <2>2 DEF Reap
      <3>2. e[2] \in ObjIds /\ now' = now
        BY <2>2, <3>1, StepTypes DEF Reap, envVars
      <3> DEFINE by == IF w = "sweep" THEN "reaped" ELSE "purged"
      <3>3. by \in {"removed", "reaped", "purged"} /\ objs' = PermanentDelete(objs, e[2], by)
        BY <3>1
      <3> HIDE DEF by
      <3>4. PlacesStay \/ EndsAs(e[2], by)
        BY <3>2, <3>3, DeleteEnds
      <3> QED BY <3>1, <3>4 DEF by
    <2> QED BY <1>4, <2>1, <2>2 DEF ReapStep
  <1>5. CASE SweepStep \/ PurgeStep
    <2>1. CASE SweepStart \/ PurgeEnd
      BY <2>1 DEF SweepStart, PurgeEnd, driveVars, PlacesStay, Place, Since
    <2>2. ReapStep("sweep") => PlacesStay \/ \E e \in todo["sweep"] : EndsAs(e[2], "reaped")
      BY <1>4 DEF Reapers
    <2>3. ReapStep("purge") => PlacesStay \/ \E e \in todo["purge"] : EndsAs(e[2], "purged")
      BY <1>4 DEF Reapers
    <2> QED BY <1>5, <2>1, <2>2, <2>3 DEF SweepStep, PurgeStep
  <1>6. CASE RestoreStep
    <2>1. CASE RestoreUpsert \/ RestoreFail
      BY <2>1 DEF RestoreUpsert, RestoreFail, driveVars, PlacesStay, Place, Since
    <2>2. CASE RestoreMove
      <3>1. rs.obj \in ObjIds /\ now' = now /\ objs \in [ObjIds -> Object]
        BY <2>2, StepTypes DEF RestoreMove, Restoring, envVars
      <3>2. CASE ~Exists(objs[rs.obj])
        BY <2>2, <3>2 DEF RestoreMove, PlacesStay, Place, Since
      <3>3. CASE Exists(objs[rs.obj])
        <4>1. /\ objs'[rs.obj].where = "live" /\ objs'[rs.obj].since = objs[rs.obj].since
              /\ \A a \in ObjIds : a # rs.obj => objs'[a] = objs[a]
          BY <2>2, <3>1, <3>3 DEF RestoreMove, MoveToContainer, Object
        <4>2. Place' = [Place EXCEPT ![rs.obj] = "live"] /\ UNCHANGED Since
          BY <3>1, <4>1 DEF Place, Since
        <4>3. CASE objs[rs.obj].where = "tank"
          BY <2>2, <3>1, <4>2, <4>3 DEF Lifecycle!Recover, Lifecycle!Go, Place, Since
        <4>4. CASE objs[rs.obj].where = "live"
          BY <3>1, <4>2, <4>4 DEF PlacesStay, Place
        <4> QED BY <3>3, <4>3, <4>4 DEF Exists
      <3> QED BY <3>2, <3>3
    <2> QED BY <1>6, <2>1, <2>2 DEF RestoreStep
  <1>7. CASE UserStep \/ Tick \/ Crash \/ UNCHANGED vars
    <2>1. UNCHANGED objs
      BY <1>7 DEF UserStep, UserWrite, UserDelete, PurgeStart, RestoreDownload, Tick, Crash, driveVars, vars
    <2> QED BY <2>1 DEF PlacesStay, Place, Since
  <1>8. CASE CloudStep
    <2>1. ASSUME NEW o \in ObjIds, CloudDelete(o) PROVE PlacesStay \/ EndsAs(o, "removed")
      BY <2>1, DeleteEnds DEF CloudDelete, CloudChange
    <2>2. ASSUME NEW o \in ObjIds, CloudTamper(o) PROVE PlacesStay
      BY <2>2, UpdateStays DEF CloudTamper
    <2>3. ASSUME NEW k \in Keys, CloudStray(k) PROVE \E o \in ObjIds : Lifecycle!Appear(o)
      <3>1. PICK c \in Contents : objs' = Create(objs, made + 1, k[1], k[2], c)
        BY <2>3 DEF CloudStray
      <3>2. k[1] \in Nat /\ k[2] \in Paths /\ now' = now /\ made < MaxObjs
        BY <2>3 DEF CloudStray, CloudChange, Keys, Rels
      <3> QED BY <3>1, <3>2, CreateAppears
    <2> QED BY <1>8, <2>1, <2>2, <2>3 DEF CloudStep
  <1> QED BY <1>1, <1>3, <1>5, <1>6, <1>7, <1>8 DEF Next

\* What this means for each object.
LEMMA PlacesAfter ==
    ASSUME IInv, LifeInv, [Next]_vars
    PROVE  /\ now' = now \/ (now' = now + 1 /\ UNCHANGED objs)
           /\ \A o \in ObjIds :
                /\ objs'[o].where = "none" => objs[o].where = "none" /\ objs'[o].since = objs[o].since
                /\ objs'[o].where = "tank" =>
                      \/ objs[o].where = "tank" /\ objs'[o].since = objs[o].since
                      \/ objs[o].where = "live"
                /\ objs'[o].since \in {objs[o].since, now}
                /\ objs[o].where \notin {"none", "live"} /\ objs'[o].where \in {"none", "live"}
                      => rs # Nil
  <1>1. now' = now \/ (now' = now + 1 /\ UNCHANGED objs)
    <2> USE DEF envVars
    <2>1. CASE PassStep
      BY <2>1 DEF PassStep, BeginPass, ListRemote, LoadBase, AbortPass, StartExec, EndPass, ReturnFromPass,
         BuildStep, BuildOwned, BuildNew, Built, PoolStep, TaskStep, UploadSend, UploadLost, UploadRecord,
         Adopt, TrashMove, TrashMark, TaskError, TaskFail, Dedupe
    <2>2. CASE SweepStep \/ PurgeStep \/ RestoreStep
      BY <2>2 DEF SweepStep, PurgeStep, ReapStep, SweepStart, Reap, ReapFail, DropRow, PurgeEnd,
         RestoreStep, RestoreUpsert, RestoreMove, RestoreFail
    <2>3. CASE UserStep \/ CloudStep \/ Tick \/ Crash
      BY <2>3 DEF UserStep, UserWrite, UserDelete, PurgeStart, RestoreDownload, CloudStep, CloudDelete,
         CloudTamper, CloudStray, CloudChange, Tick, Crash, driveVars
    <2>4. CASE UNCHANGED vars
      BY <2>4 DEF vars
    <2> QED BY <2>1, <2>2, <2>3, <2>4 DEF Next
  <1> SUFFICES ASSUME NEW o \in ObjIds
      PROVE  /\ objs'[o].where = "none" => objs[o].where = "none" /\ objs'[o].since = objs[o].since
             /\ objs'[o].where = "tank" =>
                   \/ objs[o].where = "tank" /\ objs'[o].since = objs[o].since
                   \/ objs[o].where = "live"
             /\ objs'[o].since \in {objs[o].since, now}
             /\ objs[o].where \notin {"none", "live"} /\ objs'[o].where \in {"none", "live"} => rs # Nil
    BY <1>1
  <1>2. /\ Place[o] = objs[o].where /\ Since[o] = objs[o].since
        /\ Place'[o] = objs'[o].where /\ Since'[o] = objs'[o].since
    BY DEF Place, Since
  <1>3. CASE PlacesStay
    BY <1>2, <1>3 DEF PlacesStay
  <1>4. ASSUME NEW a \in ObjIds, Lifecycle!Appear(a) \/ Lifecycle!Quarantine(a) \/ EndsAs(a, "removed")
        PROVE  /\ Place[o] # Place'[o] => Place[o] \in {"none", "live", "tank"} /\ Place'[o] # "none"
               /\ Place'[o] = "live" => Place[o] \in {"none", "live"}
               /\ Place'[o] = "tank" => Place[o] = "live" \/ (Place[o] = "tank" /\ Since'[o] = Since[o])
               /\ Since'[o] = Since[o] \/ (Place'[o] = "tank" /\ Since'[o] = now)
    BY <1>4 DEF Lifecycle!Appear, Lifecycle!Quarantine, EndsAs, Lifecycle!Go, Place, Since
  <1>5. ASSUME RestoreMove, rs.obj \in ObjIds, Lifecycle!Recover(rs.obj)
        PROVE  rs # Nil /\ Since'[o] = Since[o] /\ (Place'[o] # "live" => Place'[o] = Place[o])
    BY <1>5 DEF RestoreMove, Lifecycle!Recover, Lifecycle!Go, Place, Since
  <1>6. ASSUME NEW a \in ObjIds, EndsAs(a, "reaped") \/ EndsAs(a, "purged")
        PROVE  Since'[o] = Since[o] /\ (Place'[o] \notin {"reaped", "purged"} => Place'[o] = Place[o])
    BY <1>6 DEF EndsAs, Lifecycle!Go, Place, Since
  <1>7. \A w \in Reapers : \A e \in todo[w] : e[2] \in ObjIds
    BY StepTypes
  <1> QED BY <1>2, <1>3, <1>4, <1>5, <1>6, <1>7, ObjectsMove DEF Reapers

LEMMA NextLife == ASSUME IInv, LifeInv, [Next]_vars PROVE LifeInv'
  <1>1. now \in Nat /\ \A o \in ObjIds : objs[o].since \in Nat
    BY StepTypes DEF Object
  <1>2. now' = now \/ now' = now + 1
    BY PlacesAfter
  <1> QED BY <1>1, <1>2, PlacesAfter DEF LifeInv

\* A row becomes TRASHED by the second half of trash.
LEMMA WhoTrashes ==
    ASSUME IInv, [Next]_vars, NEW k \in Keys, IsTrashed(rows'[k]), rows'[k] # rows[k]
    PROVE  /\ rows'[k].deletedAt = now /\ UNCHANGED <<objs, now>>
           /\ task[k[2]] # Nil /\ task[k[2]].act = "TRASH" /\ task[k[2]].phase = "sent"
  <1>1. ASSUME NEW p \in Paths, UploadRecord(p) \/ Adopt(p) PROVE FALSE
    <2>1. PICK status \in {"SYNCED", "CONFLICT"} : rows'[<<task[p].rel, p>>] = Recorded(p, status)
      BY <1>1, RowOfTask
    <2>2. Recorded(p, status).status = status
      BY DEF Recorded
    <2> QED BY <1>1, <2>1, <2>2, RowOfTask DEF IsTrashed
  <1>2. ASSUME NEW p \in Paths, TrashMark(p)
        PROVE  /\ rows'[k].deletedAt = now /\ UNCHANGED <<objs, now>>
               /\ task[k[2]] # Nil /\ task[k[2]].act = "TRASH" /\ task[k[2]].phase = "sent"
    <2>1. k = <<task[p].rel, p>> /\ rows[k] # Nil
          /\ rows'[k] = [rows[k] EXCEPT !.status = "TRASHED", !.deletedAt = now]
      BY <1>2, RowOfTrash DEF IsTrashed
    <2>2. rows[k] \in Row
      BY <2>1, StepTypes
    <2>3. rows'[k].deletedAt = now
      BY <2>1, <2>2 DEF Row
    <2> QED BY <1>2, <2>1, <2>3 DEF TrashMark, Executing, driveVars, envVars
  <1>3. CASE RestoreUpsert
    BY <1>3, RowOfRestore DEF IsTrashed
  <1>4. ASSUME NEW w \in Reapers, DropRow(w) PROVE FALSE
    BY <1>4, StepTypes DEF DropRow, DeleteFileRow, IsTrashed
  <1>5. CASE Crash
    BY <1>5 DEF Crash, storeVars, NoRows, IsTrashed
  <1> QED BY <1>1, <1>2, <1>3, <1>4, <1>5, WhoWritesRows

LEMMA NextMark == ASSUME IInv, LifeInv, MarkInv, [Next]_vars PROVE MarkInv'
  <1> SUFFICES ASSUME NEW k \in Keys, IsTrashed(rows'[k]), objs'[rows'[k].remoteID].where = "tank"
               PROVE  objs'[rows'[k].remoteID].since <= rows'[k].deletedAt
    BY DEF MarkInv
  <1>1. rows' \in [Keys -> Row \cup {Nil}]
    BY NextInv DEF IInv, TypeOK, StoreType
  <1>2. rows'[k] \in Row /\ rows'[k].remoteID \in ObjIds
    BY <1>1 DEF IsTrashed, Row
  <1>3. CASE rows'[k] = rows[k]
    <2>1. IsTrashed(rows[k]) /\ objs[rows[k].remoteID].where # "live"
      BY <1>3 DEF IInv, TankRowsPointIntoTank
    <2>2. objs[rows[k].remoteID].where = "tank" /\ objs'[rows[k].remoteID].since = objs[rows[k].remoteID].since
      BY <1>2, <1>3, <2>1, PlacesAfter
    <2> QED BY <1>3, <2>1, <2>2 DEF MarkInv
  <1>4. CASE rows'[k] # rows[k]
    BY <1>2, <1>4, WhoTrashes DEF LifeInv
  <1> QED BY <1>3, <1>4

\* Who starts, drives and ends sweeps, purges and restores.
LEMMA WhoReaps ==
    ASSUME IInv, [Next]_vars
    PROVE  \/ UNCHANGED <<todo, cur, rs>>
           \/ SweepStart \/ PurgeStart \/ RestoreUpsert \/ RestoreMove \/ RestoreFail
           \/ \E k \in Keys : RestoreDownload(k)
           \/ \E w \in Reapers : Reap(w) \/ ReapFail(w) \/ DropRow(w)
           \/ Crash
  <1>1. CASE PassStep
    BY <1>1, PassHolds
  <1>2. CASE PurgeStep \/ SweepStep
    BY <1>2 DEF SweepStep, PurgeStep, ReapStep, PurgeEnd, reapVars, Reapers
  <1>3. CASE UserStep
    BY <1>3 DEF UserStep, UserWrite, UserDelete, daemonVars
  <1>4. CASE CloudStep \/ Tick \/ UNCHANGED vars
    BY <1>4 DEF CloudStep, CloudDelete, CloudTamper, CloudStray, CloudChange, Tick, daemonVars, vars
  <1>5. CASE RestoreStep
    BY <1>5 DEF RestoreStep
  <1> QED BY <1>1, <1>2, <1>3, <1>4, <1>5 DEF Next

\* Unless the instance lets them, sweeps and restores do not overlap.
LEMMA SweepsApart ==
    ASSUME IInv, Sweeping => rs = Nil, ~May("restoreinsweep"), [Next]_vars
    PROVE  Sweeping' => rs' = Nil
  <1> USE StepTypes DEF reapVars
  <1>1. CASE SweepStart \/ PurgeStart
    BY <1>1 DEF SweepStart, PurgeStart, Sweeping, Reapers
  <1>2. CASE RestoreUpsert \/ RestoreMove \/ RestoreFail \/ UNCHANGED <<todo, cur, rs>>
    BY <1>2 DEF RestoreUpsert, RestoreMove, RestoreFail, Sweeping
  <1>3. ASSUME NEW k \in Keys, RestoreDownload(k) PROVE Sweeping' => rs' = Nil
    BY <1>3 DEF RestoreDownload, Sweeping
  <1>4. ASSUME NEW w \in Reapers, Reap(w) \/ ReapFail(w) \/ DropRow(w) PROVE Sweeping' => rs' = Nil
    BY <1>4 DEF Reap, ReapFail, DropRow, Sweeping, Reapers
  <1>5. CASE Crash
    BY <1>5 DEF Crash
  <1> QED BY <1>1, <1>2, <1>3, <1>4, <1>5, WhoReaps

\* A sweep and a purge start with TRASHED rows, the sweep with expired ones.
LEMMA WhoFillsTodo ==
    ASSUME IInv, [Next]_vars, NEW w \in Reapers, NEW e \in todo'[w], e \notin todo[w]
    PROVE  /\ UNCHANGED <<objs, now>>
           /\ e[1] \in Keys /\ IsTrashed(rows[e[1]]) /\ e[2] = rows[e[1]].remoteID
           /\ w = "sweep" => rows[e[1]].deletedAt + HoldingDays <= now
  <1> USE StepTypes DEF reapVars
  <1>1. CASE SweepStart
    <2>1. w = "sweep" /\ e \in Entries(TrashedBefore(rows, now))
      BY <1>1 DEF SweepStart, Reapers
    <2>2. PICK k \in TrashedBefore(rows, now) : e = <<k, rows[k].remoteID>>
      BY <2>1 DEF Entries
    <2>3. k \in Keys /\ IsTrashed(rows[k]) /\ ~(rows[k].deletedAt + HoldingDays > now)
      BY DEF TrashedBefore, ListTrashed
    <2>4. rows[k].deletedAt \in Nat
      BY <2>3 DEF IsTrashed, Row
    <2> QED BY <1>1, <2>2, <2>3, <2>4, HoldingAssumption DEF SweepStart, driveVars, envVars
  <1>2. CASE PurgeStart
    <2>1. PICK ids \in {ListTrashed(rows)} \cup {{k} : k \in ListTrashed(rows)} :
            todo' = [todo EXCEPT !["purge"] = Entries(ids)]
      BY <1>2 DEF PurgeStart
    <2>2. w = "purge" /\ e \in Entries(ids)
      BY <2>1 DEF Reapers
    <2>3. PICK k \in ids : e = <<k, rows[k].remoteID>>
      BY <2>2 DEF Entries
    <2>4. k \in Keys /\ IsTrashed(rows[k])
      BY <2>1, <2>3 DEF ListTrashed
    <2> QED BY <1>2, <2>2, <2>3, <2>4 DEF PurgeStart, driveVars, envVars
  <1>3. CASE RestoreUpsert \/ RestoreMove \/ RestoreFail \/ UNCHANGED <<todo, cur, rs>>
    BY <1>3 DEF RestoreUpsert, RestoreMove, RestoreFail
  <1>4. ASSUME NEW k \in Keys, RestoreDownload(k) PROVE FALSE
    BY <1>4 DEF RestoreDownload
  <1>5. ASSUME NEW v \in Reapers, Reap(v) \/ ReapFail(v) \/ DropRow(v) PROVE FALSE
    BY <1>5 DEF Reap, ReapFail, DropRow, Reapers
  <1>6. CASE Crash
    BY <1>6 DEF Crash
  <1> QED BY <1>1, <1>2, <1>3, <1>4, <1>5, <1>6, WhoReaps

LEMMA NextDue ==
    ASSUME IInv, PurgeInv, LifeInv, MarkInv, DueInv, ~May("restoreinsweep"), [Next]_vars
    PROVE  DueInv'
  <1>1. Sweeping' => rs' = Nil
    BY SweepsApart DEF DueInv
  <1>2. ASSUME NEW w \in Reapers, NEW e \in todo'[w] PROVE Due(w, e[2])'
    <2>1. CASE e \in todo[w]
      <3>1. rs = Nil
        BY <2>1 DEF DueInv, PurgeInv, Sweeping, Purging, IInv, MutexInv, Reapers
      <3>2. e[2] \in ObjIds /\ Due(w, e[2]) /\ objs[e[2]].since \in Nat /\ now \in Nat
        BY <2>1, StepTypes DEF DueInv, Object
      <3>3. objs'[e[2]].where \notin {"none", "live"}
        BY <3>1, <3>2, PlacesAfter DEF Due
      <3>4. objs'[e[2]].where = "tank" => objs[e[2]].where = "tank" /\ objs'[e[2]].since = objs[e[2]].since
        BY <3>2, PlacesAfter DEF Due
      <3>5. now' \in Nat /\ now' >= now
        BY <3>2, PlacesAfter
      <3> QED BY <3>2, <3>3, <3>4, <3>5, HoldingAssumption DEF Due
    <2>2. CASE e \notin todo[w]
      <3>1. /\ UNCHANGED <<objs, now>>
            /\ e[1] \in Keys /\ IsTrashed(rows[e[1]]) /\ e[2] = rows[e[1]].remoteID
            /\ w = "sweep" => rows[e[1]].deletedAt + HoldingDays <= now
        BY <2>2, <1>2, WhoFillsTodo
      <3>2. objs[e[2]].where \notin {"none", "live"}
        BY <3>1 DEF IInv, RowsOwnTheirObjects, TankRowsPointIntoTank, IsTrashed
      <3>3. objs[e[2]].where = "tank" => objs[e[2]].since <= rows[e[1]].deletedAt
        BY <3>1 DEF MarkInv
      <3>4. rows[e[1]] \in Row /\ e[2] \in ObjIds /\ now \in Nat
        BY <3>1, StepTypes DEF IsTrashed, Row
      <3>5. rows[e[1]].deletedAt \in Nat /\ objs[e[2]].since \in Nat
        BY <3>4, StepTypes DEF Row, Object
      <3> QED BY <3>1, <3>2, <3>3, <3>4, <3>5, HoldingAssumption DEF Due
    <2> QED BY <2>1, <2>2
  <1> QED BY <1>1, <1>2 DEF DueInv

LEMMA InitLifecycle == Init => LifeInv /\ MarkInv /\ DueInv /\ Lifecycle!Init
  BY DEF Init, Unused, NoRows, LifeInv, MarkInv, IsTrashed, DueInv, Sweeping, Reapers, Lifecycle!Init

\* Every step moves one object as AssetLifecycle allows, or none.
LEMMA NextLifecycle ==
    ASSUME IInv, LifeInv, DueInv, [Next]_vars
    PROVE  [Lifecycle!Next]_(Lifecycle!vars)
  <1>1. CASE PlacesStay
    <2>1. now' = now \/ now' = now + 1
      BY PlacesAfter
    <2> QED BY <1>1, <2>1 DEF PlacesStay, Lifecycle!Next, Lifecycle!NextDay, Lifecycle!vars, Place, Since
  <1>2. ASSUME NEW o \in ObjIds, Lifecycle!Appear(o) \/ Lifecycle!Quarantine(o) \/ EndsAs(o, "removed")
        PROVE  Lifecycle!Next
    BY <1>2 DEF EndsAs, Lifecycle!Next, Lifecycle!Vanish, Since
  <1>3. ASSUME NEW o \in ObjIds, Lifecycle!Recover(o) PROVE Lifecycle!Next
    BY <1>3 DEF Lifecycle!Next
  <1>4. ASSUME NEW e \in todo["sweep"], EndsAs(e[2], "reaped") PROVE Lifecycle!Next
    <2>1. Due("sweep", e[2]) /\ e[2] \in ObjIds
      BY StepTypes DEF DueInv, Reapers
    <2>2. PICK o \in ObjIds : o = e[2]
      BY <2>1
    <2>3. Lifecycle!Expire(o)
      BY <1>4, <2>1, <2>2 DEF EndsAs, Due, Lifecycle!Expire, Lifecycle!Go, Place, Since
    <2> QED BY <2>3 DEF Lifecycle!Next
  <1>5. ASSUME NEW e \in todo["purge"], EndsAs(e[2], "purged") PROVE Lifecycle!Next
    <2>1. Due("purge", e[2]) /\ e[2] \in ObjIds
      BY StepTypes DEF DueInv, Reapers
    <2>2. PICK o \in ObjIds : o = e[2]
      BY <2>1
    <2>3. Lifecycle!Purge(o)
      BY <1>5, <2>1, <2>2 DEF EndsAs, Due, Lifecycle!Purge, Lifecycle!Go, Place, Since
    <2> QED BY <2>3 DEF Lifecycle!Next
  <1>6. ASSUME rs.obj \in ObjIds, Lifecycle!Recover(rs.obj)
        PROVE  \E o \in ObjIds : Lifecycle!Recover(o)
    <2>1. PICK o \in ObjIds : o = rs.obj
      BY <1>6
    <2>2. Lifecycle!Recover(o)
      BY <1>6, <2>1 DEF Lifecycle!Recover, Lifecycle!Go
    <2> QED BY <2>2
  <1> QED BY <1>1, <1>2, <1>3, <1>4, <1>5, <1>6, ObjectsMove

\* Whatever passes, restores, sweeps, purges, users, the cloud and crashes do
\* at the same time, each object is moved as AssetLifecycle promises, and the
\* sweep destroys it only in the tank and after the holding period: provided
\* that no restore runs while the sweep works off its list.
THEOREM LifecycleHolds ==
    ASSUME ~May("restoreinsweep") PROVE Spec => LifecycleSpec
  <1> DEFINE L == LifeInv /\ MarkInv /\ DueInv
  <1>1. Init => L
    BY InitLifecycle
  <1>2. IInv /\ PurgeInv /\ L /\ [Next]_vars => L'
    BY NextLife, NextMark, NextDue
  <1>3. IInv /\ L /\ [Next]_vars => [Lifecycle!Next]_(Lifecycle!vars)
    BY NextLifecycle
  <1>4. Init => Lifecycle!Init
    BY InitLifecycle
  <1> HIDE DEF L
  <1> QED BY <1>1, <1>2, <1>3, <1>4, InitPurge, NextPurge, Invariance, PTL
          DEF Spec, LifecycleSpec, Lifecycle!Spec
-----------------------------------------------------------------------------
(* No edit is taken for mirrored when it is not.                           *)

\* Timestamps were handed out by the clock.
ClocksInv ==
    /\ \A p \in Paths : local[p] # Nil => local[p].mtime <= clock
    /\ \A k \in Keys : IsLive(rows[k]) => rows[k].mtime <= clock

\* A row with the timestamp of the file records its content, or names an
\* object that holds it (a restored row keeps the MD5 it was trashed with).
Stamped(k, p) == IsLive(rows[k]) /\ local[p] # Nil /\ rows[k].mtime = local[p].mtime
StampInv ==
    \A k \in Keys : Stamped(k, k[2]) =>
        \/ rows[k].md5 = local[k[2]].content
        \/ ~May("cloudtamper") /\ objs[rows[k].remoteID].content = local[k[2]].content

\* A task about to write a row knows the MD5 of the file as it is.
Sent(p) == /\ task[p] # Nil
           /\ task[p].act = "ADOPT" \/ (task[p].act \in Uploads /\ task[p].phase = "sent")
TaskStampInv == \A p \in Paths : Sent(p) /\ local[p] # Nil => task[p].md5 = local[p].content

\* So does a restore.
RestoreStampInv ==
    rs # Nil => /\ May("restore") /\ rs.step \in {"got", "owned"}
                /\ rs.step = "got" /\ local[rs.id[2]] # Nil /\ ~May("cloudtamper")
                   => objs[rs.obj].content = local[rs.id[2]].content

MirrorInv == ClocksInv /\ StampInv /\ TaskStampInv /\ RestoreStampInv

LEMMA InitMirror == Init => MirrorInv
  BY DEF Init, MirrorInv, ClocksInv, StampInv, Stamped, TaskStampInv, Sent, RestoreStampInv,
     NoRows, NoTasks, IsLive

\* The mirrored tree is written by the user and by restores.
LEMMA WhoWritesLocal ==
    ASSUME [Next]_vars
    PROVE  \/ UNCHANGED diskVars
           \/ \E p \in Paths : UserWrite(p) \/ UserDelete(p)
           \/ \E k \in Keys : RestoreDownload(k)
  <1> USE DEF diskVars
  <1>1. CASE PassStep
    <2>1. CASE BeginPass \/ ListRemote \/ LoadBase \/ AbortPass \/ StartExec \/ EndPass \/ BuildStep
      BY <2>1 DEF BeginPass, ListRemote, LoadBase, AbortPass, StartExec, EndPass, ReturnFromPass,
         BuildStep, BuildOwned, BuildNew, Built
    <2>2. CASE PoolStep
      BY <2>2 DEF PoolStep, TaskStep, UploadSend, UploadLost, UploadRecord, Adopt, TrashMove, TrashMark,
         TaskError, TaskFail, Executing, Dedupe
    <2> QED BY <1>1, <2>1, <2>2 DEF PassStep
  <1>2. CASE SweepStep \/ PurgeStep \/ RestoreStep
    BY <1>2 DEF SweepStep, PurgeStep, ReapStep, SweepStart, Reap, ReapFail, DropRow, PurgeEnd,
       RestoreStep, RestoreUpsert, RestoreMove, RestoreFail
  <1>3. CASE UserStep \/ CloudStep \/ Tick \/ Crash
    BY <1>3 DEF UserStep, PurgeStart, CloudStep, CloudDelete, CloudTamper, CloudStray, CloudChange, Tick, Crash
  <1>4. CASE UNCHANGED vars
    BY <1>4 DEF vars
  <1> QED BY <1>1, <1>2, <1>3, <1>4 DEF Next

\* A file is written with a new timestamp, and not while it is in transfer.
LEMMA LocalAfter ==
    ASSUME IInv, [Next]_vars, ~May("racyedit"), NEW p \in Paths
    PROVE  /\ clock' = clock \/ clock' = clock + 1
           /\ \/ local'[p] = local[p] \/ local'[p] = Nil
              \/ /\ local'[p].mtime = clock' /\ clock' = clock + 1
                 /\ ~InTransfer(p) /\ UNCHANGED <<task, rows, objs>>
  <1>0. local \in [Paths -> LocalFile \cup {Nil}] /\ clock \in Nat
    BY StepTypes
  <1>1. CASE UNCHANGED diskVars
    BY <1>1 DEF diskVars
  <1>2. ASSUME NEW q \in Paths, UserDelete(q) PROVE clock' = clock /\ local'[p] \in {local[p], Nil}
    BY <1>0, <1>2 DEF UserDelete
  <1>3. ASSUME NEW q \in Paths, UserWrite(q)
        PROVE  /\ clock' = clock + 1
               /\ local'[p] = local[p] \/ (local'[p].mtime = clock' /\ ~InTransfer(p) /\ UNCHANGED <<task, rows, objs>>)
    <2>1. PICK c \in Contents : local' = [local EXCEPT ![q] = [content |-> c, mtime |-> clock + 1]]
      BY <1>3 DEF UserWrite
    <2>2. clock' = clock + 1 /\ ~InTransfer(q) /\ UNCHANGED <<task, rows, objs>>
      BY <1>3 DEF UserWrite, daemonVars, driveVars, storeVars
    <2>3. p # q => local'[p] = local[p]
      BY <1>0, <2>1
    <2>4. p = q => local'[p] = [content |-> c, mtime |-> clock + 1]
      BY <1>0, <2>1
    <2> QED BY <2>2, <2>3, <2>4
  <1>4. ASSUME NEW k \in Keys, RestoreDownload(k)
        PROVE  /\ clock' = clock + 1
               /\ local'[p] = local[p] \/ (local'[p].mtime = clock' /\ ~InTransfer(p) /\ UNCHANGED <<task, rows, objs>>)
    <2>1. \E c : local' = [local EXCEPT ![k[2]] = [content |-> c, mtime |-> clock + 1]]
      BY <1>4 DEF RestoreDownload
    <2>2. clock' = clock + 1 /\ UNCHANGED <<task, rows, objs>> /\ mu = "free"
      BY <1>4 DEF RestoreDownload, poolVars, driveVars, storeVars
    <2>3. ~InTransfer(p)
      BY <2>2 DEF IInv, MutexInv, InTransfer, NoTasks
    <2>4. k[2] \in Paths
      BY DEF Keys
    <2>5. local'[p] = local[p] \/ local'[p].mtime = clock + 1
      BY <1>0, <2>1, <2>4
    <2> QED BY <2>2, <2>3, <2>5
  <1> QED BY <1>1, <1>2, <1>3, <1>4, WhoWritesLocal

\* A row becomes live, or lives on changed, when a task or a restore writes it.
LEMMA LiveRowsAfter ==
    ASSUME IInv, [Next]_vars, NEW k \in Keys, IsLive(rows'[k]), rows'[k] # rows[k]
    PROVE  /\ rows'[k] \in Row /\ UNCHANGED <<local, clock, objs>>
           /\ rows'[k].mtime = clock \/ (local[k[2]] # Nil /\ rows'[k].mtime = local[k[2]].mtime)
           /\ \/ /\ Sent(k[2]) /\ rows'[k].md5 = task[k[2]].md5 /\ task[k[2]].rel = k[1]
                 /\ rows'[k].remoteID = task[k[2]].remote /\ pc = "exec"
              \/ RestoreUpsert /\ rs # Nil /\ rs.id = k /\ rs.step = "got" /\ rows'[k].remoteID = rs.obj
  <1>1. ASSUME NEW p \in Paths, UploadRecord(p) \/ Adopt(p)
        PROVE  /\ rows'[k] \in Row /\ UNCHANGED <<local, clock, objs>>
               /\ rows'[k].mtime = clock \/ (local[k[2]] # Nil /\ rows'[k].mtime = local[k[2]].mtime)
               /\ Sent(k[2]) /\ rows'[k].md5 = task[k[2]].md5 /\ task[k[2]].rel = k[1]
               /\ rows'[k].remoteID = task[k[2]].remote /\ pc = "exec"
    <2>1. PICK status \in {"SYNCED", "CONFLICT"} :
            Recorded(p, status) \in Row /\ rows'[<<task[p].rel, p>>] = Recorded(p, status)
      BY <1>1, RowOfTask
    <2>2. k = <<task[p].rel, p>>
      BY <1>1, RowOfTask
    <2>3. /\ Recorded(p, status).md5 = task[p].md5 /\ Recorded(p, status).remoteID = task[p].remote
          /\ Recorded(p, status).mtime = IF local[p] = Nil THEN clock ELSE local[p].mtime
      BY DEF Recorded, StatNow, Stat
    <2>4. Sent(p) /\ pc = "exec" /\ UNCHANGED <<local, clock, objs>>
      BY <1>1 DEF UploadRecord, Adopt, Executing, Sent, Uploads, diskVars, driveVars
    <2> QED BY <2>1, <2>2, <2>3, <2>4
  <1>2. ASSUME NEW p \in Paths, TrashMark(p) PROVE FALSE
    <2>1. k = <<task[p].rel, p>> /\ rows[k] # Nil
          /\ rows'[k] = [rows[k] EXCEPT !.status = "TRASHED", !.deletedAt = now]
      BY <1>2, RowOfTrash DEF IsLive
    <2>2. rows[k] \in Row
      BY <2>1, StepTypes
    <2> QED BY <2>1, <2>2 DEF IsLive, Row
  <1>3. CASE RestoreUpsert
    <2>1. k = rs.id
      BY <1>3, RowOfRestore
    <2> QED BY <1>3, <2>1, RowOfRestore DEF RestoreUpsert, diskVars, driveVars
  <1>4. ASSUME NEW w \in Reapers, DropRow(w) PROVE FALSE
    BY <1>4, StepTypes DEF DropRow, DeleteFileRow, IsLive
  <1>5. CASE Crash
    BY <1>5 DEF Crash, storeVars, NoRows, IsLive
  <1> QED BY <1>1, <1>2, <1>3, <1>4, <1>5, WhoWritesRows

\* The objects are touched by tasks, the reapers, restores and the cloud.
LEMMA WhoWritesObjects ==
    ASSUME [Next]_vars
    PROVE  \/ UNCHANGED objs
           \/ \E p \in Paths : UploadSend(p) \/ UploadLost(p) \/ TrashMove(p)
           \/ \E o \in ObjIds : Dedupe(o) \/ CloudDelete(o) \/ CloudTamper(o)
           \/ \E w \in Reapers : Reap(w)
           \/ RestoreMove
           \/ \E k \in Keys : CloudStray(k)
  <1> USE DEF driveVars
  <1>1. CASE PassStep
    <2>1. CASE BeginPass \/ ListRemote \/ LoadBase \/ AbortPass \/ StartExec \/ EndPass \/ BuildStep
      BY <2>1 DEF BeginPass, ListRemote, LoadBase, AbortPass, StartExec, EndPass, ReturnFromPass,
         BuildStep, BuildOwned, BuildNew, Built
    <2>2. CASE PoolStep
      BY <2>2 DEF PoolStep, TaskStep, UploadRecord, Adopt, TrashMark, TaskError, TaskFail
    <2> QED BY <1>1, <2>1, <2>2 DEF PassStep
  <1>2. CASE SweepStep \/ PurgeStep \/ RestoreStep
    BY <1>2 DEF SweepStep, PurgeStep, ReapStep, SweepStart, ReapFail, DropRow, PurgeEnd,
       RestoreStep, RestoreUpsert, RestoreFail, Reapers
  <1>3. CASE UserStep \/ CloudStep \/ Tick \/ Crash
    BY <1>3 DEF UserStep, UserWrite, UserDelete, PurgeStart, RestoreDownload, CloudStep, Tick, Crash
  <1>4. CASE UNCHANGED vars
    BY <1>4 DEF vars
  <1> QED BY <1>1, <1>2, <1>3, <1>4 DEF Next

\* The content of an object follows the file at its path, unless the cloud's
\* users change it.
LEMMA ContentsAfter ==
    ASSUME IInv, [Next]_vars, NEW o \in ObjIds, objs[o].where # "none", ~May("cloudtamper")
    PROVE  \/ objs'[o].content = objs[o].content
           \/ /\ objs[o].path \in Paths /\ local[objs[o].path] # Nil
              /\ objs'[o].content = local[objs[o].path].content
              /\ UNCHANGED <<local, rows, rs>>
  <1>0. objs \in [ObjIds -> Object] /\ task \in [Paths -> Task \cup {Nil}]
    BY StepTypes
  <1>1. ASSUME NEW p \in Paths, UploadSend(p) \/ UploadLost(p)
        PROVE  \/ objs'[o].content = objs[o].content
               \/ /\ objs[o].path \in Paths /\ local[objs[o].path] # Nil
                  /\ objs'[o].content = local[objs[o].path].content
                  /\ UNCHANGED <<local, rows, rs>>
    <2>1. PICK a \in ObjIds : UploadTo(p, a)
      BY <1>1 DEF UploadSend, UploadLost
    <2>2. UNCHANGED <<local, rows, rs>> /\ local[p] # Nil /\ task[p] \in Task /\ task[p] # Nil
      BY <1>0, <1>1, <2>1 DEF UploadSend, UploadLost, Executing, diskVars, UploadTo
    <2>3. CASE task[p].remote = Nil
      <3>1. a # o
        BY <2>1, <2>3 DEF UploadTo, IInv, ObjectsInv, TypeOK, DriveType, ObjIds
      <3>2. objs'[o] = objs[o]
        BY <1>0, <2>1, <2>3, <3>1 DEF UploadTo, Create
      <3> QED BY <3>2
    <2>4. CASE task[p].remote # Nil
      <3>1. a = task[p].remote /\ objs' = Update(objs, a, local[p].content)
        BY <2>1, <2>4 DEF UploadTo
      <3>2. objs[a].path = p
        BY <2>2, <2>4, <3>1 DEF IInv, TaskObjectsInv, IsObjectOf, Task
      <3>3. a # o => objs'[o] = objs[o]
        BY <1>0, <3>1 DEF Update
      <3>4. a = o => objs'[o].content = local[p].content
        BY <1>0, <3>1 DEF Update, Object
      <3> QED BY <2>2, <3>2, <3>3, <3>4
    <2> QED BY <2>3, <2>4
  <1>2. ASSUME NEW a \in ObjIds, NEW d, objs' = MoveToTank(objs, a, d) PROVE objs'[o].content = objs[o].content
    BY <1>0, <1>2 DEF MoveToTank, Object
  <1>3. ASSUME NEW p \in Paths, TrashMove(p) PROVE objs'[o].content = objs[o].content
    <2>1. CASE UNCHANGED objs
      BY <2>1
    <2>2. CASE ~UNCHANGED objs
      <3> DEFINE row == rows[<<task[p].rel, p>>]
      <3>1. row # Nil /\ objs' = MoveToTank(objs, row.remoteID, now)
        BY <1>3, <2>2 DEF TrashMove, FileID
      <3>2. row \in Row \cup {Nil}
        BY <1>0, <1>3, StepTypes DEF TrashMove, Executing, Task, Keys
      <3>3. row.remoteID \in ObjIds
        BY <3>1, <3>2 DEF Row
      <3> QED BY <3>1, <3>3, <1>2
    <2> QED BY <2>1, <2>2
  <1>4. ASSUME NEW a \in ObjIds, Dedupe(a) PROVE objs'[o].content = objs[o].content
    BY <1>2, <1>4 DEF Dedupe
  <1>5. ASSUME NEW a \in ObjIds, NEW by, objs' = PermanentDelete(objs, a, by)
        PROVE  objs'[o].content = objs[o].content
    BY <1>0, <1>5 DEF PermanentDelete, Object
  <1>6. ASSUME NEW a \in ObjIds, CloudDelete(a) PROVE objs'[o].content = objs[o].content
    BY <1>5, <1>6 DEF CloudDelete
  <1>7. ASSUME NEW w \in Reapers, Reap(w) PROVE objs'[o].content = objs[o].content
    <2>1. PICK e \in todo[w] : objs' = PermanentDelete(objs, e[2], IF w = "sweep" THEN "reaped" ELSE "purged")
      BY <1>7 DEF Reap
    <2>2. e[2] \in ObjIds
      BY StepTypes
    <2> QED BY <1>5, <2>1, <2>2
  <1>8. CASE RestoreMove
    <2>1. rs.obj \in ObjIds
      BY <1>8, StepTypes DEF RestoreMove, Restoring
    <2> QED BY <1>0, <1>8, <2>1 DEF RestoreMove, MoveToContainer, Object
  <1>9. ASSUME NEW k \in Keys, CloudStray(k) PROVE objs'[o].content = objs[o].content
    <2>1. \E c : objs' = Create(objs, made + 1, k[1], k[2], c)
      BY <1>9 DEF CloudStray
    <2>2. o # made + 1
      BY DEF IInv, ObjectsInv, TypeOK, DriveType, ObjIds
    <2> QED BY <1>0, <2>1, <2>2 DEF Create
  <1>10. ASSUME NEW a \in ObjIds, CloudTamper(a) PROVE FALSE
    BY <1>10 DEF CloudTamper
  <1> QED BY <1>1, <1>3, <1>4, <1>6, <1>7, <1>8, <1>9, <1>10, WhoWritesObjects

\* An upload has just read the file when it is sent; an adoption compared it.
LEMMA SentAfter ==
    ASSUME IInv, [Next]_vars, NEW p \in Paths, Sent(p)', task'[p] # task[p], local'[p] # Nil
    PROVE  task'[p].md5 = local[p].content /\ UNCHANGED local
  <1>0. task \in [Paths -> Task \cup {Nil}]
    BY StepTypes
  <1>1. ASSUME NEW q \in Paths, TaskStep(q)
        PROVE  task'[p].md5 = local[p].content /\ UNCHANGED local
    <2>1. CASE Done(q)
      BY <1>0, <2>1 DEF Done, Sent
    <2>2. CASE TrashMove(q)
      <3>1. task[q].act = "TRASH" /\ task[q] # Nil
        BY <2>2 DEF TrashMove, Executing
      <3>2. CASE task' = [task EXCEPT ![q] = [@ EXCEPT !.phase = "sent"]]
        <4>1. p = q /\ task'[p].act = "TRASH"
          BY <1>0, <3>1, <3>2 DEF Task
        <4> QED BY <4>1 DEF Sent, Uploads
      <3> QED BY <2>1, <2>2, <3>2 DEF TrashMove
    <2>3. CASE UploadSend(q)
      <3>1. PICK o \in ObjIds : task' = [task EXCEPT ![q] = [@ EXCEPT !.remote = o, !.md5 = local[q].content,
                                                                     !.phase = "sent"]]
        BY <2>3 DEF UploadSend
      <3>2. p = q /\ task[q] \in Task /\ UNCHANGED local
        BY <1>0, <2>3, <3>1 DEF UploadSend, Executing, diskVars
      <3> QED BY <1>0, <3>1, <3>2 DEF Task
    <2> QED BY <1>1, <2>1, <2>2, <2>3 DEF TaskStep, UploadLost, UploadRecord, Adopt, TrashMark, TaskError, TaskFail
  <1>2. ASSUME NEW q \in Paths, BuildOwned(q) PROVE FALSE
    <2>1. PICK r \in Owners(q) :
            \E o \in pickRemote(Candidates(r, q), base[<<r, q>>].remoteID) :
              LET act == Merge(scan[q], RemoteState(o), base[<<r, q>>]) IN
              IF act = "NONE" THEN UNCHANGED task ELSE Queue(q, r, act, o)
      BY <1>2 DEF BuildOwned
    <2>2. PICK o : LET act == Merge(scan[q], RemoteState(o), base[<<r, q>>]) IN
                   UNCHANGED task \/ (Queue(q, r, act, o) /\ act # "NONE")
      BY <2>1
    <2> DEFINE act == Merge(scan[q], RemoteState(o), base[<<r, q>>])
    <2>3. act # "ADOPT"
      BY DEF Merge
    <2>4. Queue(q, r, act, o)
      BY <2>2
    <2> HIDE DEF act
    <2>5. p = q /\ task'[p].act = act /\ task'[p].phase = "queued"
      BY <1>0, <2>4 DEF Queue
    <2> QED BY <2>3, <2>5 DEF Sent
  <1>3. ASSUME NEW q \in Paths, BuildNew(q) PROVE task'[p].md5 = local[p].content /\ UNCHANGED local
    <2>1. UNCHANGED local
      BY <1>3 DEF BuildNew, Built, diskVars
    <2> DEFINE twins == findRemoteTwin(nrel, [r \in Rels |-> Candidates(r, q)])
    <2>2. nrel \in Rels /\ [r \in Rels |-> Candidates(r, q)] \in [Rels -> SUBSET ObjIds]
      BY DEF IInv, TypeOK, StoreType, Candidates
    <2>3. \A t \in twins : t[2] \in ObjIds
      BY <2>2, TwinIsCandidate
    <2> HIDE DEF twins
    <2>4. \/ UNCHANGED task \/ \E r : Queue(q, r, "UPLOAD", Nil)
          \/ \E t \in twins : Queue(q, t[1], "UPLOAD", t[2])
          \/ \E t \in twins : Queue(q, t[1], "ADOPT", t[2]) /\ local[q].content = listed[t[2]]
      BY <1>3 DEF BuildNew, twins
    <2>5. ASSUME NEW r, NEW o, Queue(q, r, "UPLOAD", o) PROVE FALSE
      <3>1. p = q /\ task'[p].act = "UPLOAD" /\ task'[p].phase = "queued"
        BY <1>0, <2>5 DEF Queue
      <3> QED BY <3>1 DEF Sent
    <2>6. ASSUME NEW t \in twins, Queue(q, t[1], "ADOPT", t[2]), local[q].content = listed[t[2]]
          PROVE  task'[p].md5 = local[p].content
      <3>1. p = q /\ task'[p].md5 = IF t[2] = Nil THEN Nil ELSE listed[t[2]]
        BY <1>0, <2>6 DEF Queue
      <3>2. t[2] # Nil
        BY <2>3, NilAssumption DEF ObjIds
      <3> QED BY <2>6, <3>1, <3>2
    <2> QED BY <2>1, <2>4, <2>5, <2>6
  <1>4. CASE PassStep
    <2>1. CASE BeginPass \/ ListRemote \/ LoadBase \/ AbortPass \/ StartExec \/ EndPass
      BY <2>1 DEF BeginPass, ListRemote, LoadBase, AbortPass, StartExec, EndPass, ReturnFromPass, poolVars
    <2>2. ASSUME NEW o \in ObjIds, Dedupe(o) PROVE task' = task
      BY <2>2 DEF Dedupe
    <2> QED BY <1>1, <1>2, <1>3, <1>4, <2>1, <2>2 DEF PassStep, PoolStep, BuildStep
  <1>5. CASE SweepStep \/ PurgeStep \/ RestoreStep
    BY <1>5 DEF SweepStep, PurgeStep, ReapStep, SweepStart, Reap, ReapFail, DropRow, PurgeEnd, poolVars,
       RestoreStep, RestoreUpsert, RestoreMove, RestoreFail
  <1>6. CASE UserStep \/ CloudStep \/ Tick \/ UNCHANGED vars
    BY <1>6 DEF UserStep, UserWrite, UserDelete, PurgeStart, RestoreDownload, CloudStep, CloudDelete, CloudTamper,
       CloudStray, CloudChange, Tick, daemonVars, poolVars, vars
  <1>7. CASE Crash
    BY <1>7 DEF Crash, NoTasks, Sent
  <1> QED BY <1>4, <1>5, <1>6, <1>7 DEF Next

\* A restore has read the object when it starts.
LEMMA RestoreAfter ==
    ASSUME IInv, [Next]_vars, rs' # Nil, rs' # rs
    PROVE  \/ /\ RestoreUpsert /\ rs # Nil /\ rs'.step = "owned"
              /\ rs'.id = rs.id /\ rs'.obj = rs.obj /\ UNCHANGED objs
           \/ /\ May("restore") /\ UNCHANGED objs /\ rs'.step = "got"
              /\ mu = "free" /\ IsTrashed(rows[rs'.id])
              /\ rs'.obj \in ObjIds /\ rs'.id \in Keys
              /\ local'[rs'.id[2]].content = objs[rs'.obj].content
  <1>1. CASE UNCHANGED <<todo, cur, rs>> \/ SweepStart \/ PurgeStart \/ RestoreMove \/ RestoreFail \/ Crash
    BY <1>1 DEF SweepStart, PurgeStart, RestoreMove, RestoreFail, Crash
  <1>2. ASSUME NEW w \in Reapers, Reap(w) \/ ReapFail(w) \/ DropRow(w) PROVE FALSE
    BY <1>2 DEF Reap, ReapFail, DropRow
  <1>3. CASE RestoreUpsert
    BY <1>3, StepTypes DEF RestoreUpsert, Restoring, driveVars
  <1>4. ASSUME NEW k \in Keys, RestoreDownload(k)
        PROVE  /\ May("restore") /\ UNCHANGED objs /\ rs'.step = "got"
               /\ mu = "free" /\ IsTrashed(rows[rs'.id])
               /\ rs'.obj \in ObjIds /\ rs'.id \in Keys
               /\ local'[rs'.id[2]].content = objs[rs'.obj].content
    <2>1. rows[k] \in Row /\ k[2] \in Paths /\ local \in [Paths -> LocalFile \cup {Nil}]
      BY <1>4, StepTypes DEF RestoreDownload, IsTrashed, Keys
    <2>2. rs'.id = k /\ rs'.obj = rows[k].remoteID /\ rs'.step = "got"
      BY <1>4 DEF RestoreDownload
    <2>3. local'[k[2]] = [content |-> objs[rows[k].remoteID].content, mtime |-> clock + 1]
      BY <1>4, <2>1 DEF RestoreDownload
    <2>4. rows[k].remoteID \in ObjIds
      BY <2>1 DEF Row
    <2> QED BY <1>4, <2>2, <2>3, <2>4 DEF RestoreDownload, driveVars
  <1> QED BY <1>1, <1>2, <1>3, <1>4, WhoReaps

LEMMA NextClocks == ASSUME IInv, ClocksInv, [Next]_vars, ~May("racyedit") PROVE ClocksInv'
  <1>1. ASSUME NEW p \in Paths, local'[p] # Nil PROVE local'[p].mtime <= clock'
    BY <1>1, StepTypes, LocalAfter DEF ClocksInv, LocalFile
  <1>2. ASSUME NEW k \in Keys, IsLive(rows'[k]) PROVE rows'[k].mtime <= clock'
    <2>0. k[2] \in Paths /\ clock \in Nat /\ (clock' = clock \/ clock' = clock + 1)
      BY StepTypes, LocalAfter DEF Keys
    <2>1. CASE rows'[k] = rows[k]
      <3>1. rows[k].mtime <= clock /\ rows[k].mtime \in Nat
        BY <1>2, <2>1, StepTypes DEF ClocksInv, IsLive, Row
      <3> QED BY <2>0, <2>1, <3>1
    <2>2. CASE rows'[k] # rows[k]
      <3>1. rows'[k].mtime \in Nat /\ clock' = clock
        BY <1>2, <2>2, LiveRowsAfter DEF Row
      <3>2. rows'[k].mtime = clock \/ (local[k[2]] # Nil /\ rows'[k].mtime = local[k[2]].mtime)
        BY <1>2, <2>2, LiveRowsAfter
      <3> QED BY <2>0, <3>1, <3>2 DEF ClocksInv
    <2> QED BY <2>1, <2>2
  <1> QED BY <1>1, <1>2 DEF ClocksInv

\* The row a task or a restore writes records the file as it is.
LEMMA NextStamp ==
    ASSUME IInv, MirrorInv, [Next]_vars, ~May("racyedit"), ~May("restore") \/ ~May("cloudtamper")
    PROVE  StampInv'
  <1> SUFFICES ASSUME NEW k \in Keys, Stamped(k, k[2])'
               PROVE  \/ rows'[k].md5 = local'[k[2]].content
                      \/ ~May("cloudtamper") /\ objs'[rows'[k].remoteID].content = local'[k[2]].content
    BY DEF StampInv, May
  <1>0. /\ k[2] \in Paths /\ clock \in Nat
        /\ IsLive(rows'[k]) /\ local'[k[2]] # Nil /\ rows'[k].mtime = local'[k[2]].mtime
    BY StepTypes DEF Keys, Stamped
  <1>1. CASE rows'[k] = rows[k]
    <2>1. rows[k] \in Row /\ rows[k].remoteID \in ObjIds /\ rows[k].mtime \in Nat /\ rows[k].mtime <= clock
      BY <1>0, <1>1, StepTypes DEF IsLive, Row, MirrorInv, ClocksInv
    <2>2. local'[k[2]] = local[k[2]]
      BY <1>0, <1>1, <2>1, LocalAfter
    <2>3. Stamped(k, k[2])
      BY <1>0, <1>1, <2>2 DEF Stamped
    <2>4. CASE rows[k].md5 = local[k[2]].content
      BY <1>1, <2>2, <2>4
    <2>5. CASE ~May("cloudtamper") /\ objs[rows[k].remoteID].content = local[k[2]].content
      <3>1. objs[rows[k].remoteID].path = k[2] /\ objs[rows[k].remoteID].where # "none"
        BY <1>0, <1>1 DEF IInv, RowsOwnTheirObjects, IsLive
      <3>2. objs'[rows[k].remoteID].content = local[k[2]].content
        BY <2>1, <2>5, <3>1, ContentsAfter
      <3> QED BY <1>1, <2>2, <2>5, <3>2
    <2> QED BY <2>3, <2>4, <2>5 DEF MirrorInv, StampInv
  <1>2. CASE rows'[k] # rows[k]
    <2>1. /\ UNCHANGED <<local, clock, objs>>
          /\ \/ Sent(k[2]) /\ rows'[k].md5 = task[k[2]].md5
             \/ RestoreUpsert /\ rs # Nil /\ rs.id = k /\ rs.step = "got" /\ rows'[k].remoteID = rs.obj
      BY <1>0, <1>2, LiveRowsAfter
    <2>2. Sent(k[2]) => task[k[2]].md5 = local[k[2]].content
      BY <1>0, <2>1 DEF MirrorInv, TaskStampInv
    <2>3. rs # Nil /\ rs.id = k /\ rs.step = "got"
          => ~May("cloudtamper") /\ objs[rs.obj].content = local[k[2]].content
      BY <1>0, <2>1 DEF MirrorInv, RestoreStampInv
    <2> QED BY <2>1, <2>2, <2>3
  <1> QED BY <1>1, <1>2

LEMMA NextTaskStamp ==
    ASSUME IInv, TaskStampInv, [Next]_vars, ~May("racyedit") PROVE TaskStampInv'
  <1> SUFFICES ASSUME NEW p \in Paths, Sent(p)', local'[p] # Nil
               PROVE  task'[p].md5 = local'[p].content
    BY DEF TaskStampInv
  <1>1. CASE task'[p] = task[p]
    <2>1. Sent(p) /\ InTransfer(p)
      BY <1>1 DEF Sent, InTransfer
    <2>2. local'[p] = local[p]
      BY <2>1, LocalAfter
    <2> QED BY <1>1, <2>1, <2>2 DEF TaskStampInv
  <1>2. CASE task'[p] # task[p]
    BY <1>2, SentAfter
  <1> QED BY <1>1, <1>2

LEMMA NextRestoreStamp ==
    ASSUME IInv, RestoreStampInv, [Next]_vars, ~May("racyedit") PROVE RestoreStampInv'
  <1>1. CASE rs' = Nil
    BY <1>1 DEF RestoreStampInv
  <1>2. CASE rs' # Nil /\ rs' = rs
    <2>1. May("restore") /\ rs.step \in {"got", "owned"} /\ rs \in Restoring
      BY <1>2, StepTypes DEF RestoreStampInv
    <2>2. rs.id[2] \in Paths /\ rs.obj \in ObjIds
      BY <2>1 DEF Restoring, Keys
    <2>3. ASSUME rs.step = "got", local'[rs.id[2]] # Nil, ~May("cloudtamper")
          PROVE  objs'[rs.obj].content = local'[rs.id[2]].content
      <3>1. InTransfer(rs.id[2])
        BY <1>2, <2>3 DEF InTransfer
      <3>2. local'[rs.id[2]] = local[rs.id[2]]
        BY <2>2, <2>3, <3>1, LocalAfter
      <3>3. objs[rs.obj].content = local[rs.id[2]].content
        BY <1>2, <2>3, <3>2 DEF RestoreStampInv
      <3>4. objs[rs.obj].path = rs.id[2] /\ objs[rs.obj].where # "none"
        BY <1>2 DEF IInv, RestoreInv, IsObjectOf
      <3> QED BY <2>2, <2>3, <3>2, <3>3, <3>4, ContentsAfter
    <2> QED BY <1>2, <2>1, <2>3 DEF RestoreStampInv, May
  <1>3. CASE rs' # Nil /\ rs' # rs
    BY <1>3, RestoreAfter DEF RestoreStampInv, May
  <1> QED BY <1>1, <1>2, <1>3

LEMMA NextMirror ==
    ASSUME IInv, MirrorInv, [Next]_vars, ~May("racyedit"), ~May("restore") \/ ~May("cloudtamper")
    PROVE  MirrorInv'
  BY NextClocks, NextStamp, NextTaskStamp, NextRestoreStamp DEF MirrorInv

LEMMA MergeNone ==
    ASSUME NEW l, NEW r, NEW b, b # Nil, Merge(l, r, b) = "NONE"
    PROVE  l # Nil /\ ~localDiffersFromBase(l, b) /\ ~remoteDiffersFromBase(r, b)
  <1> DEFINE lc == localDiffersFromBase(l, b)
             rc == remoteDiffersFromBase(r, b)
  <1> HIDE DEF lc, rc
  <1>1. Merge(l, r, b) = CASE l = Nil /\ b = Nil -> "NONE"
                           [] l = Nil /\ b # Nil -> "TRASH"
                           [] l # Nil /\ b = Nil -> "UPLOAD"
                           [] OTHER -> IF lc /\ rc THEN "CONFLICT"
                                       ELSE IF lc THEN "UPLOAD"
                                       ELSE IF rc THEN "REUPLOAD"
                                       ELSE "NONE"
    BY DEF Merge, lc, rc
  <1>2. l # Nil /\ ~lc /\ ~rc
    BY <1>1
  <1> QED BY <1>2 DEF lc, rc

\* With one tick per second, a merge that finds nothing to do has compared
\* the file's own timestamp and the MD5 of the object as it is.
LEMMA NothingToDo ==
    ASSUME IInv, TicksPerSecond = 1, NEW k \in Keys, IsLive(rows[k]), local[k[2]] # Nil,
           Merge(Stat(local[k[2]]), DriveState(rows[k].remoteID), rows[k]) = "NONE"
    PROVE  /\ rows[k].mtime = local[k[2]].mtime
           /\ objs[rows[k].remoteID].content = rows[k].md5
  <1> DEFINE o == rows[k].remoteID
             l == Stat(local[k[2]])
             d == DriveState(o)
  <1>1. rows[k] \in Row /\ rows[k] # Nil /\ o \in ObjIds /\ rows[k].mtime \in Nat /\ rows[k].md5 \in Contents
    BY StepTypes DEF IsLive, Row
  <1>2. local[k[2]] \in LocalFile /\ local[k[2]].mtime \in Nat
    BY StepTypes DEF Keys, LocalFile
  <1>3. objs[o].where # "none" /\ objs[o].content \in Contents
    BY <1>1 DEF IInv, RowsOwnTheirObjects, ObjectsInv
  <1>4. l # Nil /\ ~localDiffersFromBase(l, rows[k]) /\ ~remoteDiffersFromBase(d, rows[k])
    BY <1>1, MergeNone
  <1>5. rows[k].mtime = local[k[2]].mtime
    <2>1. l.mtime = local[k[2]].mtime
      BY DEF Stat
    <2>2. Second(l.mtime) = Second(rows[k].mtime)
      BY <1>1, <1>4 DEF localDiffersFromBase
    <2>3. \A t \in Nat : Second(t) = t
      BY DEF Second
    <2> QED BY <1>1, <1>2, <2>1, <2>2, <2>3
  <1>6. objs[o].content = rows[k].md5
    <2>1. rows[k].remoteID # Nil
      BY <1>1, NilAssumption DEF ObjIds
    <2>2. d # Nil
      BY <1>1, <1>4, <2>1 DEF remoteDiffersFromBase
    <2>3. d = [id |-> o, md5 |-> objs[o].content, size |-> SizeOf[objs[o].content]]
      BY <2>2 DEF DriveState
    <2>4. d.id = o /\ d.md5 = objs[o].content
      BY <2>3
    <2>5. objs[o].content # Nil /\ rows[k].md5 # Nil
      BY <1>1, <1>3, NilAssumption
    <2> HIDE DEF d, o
    <2> QED BY <1>1, <1>4, <2>2, <2>4, <2>5 DEF remoteDiffersFromBase
  <1> QED BY <1>5, <1>6

\* When no write hides in the second of an earlier one or in a transfer, and
\* restores do not meet edits on drive.google.com, a merge that finds nothing
\* to do means that the object holds the file's content.
THEOREM MirroredWhenNone ==
    ASSUME TicksPerSecond = 1, ~May("racyedit"), ~May("restore") \/ ~May("cloudtamper")
    PROVE  Spec => []NoneMeansMirrored
  <1>1. IInv /\ MirrorInv /\ [Next]_vars => MirrorInv'
    BY NextMirror
  <1>2. IInv /\ MirrorInv => NoneMeansMirrored
    <2> SUFFICES ASSUME IInv, MirrorInv, NEW k \in Keys, IsLive(rows[k]), local[k[2]] # Nil,
                        Merge(Stat(local[k[2]]), DriveState(rows[k].remoteID), rows[k]) = "NONE"
                 PROVE  objs[rows[k].remoteID].content = local[k[2]].content
      BY DEF NoneMeansMirrored
    <2>1. Stamped(k, k[2]) /\ objs[rows[k].remoteID].content = rows[k].md5
      BY NothingToDo DEF Stamped
    <2> QED BY <2>1 DEF MirrorInv, StampInv
  <1> QED BY <1>1, <1>2, InitMirror, Invariance, PTL DEF Spec
-----------------------------------------------------------------------------
(* A path has one owner and one object.                                    *)

Live(o) == objs[o].where = "live"

\* What a pass may still take for live: it is, or it was when it was listed.
Seen(o) == Live(o) \/ listed[o] # Nil
Tracked(r, p) == IsLive(rows[<<r, p>>]) \/ base[<<r, p>>] # Nil

OneSeen == \A o1 \in ObjIds, o2 \in ObjIds :
              Seen(o1) /\ Seen(o2) /\ objs[o1].path = objs[o2].path => o1 = o2
OneOwner == \A p \in Paths, r1 \in Rels, r2 \in Rels : Tracked(r1, p) /\ Tracked(r2, p) => r1 = r2
OwnerHolds == \A p \in Paths, r \in Rels, o \in ObjIds :
                 Tracked(r, p) /\ Seen(o) /\ objs[o].path = p => objs[o].rel = r

\* Nothing is tracked, held or under way outside the chain.
InChain == /\ \A o \in ObjIds : Seen(o) => objs[o].rel \in 1..nrel
           /\ \A p \in Paths, r \in Rels : Tracked(r, p) => r <= nrel
           /\ \A p \in Paths : task[p] # Nil => task[p].rel <= nrel

\* The snapshots of a pass miss nothing in the relations they cover.
Covers(o) == \/ pc = "list" /\ objs[o].rel < at
             \/ pc = "base" /\ objs[o].rel <= at
             \/ pc = "build"
SnapInv ==
    /\ pc \in {"idle", "exec"} => listed = NoListing /\ base = NoRows
    /\ \A o \in ObjIds : Live(o) /\ Covers(o) => listed[o] # Nil
    /\ \A k \in Keys : IsLive(rows[k]) /\ ((pc \in {"list", "base"} /\ k[1] < at) \/ pc = "build")
                       => base[k] # Nil
    /\ pc \in {"list", "base"} => at <= nrel

\* A task works for the one owner of its path, and creates no second object.
Creating(p) == task[p] # Nil /\ task[p].act \in Uploads /\ task[p].phase = "queued" /\ task[p].remote = Nil
TaskAlone(p) ==
    /\ Creating(p) => \A o \in ObjIds : Live(o) => objs[o].path # p
    /\ task[p] # Nil =>
          /\ \A r \in Rels : Tracked(r, p) => r = task[p].rel
          /\ \A o \in ObjIds : Seen(o) /\ objs[o].path = p => objs[o].rel = task[p].rel

ChainInv == OneSeen /\ OneOwner /\ OwnerHolds /\ InChain /\ SnapInv /\ \A p \in Paths : TaskAlone(p)

SentUpload(p) == task[p] # Nil /\ task[p].act \in Uploads /\ task[p].phase = "sent"

\* What steps do to objects: they keep their place in the chain, and become
\* live when an upload creates them or a restore moves them back.
CreatedBy(p, o) == /\ Creating(p) /\ pc = "exec" /\ UNCHANGED rows /\ task'[p] # task[p]
                   /\ objs'[o].rel = task[p].rel /\ objs'[o].path = p /\ o = made + 1
                   /\ May("lostreply") \/ (SentUpload(p)' /\ task'[p].remote = o)
RestoredBy(o) == rs # Nil /\ rs' = Nil /\ rs.step = "owned" /\ o = rs.obj /\ UNCHANGED <<rows, task>>

LEMMA LiveAfter ==
    ASSUME IInv, [Next]_vars, ~May("cloudstray"), NEW o \in ObjIds
    PROVE  /\ objs[o].where # "none" => objs'[o].rel = objs[o].rel /\ objs'[o].path = objs[o].path
           /\ objs'[o].where = "live" => Live(o) \/ RestoredBy(o) \/ \E p \in Paths : CreatedBy(p, o)
  <1> DEFINE Same == objs'[o].rel = objs[o].rel /\ objs'[o].path = objs[o].path
             Fades == Same /\ (objs'[o].where = "live" => Live(o))
  <1>0. objs \in [ObjIds -> Object] /\ task \in [Paths -> Task \cup {Nil}]
    BY StepTypes
  <1>1. ASSUME NEW p \in Paths, UploadSend(p) \/ UploadLost(p)
        PROVE  Fades \/ (CreatedBy(p, o) /\ objs[o].where = "none")
    <2>1. PICK a \in ObjIds : UploadTo(p, a) /\ (UploadLost(p) \/ task' = [task EXCEPT ![p] =
                [@ EXCEPT !.remote = a, !.md5 = local[p].content, !.phase = "sent"]])
      BY <1>1 DEF UploadSend, UploadLost
    <2>2. pc = "exec" /\ UNCHANGED rows /\ task[p] # Nil /\ task[p] \in Task
          /\ task[p].act \in Uploads /\ task[p].phase = "queued"
      BY <1>0, <1>1 DEF UploadSend, UploadLost, Executing
    <2>3. CASE task[p].remote = Nil
      <3>1. a = made + 1 /\ objs' = Create(objs, a, task[p].rel, p, local[p].content)
        BY <2>1, <2>3 DEF UploadTo
      <3>2. a # o => objs'[o] = objs[o]
        BY <1>0, <3>1 DEF Create
      <3>3. a = o => objs'[o].rel = task[p].rel /\ objs'[o].path = p /\ objs[o].where = "none"
        BY <1>0, <3>1 DEF Create, IInv, ObjectsInv, TypeOK, DriveType, ObjIds
      <3>4. task'[p] # task[p] /\ (May("lostreply") \/ (SentUpload(p)' /\ task'[p].remote = a))
        <4>1. CASE UploadLost(p)
          BY <1>0, <2>2, <4>1 DEF UploadLost, Done, CanFail
        <4>2. CASE task' = [task EXCEPT ![p] = [@ EXCEPT !.remote = a, !.md5 = local[p].content, !.phase = "sent"]]
          <5>1. local[p].content \in Contents
            BY <2>1, StepTypes DEF UploadTo, LocalFile
          <5>2. task'[p] = [task[p] EXCEPT !.remote = a, !.md5 = local[p].content, !.phase = "sent"]
            BY <1>0, <4>2
          <5>3. task'[p] \in Task /\ task'[p].phase = "sent" /\ task'[p].act = task[p].act /\ task'[p].remote = a
            BY <2>2, <5>1, <5>2 DEF Task
          <5> QED BY <2>2, <5>3, RecordsAssumption DEF SentUpload
        <4> QED BY <2>1, <4>1, <4>2
      <3> QED BY <2>2, <2>3, <3>1, <3>2, <3>3, <3>4 DEF CreatedBy, Creating, Live
    <2>4. CASE task[p].remote # Nil
      <3>1. objs' = Update(objs, a, local[p].content)
        BY <2>1, <2>4 DEF UploadTo
      <3> QED BY <1>0, <3>1 DEF Update, Object, Live
    <2> QED BY <2>3, <2>4
  <1>2. ASSUME NEW a \in ObjIds, NEW d, objs' = MoveToTank(objs, a, d) PROVE Fades
    BY <1>0, <1>2 DEF MoveToTank, Object, Live
  <1>3. ASSUME NEW p \in Paths, TrashMove(p) PROVE Fades
    <2>1. CASE UNCHANGED objs
      BY <2>1 DEF Live
    <2>2. CASE ~UNCHANGED objs
      <3> DEFINE row == rows[<<task[p].rel, p>>]
      <3>1. row # Nil /\ objs' = MoveToTank(objs, row.remoteID, now)
        BY <1>3, <2>2 DEF TrashMove, FileID
      <3>2. row \in Row \cup {Nil}
        BY <1>0, <1>3, StepTypes DEF TrashMove, Executing, Task, Keys
      <3>3. row.remoteID \in ObjIds
        BY <3>1, <3>2 DEF Row
      <3> QED BY <3>1, <3>3, <1>2
    <2> QED BY <2>1, <2>2
  <1>4. ASSUME NEW a \in ObjIds, Dedupe(a) PROVE Fades
    BY <1>2, <1>4 DEF Dedupe, Live
  <1>5. ASSUME NEW a \in ObjIds, NEW by \in {"removed", "reaped", "purged"}, objs' = PermanentDelete(objs, a, by)
        PROVE  Fades
    BY <1>0, <1>5 DEF PermanentDelete, Object, Live
  <1>6. ASSUME NEW a \in ObjIds, CloudDelete(a) PROVE Fades
    BY <1>5, <1>6 DEF CloudDelete
  <1>7. ASSUME NEW w \in Reapers, Reap(w) PROVE Fades
    <2>1. PICK e \in todo[w] : objs' = PermanentDelete(objs, e[2], IF w = "sweep" THEN "reaped" ELSE "purged")
      BY <1>7 DEF Reap
    <2>2. e[2] \in ObjIds
      BY StepTypes
    <2> DEFINE by == IF w = "sweep" THEN "reaped" ELSE "purged"
    <2>3. by \in {"removed", "reaped", "purged"} /\ objs' = PermanentDelete(objs, e[2], by)
      BY <2>1
    <2> HIDE DEF by
    <2> QED BY <1>5, <2>2, <2>3
  <1>8. ASSUME RestoreMove PROVE Fades \/ (Same /\ RestoredBy(o))
    <2>1. rs.obj \in ObjIds /\ rs # Nil /\ rs' = Nil /\ rs.step = "owned" /\ UNCHANGED <<rows, task>>
      BY <1>8, StepTypes DEF RestoreMove, Restoring, storeVars, poolVars
    <2>2. Same /\ (o # rs.obj => objs'[o] = objs[o])
      BY <1>0, <1>8, <2>1 DEF RestoreMove, MoveToContainer, Object
    <2> QED BY <2>1, <2>2 DEF RestoredBy, Live
  <1>9. ASSUME NEW a \in ObjIds, CloudTamper(a) PROVE Fades
    BY <1>0, <1>9 DEF CloudTamper, Update, Object, Live
  <1>10. ASSUME NEW k \in Keys, CloudStray(k) PROVE May("cloudstray")
    BY <1>10 DEF CloudStray
  <1>11. ASSUME UNCHANGED objs PROVE Fades
    BY <1>11 DEF Live
  <1>12. Fades \/ (Same /\ RestoredBy(o)) \/ \E p \in Paths : CreatedBy(p, o) /\ objs[o].where = "none"
    <2> HIDE DEF Fades, Same
    <2> QED BY <1>1, <1>3, <1>4, <1>6, <1>7, <1>8, <1>9, <1>10, <1>11, WhoWritesObjects
  <1> QED BY <1>12

\* What steps do to the tasks of the pool, beside the building of new ones.
TaskLater(p) == \/ task'[p] = Nil
                \/ /\ task[p] # Nil /\ task'[p].rel = task[p].rel
                   /\ task'[p] = task[p] \/ (task'[p].phase = "sent" /\ pc = "exec")

\* Outside the reading and building of a pass, its snapshots stay.
Running == UNCHANGED <<pc, at, listed, base, nrel>> /\ \A p \in Paths : TaskLater(p)

LEMMA TaskStepRuns == ASSUME IInv, NEW q \in Paths, TaskStep(q) PROVE Running
  <1>0. task \in [Paths -> Task \cup {Nil}]
    BY StepTypes
  <1>1. UNCHANGED <<pc, at, listed, base, nrel>> /\ pc = "exec"
    BY DEF TaskStep, UploadSend, UploadLost, UploadRecord, Adopt, TrashMove, TrashMark, TaskError, TaskFail,
       Executing, passVars
  <1> SUFFICES ASSUME NEW p \in Paths PROVE TaskLater(p)
    BY <1>1 DEF Running
  <1>2. CASE Done(q)
    BY <1>0, <1>2 DEF Done, TaskLater
  <1>3. CASE task' = [task EXCEPT ![q] = [@ EXCEPT !.phase = "sent"]] /\ task[q] # Nil
    <2>1. p # q => task'[p] = task[p]
      BY <1>0, <1>3
    <2>2. p = q => task'[p].rel = task[p].rel /\ task'[p].phase = "sent"
      BY <1>0, <1>3 DEF Task
    <2> QED BY <1>1, <1>3, <2>1, <2>2 DEF TaskLater
  <1>4. CASE UploadSend(q)
    <2>1. PICK o \in ObjIds : task' = [task EXCEPT ![q] = [@ EXCEPT !.remote = o, !.md5 = local[q].content,
                                                                   !.phase = "sent"]]
      BY <1>4 DEF UploadSend
    <2>2. task[q] # Nil
      BY <1>4 DEF UploadSend, Executing
    <2>3. p # q => task'[p] = task[p]
      BY <1>0, <2>1
    <2>4. p = q => task'[p].rel = task[p].rel /\ task'[p].phase = "sent"
      BY <1>0, <2>1, <2>2 DEF Task
    <2> QED BY <1>1, <2>2, <2>3, <2>4 DEF TaskLater
  <1> QED BY <1>2, <1>3, <1>4 DEF TaskStep, UploadLost, UploadRecord, Adopt, TrashMove, TrashMark, TaskError,
         TaskFail, Executing

LEMMA StepKinds ==
    ASSUME IInv, [Next]_vars
    PROVE  \/ BeginPass \/ ListRemote \/ LoadBase \/ AbortPass \/ EndPass \/ StartExec \/ Crash
           \/ \E p \in Paths : BuildOwned(p) \/ BuildNew(p)
           \/ Running
  <1>1. ASSUME UNCHANGED <<pc, at, listed, base, nrel, task>> PROVE Running
    BY <1>1 DEF Running, TaskLater
  <1> USE DEF passVars, snapVars, poolVars, storeVars, daemonVars
  <1>2. CASE PassStep
    <2>1. ASSUME NEW o \in ObjIds, Dedupe(o) PROVE Running
      BY <1>1, <2>1 DEF Dedupe
    <2> QED BY <1>2, <2>1, TaskStepRuns DEF PassStep, PoolStep, BuildStep
  <1>3. CASE SweepStep \/ PurgeStep
    BY <1>1, <1>3 DEF SweepStep, PurgeStep, ReapStep, SweepStart, Reap, ReapFail, DropRow, PurgeEnd
  <1>4. CASE RestoreStep
    BY <1>1, <1>4 DEF RestoreStep, RestoreUpsert, RestoreMove, RestoreFail
  <1>5. CASE UserStep
    BY <1>1, <1>5 DEF UserStep, UserWrite, UserDelete, PurgeStart, RestoreDownload
  <1>6. CASE CloudStep \/ Tick \/ UNCHANGED vars
    BY <1>1, <1>6 DEF CloudStep, CloudDelete, CloudTamper, CloudStray, CloudChange, Tick, vars
  <1> QED BY <1>2, <1>3, <1>4, <1>5, <1>6 DEF Next

\* A restore in a chain of one relation, at a path where nothing is live.
RestoreApart == rs # Nil => /\ MaxRels = 1
                            /\ \A o \in ObjIds : Live(o) => objs[o].path # rs.id[2]

\* What a running step may see beside what was seen before ...
LEMMA SeenRuns ==
    ASSUME IInv, SnapInv, [Next]_vars, Running, ~May("cloudstray"), NEW o \in ObjIds, Seen(o)'
    PROVE  \/ Seen(o) /\ objs'[o].rel = objs[o].rel /\ objs'[o].path = objs[o].path
           \/ RestoredBy(o) /\ pc = "idle" /\ objs'[o].rel = rs.id[1] /\ objs'[o].path = rs.id[2]
           \/ pc = "exec" /\ \E p \in Paths : CreatedBy(p, o)
  <1>1. CASE Seen(o)
    <2>1. objs[o].where # "none"
      BY <1>1 DEF Seen, Live, IInv, ObjectsInv
    <2> QED BY <1>1, <2>1, LiveAfter
  <1>2. CASE ~Seen(o)
    <2>1. objs'[o].where = "live" /\ ~Live(o)
      BY <1>2 DEF Seen, Live, Running
    <2>2. CASE RestoredBy(o)
      <3>1. objs[o].rel = rs.id[1] /\ objs[o].path = rs.id[2] /\ objs[o].where # "none"
        BY <2>2 DEF RestoredBy, IInv, RestoreInv, IsObjectOf
      <3>2. pc = "idle"
        BY <2>2 DEF RestoredBy, IInv, MutexInv
      <3> QED BY <2>2, <3>1, <3>2, LiveAfter
    <2>3. ASSUME NEW p \in Paths, CreatedBy(p, o) PROVE pc = "exec"
      BY <2>3 DEF CreatedBy
    <2> QED BY <2>1, <2>2, <2>3, LiveAfter
  <1> QED BY <1>1, <1>2

\* ... and track.
LEMMA TrackedRuns ==
    ASSUME IInv, [Next]_vars, Running, NEW p \in Paths, NEW r \in Rels, Tracked(r, p)'
    PROVE  \/ Tracked(r, p)
           \/ task[p] # Nil /\ task[p].rel = r /\ pc = "exec" /\ UNCHANGED objs
           \/ rs # Nil /\ rs.id = <<r, p>> /\ pc = "idle" /\ UNCHANGED objs
  <1>1. CASE base'[<<r, p>>] # Nil \/ rows'[<<r, p>>] = rows[<<r, p>>]
    BY <1>1 DEF Tracked, Running
  <1>2. CASE base'[<<r, p>>] = Nil /\ rows'[<<r, p>>] # rows[<<r, p>>]
    <2> DEFINE k == <<r, p>>
    <2>1. k \in Keys /\ k[1] = r /\ k[2] = p
      BY DEF Keys
    <2>2. IsLive(rows'[k]) /\ rows'[k] # rows[k]
      BY <1>2 DEF Tracked
    <2> HIDE DEF k
    <2>3. /\ UNCHANGED objs
          /\ \/ Sent(k[2]) /\ task[k[2]].rel = k[1] /\ pc = "exec"
             \/ rs # Nil /\ rs.id = k
      BY <2>1, <2>2, LiveRowsAfter
    <2>4. rs # Nil => pc = "idle"
      BY DEF IInv, MutexInv
    <2> QED BY <2>1, <2>3, <2>4 DEF Sent, k
  <1> QED BY <1>1, <1>2

\* While tasks run or restores go on, what is seen is live.
LEMMA OnlyLive == ASSUME SnapInv, pc \in {"idle", "exec"}, NEW o \in ObjIds PROVE Seen(o) <=> Live(o)
  BY DEF SnapInv, Seen, NoListing

LEMMA OneSeenRuns ==
    ASSUME IInv, ChainInv, [Next]_vars, Running, ~May("cloudstray"), RestoreApart
    PROVE  OneSeen'
  <1> SUFFICES ASSUME NEW o1 \in ObjIds, NEW o2 \in ObjIds, Seen(o1)', Seen(o2)',
                      objs'[o1].path = objs'[o2].path
               PROVE  o1 = o2
    BY DEF OneSeen
  <1> DEFINE Old(o) == Seen(o) /\ objs'[o].rel = objs[o].rel /\ objs'[o].path = objs[o].path
             Back(o) == RestoredBy(o) /\ pc = "idle" /\ objs'[o].path = rs.id[2]
             New(o) == pc = "exec" /\ \E p \in Paths : CreatedBy(p, o)
  <1>1. /\ Old(o1) \/ Back(o1) \/ New(o1)
        /\ Old(o2) \/ Back(o2) \/ New(o2)
    BY SeenRuns DEF ChainInv
  <1>2. CASE Old(o1) /\ Old(o2)
    BY <1>2 DEF ChainInv, OneSeen
  <1>3. ASSUME NEW a \in ObjIds, NEW b \in ObjIds, Old(a), New(b), objs'[a].path = objs'[b].path PROVE FALSE
    <2>1. PICK p \in Paths : CreatedBy(p, b)
      BY <1>3
    <2>2. Live(a) /\ objs[a].path = p
      BY <1>3, <2>1, OnlyLive DEF ChainInv, CreatedBy
    <2> QED BY <2>1, <2>2 DEF ChainInv, TaskAlone, CreatedBy
  <1>4. ASSUME NEW a \in ObjIds, NEW b \in ObjIds, Old(a), Back(b), objs'[a].path = objs'[b].path PROVE FALSE
    BY <1>4, OnlyLive DEF ChainInv, RestoredBy, RestoreApart
  <1>5. New(o1) /\ New(o2) => o1 = o2
    BY DEF CreatedBy
  <1>6. Back(o1) /\ Back(o2) => o1 = o2
    BY DEF RestoredBy
  <1>7. ~(New(o1) /\ Back(o2)) /\ ~(Back(o1) /\ New(o2))
    OBVIOUS
  <1> HIDE DEF Old, Back, New
  <1> QED BY <1>1, <1>2, <1>3, <1>4, <1>5, <1>6, <1>7

LEMMA OneOwnerRuns ==
    ASSUME IInv, ChainInv, [Next]_vars, Running, RestoreApart
    PROVE  OneOwner'
  <1> SUFFICES ASSUME NEW p \in Paths, NEW r1 \in Rels, NEW r2 \in Rels, Tracked(r1, p)', Tracked(r2, p)'
               PROVE  r1 = r2
    BY DEF OneOwner
  <1>1. CASE MaxRels = 1
    BY <1>1 DEF Rels
  <1>2. CASE MaxRels # 1
    <2>1. rs = Nil
      BY <1>2 DEF RestoreApart
    <2>2. /\ Tracked(r1, p) \/ (task[p] # Nil /\ task[p].rel = r1)
          /\ Tracked(r2, p) \/ (task[p] # Nil /\ task[p].rel = r2)
      BY <2>1, TrackedRuns
    <2>3. task[p] # Nil => \A r \in Rels : Tracked(r, p) => r = task[p].rel
      BY DEF ChainInv, TaskAlone
    <2>4. Tracked(r1, p) /\ Tracked(r2, p) => r1 = r2
      BY DEF ChainInv, OneOwner
    <2> QED BY <2>2, <2>3, <2>4
  <1> QED BY <1>1, <1>2

LEMMA InChainRuns ==
    ASSUME IInv, ChainInv, [Next]_vars, Running, ~May("cloudstray"), RestoreApart
    PROVE  InChain'
  <1>0. nrel' = nrel /\ nrel \in 1..MaxRels /\ task \in [Paths -> Task \cup {Nil}]
    BY DEF Running, IInv, TypeOK, StoreType, PoolType, Rels
  <1>1. ASSUME NEW o \in ObjIds, Seen(o)' PROVE objs'[o].rel \in 1..nrel'
    <2>1. CASE Seen(o) /\ objs'[o].rel = objs[o].rel
      BY <1>0, <2>1 DEF ChainInv, InChain
    <2>2. CASE RestoredBy(o) /\ objs'[o].rel = rs.id[1]
      <3>1. rs.id[1] \in 1..MaxRels /\ MaxRels = 1
        BY <2>2, StepTypes DEF RestoredBy, RestoreApart, Restoring, Keys, Rels
      <3> QED BY <1>0, <2>2, <3>1
    <2>3. ASSUME NEW p \in Paths, CreatedBy(p, o) PROVE objs'[o].rel \in 1..nrel'
      <3>1. task[p] \in Task /\ task[p] # Nil /\ task[p].rel <= nrel /\ objs'[o].rel = task[p].rel
        BY <1>0, <2>3 DEF CreatedBy, Creating, ChainInv, InChain
      <3>2. task[p].rel \in 1..MaxRels
        BY <3>1 DEF Task, Rels
      <3> QED BY <1>0, <3>1, <3>2, BoundsAssumption
    <2> QED BY <1>1, <2>1, <2>2, <2>3, SeenRuns DEF ChainInv
  <1>2. ASSUME NEW p \in Paths, NEW r \in Rels, Tracked(r, p)' PROVE r <= nrel'
    <2>1. CASE Tracked(r, p)
      BY <1>0, <2>1 DEF ChainInv, InChain
    <2>2. CASE task[p] # Nil /\ task[p].rel = r
      BY <1>0, <2>2 DEF ChainInv, InChain
    <2>3. CASE rs # Nil
      BY <1>0, <2>3 DEF RestoreApart, Rels
    <2> QED BY <1>2, <2>1, <2>2, <2>3, TrackedRuns
  <1>3. ASSUME NEW p \in Paths, task'[p] # Nil PROVE task'[p].rel <= nrel'
    BY <1>0, <1>3 DEF Running, TaskLater, ChainInv, InChain
  <1> QED BY <1>1, <1>2, <1>3 DEF InChain

LEMMA OwnerHoldsRuns ==
    ASSUME IInv, ChainInv, [Next]_vars, Running, ~May("cloudstray"), RestoreApart
    PROVE  OwnerHolds'
  <1> SUFFICES ASSUME NEW p \in Paths, NEW r \in Rels, NEW o \in ObjIds, Tracked(r, p)', Seen(o)',
                      objs'[o].path = p
               PROVE  objs'[o].rel = r
    BY DEF OwnerHolds
  <1>1. CASE MaxRels = 1
    <2>1. objs'[o].rel \in 1..nrel' /\ nrel' = nrel /\ nrel \in Rels
      BY InChainRuns DEF InChain, Running, IInv, TypeOK, StoreType
    <2> QED BY <1>1, <2>1 DEF Rels
  <1>2. CASE MaxRels # 1
    <2>1. rs = Nil
      BY <1>2 DEF RestoreApart
    <2>2. Tracked(r, p) \/ (task[p] # Nil /\ task[p].rel = r /\ UNCHANGED objs)
      BY <2>1, TrackedRuns
    <2>3. \/ Seen(o) /\ objs'[o].rel = objs[o].rel /\ objs'[o].path = objs[o].path
          \/ CreatedBy(p, o)
      BY <2>1, SeenRuns DEF RestoredBy, CreatedBy, ChainInv
    <2>4. Tracked(r, p) /\ Seen(o) /\ objs[o].path = p => objs[o].rel = r
      BY DEF ChainInv, OwnerHolds
    <2>5. task[p] # Nil => /\ Tracked(r, p) => r = task[p].rel
                           /\ Seen(o) /\ objs[o].path = p => objs[o].rel = task[p].rel
      BY DEF ChainInv, TaskAlone
    <2>6. CreatedBy(p, o) => task[p] # Nil /\ objs'[o].rel = task[p].rel
      BY DEF CreatedBy, Creating
    <2> QED BY <2>2, <2>3, <2>4, <2>5, <2>6
  <1> QED BY <1>1, <1>2

LEMMA SnapRuns ==
    ASSUME IInv, ChainInv, [Next]_vars, Running, ~May("cloudstray")
    PROVE  SnapInv'
  <1>1. ASSUME NEW o \in ObjIds, Live(o)', Covers(o)' PROVE listed'[o] # Nil
    <2>1. pc \notin {"idle", "exec"}
      BY <1>1 DEF Covers, Running
    <2>2. Seen(o)'
      BY <1>1 DEF Seen
    <2>3. Seen(o) /\ objs'[o].rel = objs[o].rel
      BY <2>1, <2>2, SeenRuns DEF ChainInv
    <2> QED BY <1>1, <2>3 DEF Covers, Running, ChainInv, SnapInv, Seen
  <1>2. ASSUME NEW k \in Keys, IsLive(rows'[k]), (pc' \in {"list", "base"} /\ k[1] < at') \/ pc' = "build"
        PROVE  base'[k] # Nil
    <2>1. pc \notin {"idle", "exec"}
      BY <1>2 DEF Running
    <2>2. k = <<k[1], k[2]>> /\ k[1] \in Rels /\ k[2] \in Paths
      BY DEF Keys
    <2>3. Tracked(k[1], k[2])'
      BY <1>2, <2>2 DEF Tracked
    <2>4. Tracked(k[1], k[2])
      BY <2>1, <2>2, <2>3, TrackedRuns
    <2> QED BY <1>2, <2>2, <2>4 DEF Tracked, Running, ChainInv, SnapInv
  <1> QED BY <1>1, <1>2 DEF ChainInv, SnapInv, Running

LEMMA TaskAloneRuns ==
    ASSUME IInv, ChainInv, [Next]_vars, Running, ~May("cloudstray"), NEW p \in Paths
    PROVE  TaskAlone(p)'
  <1>1. CASE task'[p] = Nil
    BY <1>1 DEF TaskAlone, Creating
  <1>2. CASE task'[p] # Nil
    <2>1. task[p] # Nil /\ task'[p].rel = task[p].rel /\ (task'[p] = task[p] \/ task'[p].phase = "sent")
      BY <1>2 DEF Running, TaskLater
    <2>2. pc # "idle"
      BY <2>1 DEF IInv, MutexInv, NoTasks
    <2>3. rs = Nil
      BY <2>2 DEF IInv, MutexInv
    <2>4. ASSUME NEW r \in Rels, Tracked(r, p)' PROVE r = task'[p].rel
      BY <2>1, <2>3, <2>4, TrackedRuns DEF ChainInv, TaskAlone
    <2>5. ASSUME NEW o \in ObjIds, Seen(o)', objs'[o].path = p PROVE objs'[o].rel = task'[p].rel
      <3>1. \/ Seen(o) /\ objs'[o].rel = objs[o].rel /\ objs'[o].path = objs[o].path
            \/ CreatedBy(p, o)
        BY <2>3, <2>5, SeenRuns DEF RestoredBy, CreatedBy, ChainInv
      <3> QED BY <2>1, <2>5, <3>1 DEF ChainInv, TaskAlone, CreatedBy
    <2>6. ASSUME Creating(p)', NEW o \in ObjIds, Live(o)', objs'[o].path = p PROVE FALSE
      <3>1. task'[p] = task[p]
        BY <2>1, <2>6 DEF Creating
      <3>2. Creating(p)
        BY <2>6, <3>1 DEF Creating
      <3>3. Seen(o)'
        BY <2>6 DEF Seen
      <3>4. ~Live(o) \/ objs[o].path # p
        BY <3>2 DEF ChainInv, TaskAlone
      <3>5. ~CreatedBy(p, o)
        BY <3>1 DEF CreatedBy
      <3>6. ~Live(o)
        <4>1. CASE objs[o].where = "none"
          BY <4>1 DEF Live
        <4>2. CASE objs[o].where # "none"
          BY <2>6, <3>4, <4>2, LiveAfter
        <4> QED BY <4>1, <4>2
      <3> QED BY <2>3, <2>6, <3>5, <3>6, LiveAfter DEF RestoredBy, CreatedBy, Live
    <2> QED BY <2>4, <2>5, <2>6 DEF TaskAlone, Live
  <1> QED BY <1>1, <1>2

LEMMA ChainRuns ==
    ASSUME IInv, ChainInv, [Next]_vars, Running, ~May("cloudstray"), RestoreApart
    PROVE  ChainInv'
  BY OneSeenRuns, OneOwnerRuns, OwnerHoldsRuns, InChainRuns, SnapRuns, TaskAloneRuns DEF ChainInv

\* A step of the pass that takes nothing new for live or tracked.
LEMMA ChainNarrows ==
    ASSUME ChainInv, UNCHANGED <<objs, nrel>>,
           \A o \in ObjIds : Seen(o)' => Seen(o),
           \A p \in Paths, r \in Rels : Tracked(r, p)' => Tracked(r, p),
           \A p \in Paths : task'[p] = task[p] \/ task'[p] = Nil,
           SnapInv'
    PROVE  ChainInv'
  <1>1. OneSeen'
    BY DEF ChainInv, OneSeen
  <1>2. OneOwner'
    BY DEF ChainInv, OneOwner
  <1>3. OwnerHolds'
    BY DEF ChainInv, OwnerHolds
  <1>4. InChain'
    BY DEF ChainInv, InChain
  <1>5. ASSUME NEW p \in Paths PROVE TaskAlone(p)'
    BY DEF ChainInv, TaskAlone, Creating, Live
  <1> QED BY <1>1, <1>2, <1>3, <1>4, <1>5 DEF ChainInv

LEMMA ChainBegins == ASSUME IInv, ChainInv, BeginPass PROVE ChainInv'
  <1>1. UNCHANGED <<objs, nrel, rows, listed, base, task>> /\ pc' = "list" /\ at' = 1 /\ pc = "idle"
    BY DEF BeginPass, driveVars, storeVars, poolVars, IInv, MutexInv
  <1>2. nrel \in Nat /\ nrel >= 1
    BY BoundsAssumption DEF IInv, TypeOK, StoreType, Rels
  <1>3. \A o \in ObjIds : Live(o) => objs[o].rel \in 1..nrel
    BY DEF ChainInv, InChain, Seen
  <1>4. \A k \in Keys : ~(k[1] < 1)
    BY BoundsAssumption DEF Keys, Rels
  <1>5. SnapInv'
    BY <1>1, <1>2, <1>3, <1>4 DEF SnapInv, Covers, Live
  <1>6. \A o \in ObjIds : Seen(o)' => Seen(o)
    BY <1>1 DEF Seen, Live
  <1> QED BY <1>1, <1>5, <1>6, ChainNarrows DEF Tracked

LEMMA ChainListed == ASSUME IInv, ChainInv, ListRemote PROVE ChainInv'
  <1>1. UNCHANGED <<objs, nrel, rows, base, task, at>> /\ pc' = "base" /\ pc = "list"
    BY DEF ListRemote, driveVars, storeVars, poolVars
  <1>2. \A o \in ObjIds : listed'[o] = IF objs[o].rel = at /\ Live(o) THEN objs[o].content ELSE listed[o]
    BY DEF ListRemote, ListFolderRecursive, Live, IInv, TypeOK, DriveType
  <1>3. \A o \in ObjIds : Live(o) => objs[o].content # Nil
    BY NilAssumption DEF Live, IInv, ObjectsInv
  <1>4. \A o \in ObjIds : Seen(o)' => Seen(o)
    BY <1>1, <1>2 DEF Seen, Live
  <1>5. \A o \in ObjIds : Live(o) => objs[o].rel \in Nat /\ at \in Nat
    BY DEF ChainInv, InChain, Seen, IInv, TypeOK, PassType
  <1>6. \A o \in ObjIds : Live(o) /\ objs[o].rel < at => listed[o] # Nil
    BY <1>1 DEF ChainInv, SnapInv, Covers
  <1>7. \A o \in ObjIds : Live(o)' /\ Covers(o)' => listed'[o] # Nil
    BY <1>1, <1>2, <1>3, <1>5, <1>6 DEF Covers, Live
  <1>8. SnapInv'
    BY <1>1, <1>7 DEF ChainInv, SnapInv
  <1> QED BY <1>1, <1>4, <1>8, ChainNarrows DEF Tracked

LEMMA ChainLoaded == ASSUME IInv, ChainInv, LoadBase PROVE ChainInv'
  <1>1. UNCHANGED <<objs, nrel, rows, listed, task>> /\ pc = "base"
        /\ \/ at < nrel /\ pc' = "list" /\ at' = at + 1
           \/ ~(at < nrel) /\ pc' = "build" /\ at' = at
    BY DEF LoadBase, driveVars, storeVars, poolVars
  <1>2. \A k \in Keys : base'[k] = IF k[1] = at THEN IF IsLive(rows[k]) THEN rows[k] ELSE Nil ELSE base[k]
    BY DEF LoadBase
  <1>3. at \in Nat /\ nrel \in Nat /\ at <= nrel
    BY <1>1, BoundsAssumption DEF IInv, TypeOK, PassType, StoreType, Rels, ChainInv, SnapInv
  <1>4. \A p \in Paths, r \in Rels : Tracked(r, p)' => Tracked(r, p)
    BY <1>1, <1>2 DEF Tracked, Keys
  <1>5. \A o \in ObjIds : Live(o) => objs[o].rel \in Nat /\ objs[o].rel <= nrel /\ (objs[o].rel <= at => listed[o] # Nil)
    BY <1>1, <1>3 DEF ChainInv, SnapInv, Covers, InChain, Seen
  <1>6. \A o \in ObjIds : Live(o)' /\ Covers(o)' => listed'[o] # Nil
    BY <1>1, <1>3, <1>5 DEF Covers, Live
  <1>7. ASSUME NEW k \in Keys, IsLive(rows'[k]), (pc' \in {"list", "base"} /\ k[1] < at') \/ pc' = "build"
        PROVE  base'[k] # Nil
    <2>1. k = <<k[1], k[2]>> /\ k[1] \in Rels /\ k[2] \in Paths /\ k[1] \in Nat
      BY BoundsAssumption DEF Keys, Rels
    <2>2. k[1] <= nrel /\ IsLive(rows[k])
      BY <1>1, <1>7, <2>1 DEF ChainInv, InChain, Tracked
    <2>3. k[1] = at \/ k[1] < at
      BY <1>1, <1>3, <1>7, <2>1, <2>2
    <2> QED BY <1>1, <1>2, <2>2, <2>3 DEF ChainInv, SnapInv, IsLive
  <1>8. SnapInv'
    <2>1. pc' \in {"list", "base"} => at' <= nrel'
      BY <1>1, <1>3
    <2>2. pc' \notin {"idle", "exec"}
      BY <1>1
    <2> QED BY <1>6, <1>7, <2>1, <2>2 DEF SnapInv
  <1>9. \A o \in ObjIds : Seen(o)' => Seen(o)
    BY <1>1 DEF Seen, Live
  <1> QED BY <1>1, <1>4, <1>8, <1>9, ChainNarrows

\* When the snapshots are dropped, only what is live is left.
LEMMA ChainDrops ==
    ASSUME IInv, ChainInv, ~May("dbloss") \/ MaxRels = 1, AbortPass \/ EndPass \/ StartExec \/ Crash
    PROVE  ChainInv'
  <1>1. listed' = NoListing /\ base' = NoRows /\ pc' \in {"idle", "exec"} /\ UNCHANGED objs
    BY DEF AbortPass, EndPass, StartExec, Crash, ReturnFromPass, driveVars
  <1>2. UNCHANGED <<rows, nrel>> \/ (rows' = NoRows /\ nrel' = 1 /\ MaxRels = 1)
    BY DEF AbortPass, EndPass, StartExec, Crash, ReturnFromPass, storeVars
  <1>3. nrel' = nrel
    BY <1>2 DEF IInv, TypeOK, StoreType, Rels
  <1>4. task' = task \/ task' = NoTasks
    BY DEF AbortPass, EndPass, StartExec, Crash, ReturnFromPass, poolVars
  <1>5. SnapInv'
    BY <1>1 DEF SnapInv, Covers
  <1>6. \A o \in ObjIds : Seen(o)' => Seen(o)
    BY <1>1 DEF Seen, Live, NoListing
  <1>7. \A p \in Paths, r \in Rels : Tracked(r, p)' => Tracked(r, p)
    BY <1>1, <1>2 DEF Tracked, NoRows, IsLive, Keys
  <1> QED BY <1>1, <1>3, <1>4, <1>5, <1>6, <1>7, ChainNarrows DEF NoTasks
-----------------------------------------------------------------------------
(* The building of tasks.                                                  *)

LEMMA ChainBuilt ==
    ASSUME ChainInv, NEW p \in Paths, pc = "build", UNCHANGED <<objs, rows, listed, base, pc, at>>,
           nrel \in Nat, nrel' \in Nat, nrel <= nrel',
           \A q \in Paths : q # p => task'[q] = task[q],
           TaskAlone(p)', task'[p] # Nil => task'[p].rel <= nrel',
           \A q \in Paths : task[q] # Nil => task[q].rel \in Nat
    PROVE  ChainInv'
  <1>1. /\ \A o \in ObjIds : (Seen(o)' <=> Seen(o)) /\ (Live(o)' <=> Live(o))
        /\ \A q \in Paths, r \in Rels : Tracked(r, q)' <=> Tracked(r, q)
    BY DEF Seen, Live, Tracked
  <1>2. OneSeen' /\ OneOwner' /\ OwnerHolds'
    BY <1>1 DEF ChainInv, OneSeen, OneOwner, OwnerHolds
  <1>3. InChain'
    <2>1. \A o \in ObjIds : Seen(o)' => objs'[o].rel \in 1..nrel'
      BY <1>1 DEF ChainInv, InChain
    <2>2. \A q \in Paths, r \in Rels : Tracked(r, q)' => r <= nrel'
      BY <1>1, BoundsAssumption DEF ChainInv, InChain, Rels
    <2>3. \A q \in Paths : task'[q] # Nil => task'[q].rel <= nrel'
      BY DEF ChainInv, InChain
    <2> QED BY <2>1, <2>2, <2>3 DEF InChain
  <1>4. SnapInv'
    BY <1>1 DEF ChainInv, SnapInv, Covers
  <1>5. ASSUME NEW q \in Paths PROVE TaskAlone(q)'
    <2>1. CASE q = p
      BY <2>1
    <2>2. CASE q # p
      BY <1>1, <2>2 DEF ChainInv, TaskAlone, Creating
    <2> QED BY <2>1, <2>2
  <1> QED BY <1>2, <1>3, <1>4, <1>5 DEF ChainInv

\* The task of a tracked path: the owner has every candidate there is.
LEMMA QueuedAlone ==
    ASSUME IInv, NEW p \in Paths, NEW r \in Rels, NEW act, NEW o, Queue(p, r, act, o),
           UNCHANGED <<objs, rows, listed, base>>,
           \A s \in Rels : Tracked(s, p) => s = r,
           \A x \in ObjIds : Seen(x) /\ objs[x].path = p => objs[x].rel = r,
           o = Nil => \A x \in ObjIds : Live(x) => objs[x].path # p
    PROVE  /\ TaskAlone(p)' /\ task'[p].rel = r
           /\ \A q \in Paths : q # p => task'[q] = task[q]
  <1>1. /\ task'[p].rel = r /\ task'[p].remote = o
        /\ \A q \in Paths : q # p => task'[q] = task[q]
    BY StepTypes DEF Queue
  <1>2. /\ \A x \in ObjIds : (Seen(x)' <=> Seen(x)) /\ (Live(x)' <=> Live(x))
        /\ \A s \in Rels : Tracked(s, p)' <=> Tracked(s, p)
    BY DEF Seen, Live, Tracked
  <1>3. Creating(p)' => \A x \in ObjIds : Live(x)' => objs'[x].path # p
    BY <1>1, <1>2 DEF Creating
  <1>4. task'[p] # Nil => /\ \A s \in Rels : Tracked(s, p)' => s = task'[p].rel
                          /\ \A x \in ObjIds : Seen(x)' /\ objs'[x].path = p => objs'[x].rel = task'[p].rel
    BY <1>1, <1>2
  <1> QED BY <1>1, <1>3, <1>4 DEF TaskAlone

\* In the building of tasks the listings are complete.
LEMMA AllListed ==
    ASSUME SnapInv, pc = "build"
    PROVE  /\ \A o \in ObjIds : Live(o) => listed[o] # Nil
           /\ \A o \in ObjIds : Seen(o) <=> listed[o] # Nil
           /\ \A k \in Keys : IsLive(rows[k]) => base[k] # Nil
  BY DEF SnapInv, Covers, Seen

LEMMA ChainOwned == ASSUME IInv, ChainInv, NEW p \in Paths, BuildOwned(p) PROVE ChainInv'
  <1>1. pc = "build" /\ UNCHANGED <<objs, rows, listed, base, pc, at, nrel>> /\ nrel \in Nat
        /\ \A q \in Paths : task[q] # Nil => task[q].rel \in Nat
    BY StepTypes, BoundsAssumption DEF BuildOwned, Built, snapVars, driveVars, IInv, TypeOK, StoreType, Rels, Task
  <1>2. PICK r \in Owners(p) :
          \E o \in pickRemote(Candidates(r, p), base[<<r, p>>].remoteID) :
            \/ UNCHANGED task \/ \E act : Queue(p, r, act, o)
    BY DEF BuildOwned
  <1>3. PICK o \in pickRemote(Candidates(r, p), base[<<r, p>>].remoteID) :
          UNCHANGED task \/ \E act : Queue(p, r, act, o)
    BY <1>2
  <1>4. r \in Rels /\ Tracked(r, p)
    BY DEF Owners, Tracked
  <1>5. /\ \A s \in Rels : Tracked(s, p) => s = r
        /\ \A x \in ObjIds : Seen(x) /\ objs[x].path = p => objs[x].rel = r
    BY <1>4 DEF ChainInv, OneOwner, OwnerHolds
  <1>6. o = Nil => Candidates(r, p) = {}
    <2>1. ASSUME Candidates(r, p) # {} PROVE o \in Candidates(r, p)
      BY <1>3, <2>1 DEF pickRemote
    <2>2. Nil \notin ObjIds
      BY NilAssumption DEF ObjIds
    <2> QED BY <2>1, <2>2 DEF Candidates
  <1>7. o = Nil => \A x \in ObjIds : Live(x) => objs[x].path # p
    BY <1>1, <1>5, <1>6, AllListed DEF Candidates, Seen, ChainInv
  <1>8. CASE UNCHANGED task
    BY <1>1, <1>8, ChainNarrows DEF Seen, Live, Tracked, ChainInv, SnapInv, Covers
  <1>9. ASSUME NEW act, Queue(p, r, act, o) PROVE ChainInv'
    <2>1. TaskAlone(p)' /\ task'[p].rel = r /\ \A q \in Paths : q # p => task'[q] = task[q]
      BY <1>1, <1>4, <1>5, <1>7, <1>9, QueuedAlone
    <2>2. r <= nrel
      BY <1>4 DEF ChainInv, InChain
    <2> QED BY <1>1, <2>1, <2>2, ChainBuilt
  <1> QED BY <1>3, <1>8, <1>9

\* Where no twin is found, the chain holds nothing at the path.
LEMMA NoTwin ==
    ASSUME IInv, ChainInv, pc = "build", NEW p \in Paths,
           findRemoteTwin(nrel, [r \in Rels |-> Candidates(r, p)]) = {},
           NEW x \in ObjIds, Seen(x)
    PROVE  objs[x].path # p
  <1> SUFFICES ASSUME objs[x].path = p PROVE FALSE
    OBVIOUS
  <1> DEFINE r == objs[x].rel
             at0 == [s \in Rels |-> Candidates(s, p)]
  <1>1. r \in 1..nrel /\ nrel \in Rels /\ r \in Nat
    BY DEF ChainInv, InChain, IInv, TypeOK, StoreType
  <1>2. \A s \in 1..nrel : s \in Rels
    BY <1>1, BoundsAssumption DEF Rels
  <1>3. x \in Candidates(r, p)
    BY AllListed DEF Candidates, ChainInv
  <1>4. \A s \in Rels : s # r => Candidates(s, p) = {}
    BY AllListed DEF Candidates, ChainInv, OneSeen
  <1>5. \A s \in 1..(r - 1) : s \in 1..nrel /\ s # r
    BY <1>1, BoundsAssumption DEF Rels
  <1>6. x \in at0[r] /\ \A s \in 1..(r - 1) : at0[s] = {}
    BY <1>1, <1>2, <1>3, <1>4, <1>5
  <1>7. x \in UNION {at0[s] : s \in 1..nrel}
    BY <1>1, <1>6
  <1> HIDE DEF at0, r
  <1>8. <<r, x>> \in findRemoteTwin(nrel, at0)
    BY <1>1, <1>6, <1>7 DEF findRemoteTwin
  <1> QED BY <1>8 DEF at0

LEMMA TwinInChain ==
    ASSUME NEW n \in Rels, NEW c \in [Rels -> SUBSET ObjIds], NEW t \in findRemoteTwin(n, c)
    PROVE  t[1] \in Rels /\ t[1] <= n /\ t[2] \in c[t[1]]
  BY BoundsAssumption DEF findRemoteTwin, Rels

LEMMA ChainNew == ASSUME IInv, ChainInv, NEW p \in Paths, BuildNew(p) PROVE ChainInv'
  <1> DEFINE cands == [r \in Rels |-> Candidates(r, p)]
             twins == findRemoteTwin(nrel, cands)
  <1>1. pc = "build" /\ UNCHANGED <<objs, rows, listed, base, pc, at>> /\ Owners(p) = {}
        /\ nrel \in Rels /\ nrel \in Nat
        /\ \A q \in Paths : task[q] # Nil => task[q].rel \in Nat
    BY StepTypes, BoundsAssumption DEF BuildNew, Built, snapVars, driveVars, IInv, TypeOK, StoreType, Rels, Task
  <1>2. cands \in [Rels -> SUBSET ObjIds]
    BY DEF Candidates
  <1>3. \A s \in Rels : ~Tracked(s, p)
    <2>1. \A s \in Rels : base[<<s, p>>] = Nil
      BY <1>1 DEF Owners
    <2> QED BY <1>1, <2>1, AllListed DEF Tracked, Keys, ChainInv
  <1> HIDE DEF twins, cands
  <1>4. \/ nrel' = nrel /\ \E t \in twins : \E act : Queue(p, t[1], act, t[2])
        \/ twins = {} /\ \E r \in Rels : nrel' = (IF r > nrel THEN r ELSE nrel) /\ Queue(p, r, "UPLOAD", Nil)
        \/ nrel' \in nrel..MaxRels /\ UNCHANGED task
    BY <1>1 DEF BuildNew, twins, cands
  <1>5. ASSUME NEW t \in twins, NEW act, nrel' = nrel, Queue(p, t[1], act, t[2]) PROVE ChainInv'
    <2>1. t[1] \in Rels /\ t[1] <= nrel /\ t[2] \in cands[t[1]]
      BY <1>1, <1>2, TwinInChain DEF twins
    <2>2. t[2] \in ObjIds /\ listed[t[2]] # Nil /\ objs[t[2]].rel = t[1] /\ objs[t[2]].path = p
      BY <2>1 DEF cands, Candidates
    <2>3. \A x \in ObjIds : Seen(x) /\ objs[x].path = p => objs[x].rel = t[1]
      BY <2>2 DEF ChainInv, OneSeen, Seen
    <2>4. t[2] # Nil
      BY <2>2, NilAssumption DEF ObjIds
    <2>5. PICK r \in Rels, o \in ObjIds : r = t[1] /\ o = t[2]
      BY <2>1, <2>2
    <2>6. Queue(p, r, act, o)
      BY <1>5, <2>5
    <2>7. TaskAlone(p)' /\ task'[p].rel = r /\ \A q \in Paths : q # p => task'[q] = task[q]
      BY <1>1, <1>3, <2>3, <2>4, <2>5, <2>6, QueuedAlone
    <2> QED BY <1>1, <1>5, <2>1, <2>5, <2>7, ChainBuilt
  <1>6. ASSUME twins = {}, NEW r \in Rels, nrel' = (IF r > nrel THEN r ELSE nrel), Queue(p, r, "UPLOAD", Nil)
        PROVE  ChainInv'
    <2>1. \A x \in ObjIds : Seen(x) => objs[x].path # p
      BY <1>1, <1>6, NoTwin DEF twins, cands
    <2>2. TaskAlone(p)' /\ task'[p].rel = r /\ \A q \in Paths : q # p => task'[q] = task[q]
      BY <1>1, <1>3, <1>6, <2>1, QueuedAlone DEF Seen
    <2>3. r \in Nat /\ nrel' \in Nat /\ nrel <= nrel' /\ r <= nrel'
      BY <1>1, <1>6, BoundsAssumption DEF Rels
    <2> QED BY <1>1, <2>2, <2>3, ChainBuilt
  <1>7. ASSUME nrel' \in nrel..MaxRels, UNCHANGED task PROVE ChainInv'
    <2>1. nrel' \in Nat /\ nrel <= nrel'
      BY <1>1, <1>7, BoundsAssumption
    <2>2. TaskAlone(p)' /\ (task'[p] # Nil => task'[p].rel <= nrel')
      BY <1>1, <1>7, <2>1 DEF ChainInv, TaskAlone, Creating, Live, Seen, Tracked, InChain
    <2> QED BY <1>1, <1>7, <2>1, <2>2, ChainBuilt
  <1> QED BY <1>4, <1>5, <1>6, <1>7

LEMMA InitChain == Init => ChainInv
  BY DEF Init, ChainInv, OneSeen, OneOwner, OwnerHolds, InChain, SnapInv, TaskAlone, Creating, Seen, Live,
     Tracked, Covers, Unused, NoListing, NoRows, NoTasks, IsLive, Keys

LEMMA NextChain ==
    ASSUME IInv, ChainInv, [Next]_vars, ~May("cloudstray"), ~May("dbloss") \/ MaxRels = 1, RestoreApart
    PROVE  ChainInv'
  BY StepKinds, ChainRuns, ChainBegins, ChainListed, ChainLoaded, ChainDrops, ChainOwned, ChainNew

\* Unique, hence at most one.
LEMMA AtMostOne ==
    ASSUME NEW S, \A a \in S, b \in S : a = b
    PROVE  Cardinality(S) <= 1
  <1>1. CASE S = {}
    BY <1>1, FS_EmptySet
  <1>2. CASE S # {}
    <2>1. PICK a \in S : TRUE
      BY <1>2
    <2>2. S = {a}
      BY <2>1
    <2> QED BY <2>2, FS_Singleton
  <1> QED BY <1>1, <1>2

LEMMA ChainInvSuffices == ChainInv => NoDuplicateUploads
  <1> SUFFICES ASSUME ChainInv, NEW p \in Paths PROVE Cardinality(Copies(p)) <= 1
    BY DEF NoDuplicateUploads
  <1>1. \A a \in Copies(p), b \in Copies(p) : a = b
    BY DEF Copies, ChainInv, OneSeen, Seen, Live
  <1> QED BY <1>1, AtMostOne

\* Without restores.
NoRestore == rs = Nil
LEMMA NextNoRestore == ASSUME IInv, NoRestore, [Next]_vars, ~May("restore") PROVE NoRestore'
  BY RestoreAfter DEF NoRestore
-----------------------------------------------------------------------------
(* One owner per path: without restores, whatever the cloud does beside    *)
(* and however often the database is lost.                                 *)

\* What a pass has loaded covers the rows of the relations behind it ...
Loaded(k) == (pc \in {"list", "base"} /\ k[1] < at) \/ pc = "build"
BaseInv == /\ pc \in {"idle", "exec"} => base = NoRows
           /\ \A k \in Keys : IsLive(rows[k]) /\ Loaded(k) => base[k] # Nil
           /\ pc \in {"list", "base"} => at <= nrel

\* ... and a task works for the one relation that tracks its path, if any.
TaskOwns(p) == task[p] # Nil => /\ task[p].rel <= nrel
                                /\ \A r \in Rels : Tracked(r, p) => r = task[p].rel

OwnerInv == /\ OneOwner /\ BaseInv /\ NoRestore
            /\ \A p \in Paths, r \in Rels : Tracked(r, p) => r <= nrel
            /\ \A p \in Paths : TaskOwns(p)

LEMMA OwnerRuns ==
    ASSUME IInv, OwnerInv, [Next]_vars, Running, ~May("restore")
    PROVE  OwnerInv'
  <1>1. NoRestore' /\ rs = Nil
    BY NextNoRestore DEF OwnerInv, NoRestore
  <1>2. ASSUME NEW p \in Paths, NEW r \in Rels, Tracked(r, p)'
        PROVE  Tracked(r, p) \/ (task[p] # Nil /\ task[p].rel = r /\ pc = "exec")
    BY <1>1, <1>2, TrackedRuns
  <1>3. OneOwner'
    <2> SUFFICES ASSUME NEW p \in Paths, NEW r1 \in Rels, NEW r2 \in Rels, Tracked(r1, p)', Tracked(r2, p)'
                 PROVE  r1 = r2
      BY DEF OneOwner
    <2>1. /\ Tracked(r1, p) \/ (task[p] # Nil /\ task[p].rel = r1)
          /\ Tracked(r2, p) \/ (task[p] # Nil /\ task[p].rel = r2)
      BY <1>2
    <2>2. task[p] # Nil => \A r \in Rels : Tracked(r, p) => r = task[p].rel
      BY DEF OwnerInv, TaskOwns
    <2> QED BY <2>1, <2>2 DEF OwnerInv, OneOwner
  <1>4. BaseInv'
    <2> SUFFICES ASSUME NEW k \in Keys, IsLive(rows'[k]), Loaded(k)' PROVE base'[k] # Nil
      BY DEF BaseInv, OwnerInv, Running
    <2>1. pc # "exec" /\ Loaded(k)
      BY DEF Loaded, Running
    <2>2. k = <<k[1], k[2]>> /\ k[1] \in Rels /\ k[2] \in Paths
      BY DEF Keys
    <2>3. Tracked(k[1], k[2])'
      BY <2>2 DEF Tracked
    <2>4. Tracked(k[1], k[2])
      BY <1>2, <2>1, <2>2, <2>3
    <2> QED BY <2>1, <2>2, <2>4 DEF Tracked, Running, OwnerInv, BaseInv
  <1>5. ASSUME NEW p \in Paths, NEW r \in Rels, Tracked(r, p)' PROVE r <= nrel'
    BY <1>2, <1>5 DEF OwnerInv, TaskOwns, Running
  <1>6. ASSUME NEW p \in Paths PROVE TaskOwns(p)'
    BY <1>2 DEF OwnerInv, TaskOwns, Running, TaskLater
  <1> QED BY <1>1, <1>3, <1>4, <1>5, <1>6 DEF OwnerInv

\* A step after which nothing new is tracked and no new task is queued.
LEMMA OwnerNarrows ==
    ASSUME OwnerInv, nrel' = nrel, NoRestore', BaseInv',
           \A p \in Paths, r \in Rels : Tracked(r, p)' => Tracked(r, p),
           \A p \in Paths : task'[p] = task[p] \/ task'[p] = Nil
    PROVE  OwnerInv'
  <1>1. OneOwner'
    BY DEF OwnerInv, OneOwner
  <1>2. ASSUME NEW p \in Paths PROVE TaskOwns(p)'
    BY DEF OwnerInv, TaskOwns
  <1> QED BY <1>1, <1>2 DEF OwnerInv

LEMMA OwnerReads ==
    ASSUME IInv, OwnerInv, NoRestore', BeginPass \/ ListRemote \/ LoadBase
    PROVE  OwnerInv'
  <1> USE DEF driveVars, storeVars, poolVars
  <1>1. UNCHANGED <<nrel, rows, task>>
    BY DEF BeginPass, ListRemote, LoadBase
  <1>2. nrel \in Nat /\ nrel >= 1
    BY BoundsAssumption DEF IInv, TypeOK, StoreType, Rels
  <1>3. CASE BeginPass
    <2>1. pc' = "list" /\ at' = 1 /\ base' = base
      BY <1>3 DEF BeginPass
    <2>2. \A k \in Keys : ~(k[1] < 1)
      BY BoundsAssumption DEF Keys, Rels
    <2>3. BaseInv'
      BY <1>1, <1>2, <2>1, <2>2 DEF BaseInv, Loaded
    <2> QED BY <1>1, <2>1, <2>3, OwnerNarrows DEF Tracked
  <1>4. CASE ListRemote
    <2>1. pc = "list" /\ pc' = "base" /\ UNCHANGED <<at, base>>
      BY <1>4 DEF ListRemote
    <2>2. BaseInv'
      BY <1>1, <2>1 DEF OwnerInv, BaseInv, Loaded
    <2> QED BY <1>1, <2>1, <2>2, OwnerNarrows DEF Tracked
  <1>5. CASE LoadBase
    <2>1. pc = "base" /\ \/ at < nrel /\ pc' = "list" /\ at' = at + 1
                         \/ ~(at < nrel) /\ pc' = "build" /\ at' = at
      BY <1>5 DEF LoadBase
    <2>2. \A k \in Keys : base'[k] = IF k[1] = at THEN IF IsLive(rows[k]) THEN rows[k] ELSE Nil ELSE base[k]
      BY <1>5 DEF LoadBase
    <2>3. at \in Nat /\ at <= nrel
      BY <2>1, BoundsAssumption DEF IInv, TypeOK, PassType, OwnerInv, BaseInv
    <2>4. \A p \in Paths, r \in Rels : Tracked(r, p)' => Tracked(r, p)
      BY <1>1, <2>2 DEF Tracked, Keys
    <2>5. ASSUME NEW k \in Keys, IsLive(rows'[k]), Loaded(k)' PROVE base'[k] # Nil
      <3>1. k = <<k[1], k[2]>> /\ k[1] \in Rels /\ k[2] \in Paths /\ k[1] \in Nat
        BY BoundsAssumption DEF Keys, Rels
      <3>2. k[1] <= nrel /\ IsLive(rows[k])
        BY <1>1, <2>5, <3>1 DEF OwnerInv, Tracked
      <3>3. k[1] = at \/ k[1] < at
        BY <1>2, <2>1, <2>3, <2>5, <3>1, <3>2 DEF Loaded
      <3> QED BY <2>1, <2>2, <3>2, <3>3 DEF OwnerInv, BaseInv, Loaded, IsLive
    <2>6. BaseInv'
      BY <1>1, <1>2, <2>1, <2>3, <2>5 DEF BaseInv
    <2> QED BY <1>1, <2>4, <2>6, OwnerNarrows
  <1> QED BY <1>3, <1>4, <1>5

LEMMA OwnerDrops ==
    ASSUME IInv, OwnerInv, NoRestore', AbortPass \/ EndPass \/ StartExec \/ Crash
    PROVE  OwnerInv'
  <1>1. base' = NoRows /\ pc' \in {"idle", "exec"}
    BY DEF AbortPass, EndPass, StartExec, Crash, ReturnFromPass
  <1>2. BaseInv'
    BY <1>1 DEF BaseInv, Loaded
  <1>3. CASE UNCHANGED <<rows, nrel>>
    <2>1. task' = task \/ task' = NoTasks
      BY DEF AbortPass, EndPass, StartExec, Crash, ReturnFromPass, poolVars
    <2>2. \A p \in Paths, r \in Rels : Tracked(r, p)' => Tracked(r, p)
      BY <1>1, <1>3 DEF Tracked, NoRows, Keys
    <2> QED BY <1>2, <1>3, <2>1, <2>2, OwnerNarrows DEF NoTasks
  <1>4. CASE rows' = NoRows /\ task' = NoTasks
    <2>1. \A p \in Paths, r \in Rels : ~Tracked(r, p)'
      BY <1>1, <1>4 DEF Tracked, NoRows, IsLive, Keys
    <2> QED BY <1>2, <1>4, <2>1 DEF OwnerInv, OneOwner, TaskOwns, NoTasks
  <1> QED BY <1>3, <1>4 DEF AbortPass, EndPass, StartExec, Crash, ReturnFromPass, storeVars

\* The building of a task for a path that no other relation tracks.
LEMMA OwnerBuilt ==
    ASSUME IInv, OwnerInv, NoRestore', NEW p \in Paths, Built(p),
           nrel' \in Nat, nrel <= nrel',
           \/ UNCHANGED task
           \/ \E r \in Rels : /\ \E act, o : Queue(p, r, act, o)
                              /\ r <= nrel' /\ \A s \in Rels : Tracked(s, p) => s = r
    PROVE  OwnerInv'
  <1>0. /\ UNCHANGED <<rows, base, pc, at>> /\ pc = "build"
        /\ task \in [Paths -> Task \cup {Nil}] /\ nrel \in Nat
        /\ \A q \in Paths : task[q] # Nil => task[q].rel \in Nat
    BY StepTypes, BoundsAssumption DEF Built, snapVars, IInv, TypeOK, StoreType, Rels, Task
  <1>1. \A q \in Paths, r \in Rels : Tracked(r, q)' <=> Tracked(r, q)
    BY <1>0 DEF Tracked
  <1>2. OneOwner' /\ BaseInv'
    BY <1>0, <1>1 DEF OwnerInv, OneOwner, BaseInv, Loaded
  <1>3. ASSUME NEW q \in Paths, NEW r \in Rels, Tracked(r, q)' PROVE r <= nrel'
    BY <1>0, <1>1, <1>3, BoundsAssumption DEF OwnerInv, Rels
  <1>4. ASSUME NEW q \in Paths, task'[q] = task[q] PROVE TaskOwns(q)'
    BY <1>0, <1>1, <1>4 DEF OwnerInv, TaskOwns
  <1>5. ASSUME NEW q \in Paths PROVE TaskOwns(q)'
    <2>1. CASE UNCHANGED task
      BY <1>4, <2>1
    <2>2. ASSUME NEW r \in Rels, NEW act, NEW o, Queue(p, r, act, o), r <= nrel',
                 \A s \in Rels : Tracked(s, p) => s = r
          PROVE  TaskOwns(q)'
      <3>1. q # p => task'[q] = task[q]
        BY <1>0, <2>2 DEF Queue
      <3>2. q = p => task'[q].rel = r
        BY <1>0, <2>2 DEF Queue
      <3>3. CASE q = p
        BY <1>1, <2>2, <3>2, <3>3 DEF TaskOwns
      <3> QED BY <1>4, <3>1, <3>3
    <2> QED BY <2>1, <2>2
  <1> QED BY <1>2, <1>3, <1>5 DEF OwnerInv

LEMMA OwnerBuilds ==
    ASSUME IInv, OwnerInv, NoRestore', NEW p \in Paths, BuildOwned(p) \/ BuildNew(p)
    PROVE  OwnerInv'
  <1>0. nrel \in Rels /\ nrel \in Nat
    BY BoundsAssumption DEF IInv, TypeOK, StoreType, Rels
  <1>1. Built(p)
    BY DEF BuildOwned, BuildNew
  <1>2. CASE BuildOwned(p)
    <2>1. PICK r \in Owners(p) :
            \E o \in pickRemote(Candidates(r, p), base[<<r, p>>].remoteID) :
              nrel' = nrel /\ (UNCHANGED task \/ \E act : Queue(p, r, act, o))
      BY <1>2 DEF BuildOwned
    <2>2. r \in Rels /\ Tracked(r, p)
      BY DEF Owners, Tracked
    <2>3. r <= nrel /\ \A s \in Rels : Tracked(s, p) => s = r
      BY <2>2 DEF OwnerInv, OneOwner
    <2> QED BY <1>0, <1>1, <2>1, <2>2, <2>3, OwnerBuilt
  <1>3. CASE BuildNew(p)
    <2> DEFINE cands == [r \in Rels |-> Candidates(r, p)]
               twins == findRemoteTwin(nrel, cands)
    <2>1. cands \in [Rels -> SUBSET ObjIds]
      BY DEF Candidates
    <2>2. \A s \in Rels : ~Tracked(s, p)
      <3>1. \A s \in Rels : base[<<s, p>>] = Nil
        BY <1>3 DEF BuildNew, Owners
      <3> QED BY <1>0, <1>1, <3>1 DEF Tracked, Keys, Built, OwnerInv, BaseInv, Loaded
    <2> HIDE DEF twins, cands
    <2>3. \/ nrel' = nrel /\ \E t \in twins : \E act : Queue(p, t[1], act, t[2])
          \/ \E r \in Rels : nrel' = (IF r > nrel THEN r ELSE nrel) /\ Queue(p, r, "UPLOAD", Nil)
          \/ nrel' \in nrel..MaxRels /\ UNCHANGED task
      BY <1>3 DEF BuildNew, twins, cands
    <2>4. ASSUME NEW t \in twins, NEW act, nrel' = nrel, Queue(p, t[1], act, t[2]) PROVE OwnerInv'
      <3>1. t[1] \in Rels /\ t[1] <= nrel
        BY <1>0, <1>1, <2>1, TwinInChain DEF twins
      <3>2. PICK r \in Rels, o \in {t[2]} : r = t[1] /\ o = t[2]
        BY <3>1
      <3>3. Queue(p, r, act, o)
        BY <2>4, <3>2
      <3> QED BY <1>0, <1>1, <2>2, <2>4, <3>1, <3>2, <3>3, OwnerBuilt
    <2>5. ASSUME NEW r \in Rels, nrel' = (IF r > nrel THEN r ELSE nrel), Queue(p, r, "UPLOAD", Nil)
          PROVE  OwnerInv'
      <3>1. nrel' \in Nat /\ nrel <= nrel' /\ r <= nrel'
        BY <1>0, <1>1, <2>5, BoundsAssumption DEF Rels
      <3> QED BY <1>0, <1>1, <2>2, <2>5, <3>1, OwnerBuilt
    <2>6. ASSUME nrel' \in nrel..MaxRels, UNCHANGED task PROVE OwnerInv'
      <3>1. nrel' \in Nat /\ nrel <= nrel'
        BY <1>0, <1>1, <2>6, BoundsAssumption
      <3> QED BY <1>0, <1>1, <2>6, <3>1, OwnerBuilt
    <2> QED BY <2>3, <2>4, <2>5, <2>6
  <1> QED BY <1>2, <1>3

LEMMA InitOwner == Init => OwnerInv
  BY DEF Init, OwnerInv, OneOwner, BaseInv, Loaded, NoRestore, TaskOwns, Tracked, NoRows, NoTasks, IsLive, Keys

LEMMA NextOwner == ASSUME IInv, OwnerInv, [Next]_vars, ~May("restore") PROVE OwnerInv'
  <1>1. NoRestore'
    BY NextNoRestore DEF OwnerInv
  <1> QED BY <1>1, StepKinds, OwnerRuns, OwnerReads, OwnerDrops, OwnerBuilds

\* Where nothing is restored, no interleaving of passes with edits, sweeps,
\* purges and changes of the cloud, no retry after a failed call or a lost
\* reply, and no crash with or without the database makes two relations of
\* the chain track one path.
THEOREM ChainDisjoint ==
    ASSUME ~May("restore")
    PROVE  Spec => []ChainIsDisjoint
  <1>1. IInv /\ OwnerInv /\ [Next]_vars => OwnerInv'
    BY NextOwner
  <1>2. OwnerInv => ChainIsDisjoint
    <2> SUFFICES ASSUME OwnerInv, NEW p \in Paths
                 PROVE  Cardinality({r \in Rels : IsLive(rows[<<r, p>>])}) <= 1
      BY DEF ChainIsDisjoint
    <2> DEFINE owners == {r \in Rels : IsLive(rows[<<r, p>>])}
    <2>1. \A a \in owners, b \in owners : a = b
      BY DEF OwnerInv, OneOwner, Tracked
    <2> HIDE DEF owners
    <2>2. Cardinality(owners) <= 1
      BY <2>1, AtMostOne
    <2> QED BY <2>2 DEF owners
  <1> QED BY <1>1, <1>2, InitOwner, Invariance, PTL DEF Spec
-----------------------------------------------------------------------------
(* One object per path beside restores: in a chain of one relation, while  *)
(* no call fails and no process dies.                                      *)

\* Tasks are sent while the pool runs.
SentInExec == \A p \in Paths : task[p] # Nil /\ task[p].phase = "sent" => pc = "exec"

\* Where a TRASHED row or a trash task stands, nothing is live, until the
\* upload of a file created again is recorded ...
TrashedApart ==
    \A k \in Keys, o \in ObjIds : IsTrashed(rows[k]) /\ Live(o) /\ objs[o].path = k[2] => SentUpload(k[2])
TrashSent(p) == task[p] # Nil /\ task[p].act = "TRASH" /\ task[p].phase = "sent"
TrashLeavesNone ==
    \A p \in Paths, o \in ObjIds : TrashSent(p) /\ Live(o) => objs[o].path # p

\* ... and a live row or a task that names an object names the live one.
RowNamesLive ==
    \A k \in Keys, o \in ObjIds : IsLive(rows[k]) /\ Live(o) /\ objs[o].path = k[2]
        => rows[k].remoteID = o \/ SentUpload(k[2])
TaskNamesLive ==
    \A p \in Paths, o \in ObjIds : task[p] # Nil /\ task[p].remote # Nil /\ Live(o) /\ objs[o].path = p
        => task[p].remote = o

\* A restore finds its path free, and its row names the object it moves back.
RestoreFindsFree ==
    rs # Nil => /\ \A o \in ObjIds : Live(o) => objs[o].path # rs.id[2]
                /\ rs.step = "owned" => rows[rs.id] = Nil \/ rows[rs.id].remoteID = rs.obj

RestoreChainInv == /\ SentInExec /\ TrashedApart /\ TrashLeavesNone /\ RowNamesLive /\ TaskNamesLive
                   /\ RestoreFindsFree

\* A chain of one relation whose calls succeed and whose daemon keeps running.
Calm == MaxRels = 1 /\ ~May("cloudstray") /\ ~May("crash") /\ ~May("apifail") /\ ~May("lostreply")

\* How a task comes to be what it is.
LEMMA TaskChanges ==
    ASSUME IInv, [Next]_vars, NEW p \in Paths, task'[p] # Nil, task'[p] # task[p]
    PROVE  \/ /\ pc = "build" /\ UNCHANGED objs /\ task'[p].phase = "queued"
              /\ \/ task'[p].remote = Nil
                 \/ task'[p].remote \in ObjIds /\ listed[task'[p].remote] # Nil /\ objs[task'[p].remote].path = p
           \/ /\ pc = "exec" /\ task[p] # Nil /\ task'[p].act = task[p].act
              /\ task[p].act # "TRASH" /\ (Creating(p) \/ task'[p].remote = task[p].remote)
           \/ /\ pc = "exec" /\ task[p] # Nil /\ TrashMove(p) /\ task'[p].act = "TRASH"
              /\ task'[p].remote = task[p].remote
  <1>0. task \in [Paths -> Task \cup {Nil}]
    BY StepTypes
  <1> DEFINE Built1 == /\ pc = "build" /\ UNCHANGED objs /\ task'[p].phase = "queued"
                       /\ \/ task'[p].remote = Nil
                          \/ task'[p].remote \in ObjIds /\ listed[task'[p].remote] # Nil
                             /\ objs[task'[p].remote].path = p
             Sends == /\ pc = "exec" /\ task[p] # Nil /\ task'[p].act = task[p].act
                      /\ task[p].act # "TRASH" /\ (Creating(p) \/ task'[p].remote = task[p].remote)
             Moves == /\ pc = "exec" /\ task[p] # Nil /\ TrashMove(p) /\ task'[p].act = "TRASH"
                      /\ task'[p].remote = task[p].remote
  <1>1. ASSUME NEW q \in Paths, TaskStep(q) PROVE Sends \/ Moves
    <2>1. CASE Done(q)
      BY <1>0, <2>1 DEF Done
    <2>2. CASE TrashMove(q) /\ task' = [task EXCEPT ![q] = [@ EXCEPT !.phase = "sent"]]
      <3>1. p = q /\ task[q] \in Task /\ task[q] # Nil /\ task[q].act = "TRASH" /\ pc = "exec"
        BY <1>0, <2>2 DEF TrashMove, Executing
      <3> QED BY <1>0, <2>2, <3>1 DEF Task
    <2>3. CASE UploadSend(q)
      <3>1. PICK o \in ObjIds : UploadTo(q, o) /\ task' = [task EXCEPT ![q] = [@ EXCEPT !.remote = o,
                                                             !.md5 = local[q].content, !.phase = "sent"]]
        BY <2>3 DEF UploadSend
      <3>2. /\ p = q /\ task[q] \in Task /\ task[q] # Nil /\ pc = "exec"
            /\ task[q].act \in Uploads /\ task[q].phase = "queued"
        BY <1>0, <2>3, <3>1 DEF UploadSend, Executing
      <3>3. task'[p].act = task[p].act /\ task'[p].remote = o
        BY <1>0, <3>1, <3>2 DEF Task
      <3>4. Creating(p) \/ o = task[p].remote
        BY <3>1, <3>2 DEF UploadTo, Creating
      <3> QED BY <3>2, <3>3, <3>4 DEF Uploads
    <2> QED BY <1>1, <2>1, <2>2, <2>3 DEF TaskStep, UploadLost, UploadRecord, Adopt, TrashMove, TrashMark,
                                          TaskError, TaskFail
  <1>2. ASSUME NEW q \in Paths, NEW r, NEW act, NEW o, Queue(q, r, act, o), pc = "build", UNCHANGED objs,
               o = Nil \/ (o \in ObjIds /\ listed[o] # Nil /\ objs[o].path = q)
        PROVE  Built1
    <2>1. p = q /\ task'[p].remote = o /\ task'[p].phase = "queued"
      BY <1>0, <1>2 DEF Queue
    <2> QED BY <1>2, <2>1
  <1>3. ASSUME NEW q \in Paths, BuildOwned(q) PROVE Built1
    <2>1. PICK r \in Owners(q) :
            \E o \in pickRemote(Candidates(r, q), base[<<r, q>>].remoteID) :
              UNCHANGED task \/ \E act : Queue(q, r, act, o)
      BY <1>3 DEF BuildOwned
    <2>2. PICK o \in pickRemote(Candidates(r, q), base[<<r, q>>].remoteID) :
            UNCHANGED task \/ \E act : Queue(q, r, act, o)
      BY <2>1
    <2>3. o = Nil \/ (o \in ObjIds /\ listed[o] # Nil /\ objs[o].path = q)
      BY PickedIsCandidate DEF Candidates
    <2>4. pc = "build" /\ UNCHANGED objs
      BY <1>3 DEF BuildOwned, Built, driveVars
    <2> HIDE DEF Built1
    <2> QED BY <1>2, <2>2, <2>3, <2>4
  <1>4. ASSUME NEW q \in Paths, BuildNew(q) PROVE Built1
    <2> DEFINE cands == [r \in Rels |-> Candidates(r, q)]
               twins == findRemoteTwin(nrel, cands)
    <2>1. nrel \in Rels /\ cands \in [Rels -> SUBSET ObjIds]
      BY DEF IInv, TypeOK, StoreType, Candidates
    <2>2. \A t \in twins : t[2] \in ObjIds /\ listed[t[2]] # Nil /\ objs[t[2]].path = q
      <3> HIDE DEF cands
      <3>1. \A t \in twins : t[1] \in Rels /\ t[2] \in cands[t[1]]
        BY <2>1, TwinIsCandidate
      <3> QED BY <3>1 DEF cands, Candidates
    <2> HIDE DEF twins, cands
    <2>3. \/ UNCHANGED task \/ \E r : Queue(q, r, "UPLOAD", Nil)
          \/ \E t \in twins : \E act : Queue(q, t[1], act, t[2])
      BY <1>4 DEF BuildNew, twins, cands
    <2>4. pc = "build" /\ UNCHANGED objs
      BY <1>4 DEF BuildNew, Built, driveVars
    <2> HIDE DEF Built1
    <2> QED BY <1>2, <2>2, <2>3, <2>4
  <1>5. CASE PassStep
    <2>1. ASSUME BeginPass \/ ListRemote \/ LoadBase \/ AbortPass \/ StartExec \/ EndPass PROVE FALSE
      BY <2>1 DEF BeginPass, ListRemote, LoadBase, AbortPass, StartExec, EndPass, ReturnFromPass, poolVars
    <2>2. ASSUME NEW o \in ObjIds, Dedupe(o) PROVE FALSE
      BY <2>2 DEF Dedupe
    <2> HIDE DEF Built1, Sends, Moves
    <2>3. Built1 \/ Sends \/ Moves
      BY <1>1, <1>3, <1>4, <1>5, <2>1, <2>2 DEF PassStep, PoolStep, BuildStep
    <2> QED BY <2>3 DEF Built1, Sends, Moves
  <1>6. CASE SweepStep \/ PurgeStep \/ RestoreStep
    BY <1>6 DEF SweepStep, PurgeStep, ReapStep, SweepStart, Reap, ReapFail, DropRow, PurgeEnd, poolVars,
       RestoreStep, RestoreUpsert, RestoreMove, RestoreFail
  <1>7. CASE UserStep \/ CloudStep \/ Tick \/ UNCHANGED vars
    BY <1>7 DEF UserStep, UserWrite, UserDelete, PurgeStart, RestoreDownload, CloudStep, CloudDelete, CloudTamper,
       CloudStray, CloudChange, Tick, daemonVars, poolVars, vars
  <1>8. CASE Crash
    BY <1>8 DEF Crash, NoTasks
  <1> QED BY <1>5, <1>6, <1>7, <1>8 DEF Next

\* A sent upload ends when it is recorded, if it does not fail.
LEMMA SentEnds ==
    ASSUME IInv, [Next]_vars, Calm, NEW p \in Paths, SentUpload(p), pc = "exec", ~SentUpload(p)'
    PROVE  rows' = NoRows \/ UploadRecord(p)
  <1>0. task \in [Paths -> Task \cup {Nil}]
    BY StepTypes
  <1>1. ASSUME NEW q \in Paths, TaskStep(q) PROVE UploadRecord(p)
    <2>1. CASE q # p
      <3>1. task'[p] = task[p]
        BY <1>0, <1>1, <2>1 DEF TaskStep, UploadSend, UploadLost, UploadRecord, Adopt, TrashMove, TrashMark,
           TaskError, TaskFail, Done
      <3> QED BY <3>1 DEF SentUpload
    <2>2. CASE q = p
      BY <1>1, <2>2 DEF TaskStep, UploadSend, UploadLost, Adopt, TrashMove, TrashMark, TaskError, TaskFail,
         CanFail, Executing, SentUpload, Uploads, Calm
    <2> QED BY <2>1, <2>2
  <1>2. ASSUME UNCHANGED task PROVE FALSE
    BY <1>2 DEF SentUpload
  <1>3. CASE PassStep
    <2>1. CASE BeginPass \/ ListRemote \/ LoadBase \/ AbortPass \/ StartExec \/ EndPass
      BY <1>2, <2>1 DEF BeginPass, ListRemote, LoadBase, AbortPass, StartExec, EndPass, ReturnFromPass, poolVars
    <2>2. ASSUME NEW o \in ObjIds, Dedupe(o) PROVE task' = task
      BY <2>2 DEF Dedupe
    <2>3. ~BuildStep
      BY DEF BuildStep, BuildOwned, BuildNew, Built
    <2> QED BY <1>1, <1>2, <1>3, <2>1, <2>2, <2>3 DEF PassStep, PoolStep
  <1>4. CASE SweepStep \/ PurgeStep \/ RestoreStep
    BY <1>2, <1>4 DEF SweepStep, PurgeStep, ReapStep, SweepStart, Reap, ReapFail, DropRow, PurgeEnd, poolVars,
       RestoreStep, RestoreUpsert, RestoreMove, RestoreFail
  <1>5. CASE UserStep \/ CloudStep \/ Tick \/ UNCHANGED vars
    BY <1>2, <1>5 DEF UserStep, UserWrite, UserDelete, PurgeStart, RestoreDownload, CloudStep, CloudDelete,
       CloudTamper, CloudStray, CloudChange, Tick, daemonVars, poolVars, vars
  <1>6. CASE Crash
    BY <1>6 DEF Crash, Calm
  <1> QED BY <1>3, <1>4, <1>5, <1>6 DEF Next
\* In a chain of one relation the path is the key.
LEMMA OneKey ==
    ASSUME MaxRels = 1, NEW k \in Keys, NEW j \in Keys, k[2] = j[2]
    PROVE  k = j
  <1>1. k[1] \in 1..1 /\ j[1] \in 1..1
    BY DEF Keys, Rels
  <1>2. k = <<k[1], k[2]>> /\ j = <<j[1], j[2]>>
    BY DEF Keys
  <1> QED BY <1>1, <1>2

\* Beside a restore no task runs.
LEMMA RestoreIdles == ASSUME IInv, rs # Nil PROVE pc = "idle" /\ \A p \in Paths : task[p] = Nil
  BY DEF IInv, MutexInv, NoTasks

\* Where what is live comes from.
LEMMA LiveCalm ==
    ASSUME IInv, [Next]_vars, Calm, NEW o \in ObjIds, objs'[o].where = "live"
    PROVE  \/ Live(o) /\ objs'[o].path = objs[o].path
           \/ /\ RestoredBy(o) /\ rs.id \in Keys /\ objs'[o].path = rs.id[2]
              /\ \A p \in Paths : task[p] = Nil
           \/ \E p \in Paths : /\ pc = "exec" /\ objs'[o].path = p /\ CreatedBy(p, o)
                               /\ SentUpload(p)' /\ task'[p].remote = o
  <1>1. CASE Live(o)
    BY <1>1, LiveAfter DEF Live, Calm
  <1>2. CASE RestoredBy(o)
    <2>1. objs[o].path = rs.id[2] /\ objs[o].where # "none"
      BY <1>2 DEF RestoredBy, IInv, RestoreInv, IsObjectOf
    <2>2. rs.id \in Keys
      BY <1>2, StepTypes DEF RestoredBy, Restoring
    <2> QED BY <1>2, <2>1, <2>2, LiveAfter, RestoreIdles DEF RestoredBy, Calm
  <1>3. ASSUME NEW p \in Paths, CreatedBy(p, o)
        PROVE  /\ pc = "exec" /\ objs'[o].path = p
               /\ SentUpload(p)' /\ task'[p].remote = o
    BY <1>3 DEF CreatedBy, Calm
  <1> QED BY <1>1, <1>2, <1>3, LiveAfter DEF Calm, Live

\* When a sent upload is over, its row names its object, unless all rows are lost.
LEMMA SentLeaves ==
    ASSUME IInv, [Next]_vars, Calm, SentInExec, NEW k \in Keys, SentUpload(k[2]), ~SentUpload(k[2])',
           rows'[k] # Nil
    PROVE  /\ IsLive(rows'[k]) /\ rows'[k].remoteID = task[k[2]].remote /\ task[k[2]].remote # Nil
  <1>1. k[2] \in Paths
    BY DEF Keys
  <1>2. rows' = NoRows \/ UploadRecord(k[2])
    BY <1>1, SentEnds DEF SentInExec, SentUpload
  <1>3. rows' # NoRows
    BY DEF NoRows
  <1>4. UploadRecord(k[2])
    BY <1>2, <1>3
  <1>5. <<task[k[2]].rel, k[2]>> \in Keys
    BY <1>1, <1>4, RowOfTask
  <1>6. k = <<task[k[2]].rel, k[2]>>
    BY <1>5, OneKey DEF Calm
  <1>7. PICK status \in {"SYNCED", "CONFLICT"} : rows'[<<task[k[2]].rel, k[2]>>] = Recorded(k[2], status)
    BY <1>1, <1>4, RowOfTask
  <1>8. rows'[k] = Recorded(k[2], status)
    BY <1>6, <1>7
  <1>9. Recorded(k[2], status).status # "TRASHED" /\ Recorded(k[2], status).remoteID = task[k[2]].remote
    BY DEF Recorded
  <1>10. task[k[2]].remote # Nil
    BY <1>1 DEF IInv, TaskReadyInv, SentUpload
  <1> QED BY <1>8, <1>9, <1>10 DEF IsLive

LEMMA NextSentInExec == ASSUME IInv, SentInExec, [Next]_vars PROVE SentInExec'
  <1> SUFFICES ASSUME NEW p \in Paths, task'[p] # Nil, task'[p].phase = "sent" PROVE pc' = "exec"
    BY DEF SentInExec
  <1>1. pc = "exec"
    BY TaskChanges DEF SentInExec
  <1>2. task # NoTasks /\ task' # NoTasks
    <2>1. task[p] # Nil
      BY TaskChanges, <1>1
    <2> QED BY <2>1 DEF NoTasks
  <1>3. mu = "pass"
    BY <1>1 DEF IInv, MutexInv
  <1> QED BY <1>1, <1>2, <1>3, StepKinds DEF BeginPass, ListRemote, LoadBase, AbortPass, EndPass, StartExec,
         Crash, BuildOwned, BuildNew, Built, Running

LEMMA NextTrashedApart ==
    ASSUME IInv, RestoreChainInv, [Next]_vars, Calm PROVE TrashedApart'
  <1> SUFFICES ASSUME NEW k \in Keys, NEW o \in ObjIds, IsTrashed(rows'[k]), objs'[o].where = "live",
                      objs'[o].path = k[2]
               PROVE  SentUpload(k[2])'
    BY DEF TrashedApart, Live
  <1>0. k[2] \in Paths
    BY DEF Keys
  <1>1. CASE rows'[k] # rows[k]
    <2>1. UNCHANGED objs /\ TrashSent(k[2])
      BY <1>1, WhoTrashes DEF TrashSent
    <2> QED BY <1>0, <2>1 DEF RestoreChainInv, TrashLeavesNone, Live
  <1>2. CASE rows'[k] = rows[k] /\ Live(o) /\ objs[o].path = k[2]
    <2>1. SentUpload(k[2])
      BY <1>2 DEF RestoreChainInv, TrashedApart
    <2> QED BY <2>1, SentLeaves DEF RestoreChainInv, IsTrashed, IsLive
  <1>3. CASE rows'[k] = rows[k] /\ RestoredBy(o) /\ rs.id \in Keys /\ objs'[o].path = rs.id[2]
    <2>1. k = rs.id
      BY <1>3, OneKey DEF Calm
    <2> QED BY <1>3, <2>1 DEF RestoredBy, IInv, RestoreInv
  <1> QED BY <1>1, <1>2, <1>3, LiveCalm

LEMMA NextRowNamesLive ==
    ASSUME IInv, RestoreChainInv, [Next]_vars, Calm PROVE RowNamesLive'
  <1> SUFFICES ASSUME NEW k \in Keys, NEW o \in ObjIds, IsLive(rows'[k]), objs'[o].where = "live",
                      objs'[o].path = k[2], ~SentUpload(k[2])'
               PROVE  rows'[k].remoteID = o
    BY DEF RowNamesLive, Live
  <1>0. k[2] \in Paths /\ rows'[k] # Nil
    BY DEF Keys, IsLive
  <1>1. CASE RestoredBy(o) /\ rs.id \in Keys /\ objs'[o].path = rs.id[2]
    <2>1. k = rs.id
      BY <1>1, OneKey DEF Calm
    <2> QED BY <1>0, <1>1, <2>1 DEF RestoredBy, RestoreChainInv, RestoreFindsFree
  <1>2. ASSUME Live(o), objs[o].path = k[2], rows'[k] # rows[k] PROVE rows'[k].remoteID = o
    <2>1. ASSUME Sent(k[2]), rows'[k].remoteID = task[k[2]].remote PROVE rows'[k].remoteID = o
      <3>1. task[k[2]] # Nil /\ task[k[2]].remote # Nil
        BY <1>0, <2>1 DEF IInv, TaskReadyInv, Sent
      <3> QED BY <1>0, <1>2, <2>1, <3>1 DEF RestoreChainInv, TaskNamesLive
    <2>2. ~(rs # Nil /\ rs.id = k)
      BY <1>2 DEF RestoreChainInv, RestoreFindsFree
    <2> QED BY <1>2, <2>1, <2>2, LiveRowsAfter
  <1>3. ASSUME Live(o), objs[o].path = k[2], rows'[k] = rows[k] PROVE rows'[k].remoteID = o
    <2>1. rows[k].remoteID = o \/ SentUpload(k[2])
      BY <1>3 DEF RestoreChainInv, RowNamesLive
    <2>2. ASSUME SentUpload(k[2]) PROVE rows'[k].remoteID = o
      <3>1. rows'[k].remoteID = task[k[2]].remote /\ task[k[2]].remote # Nil
        BY <1>0, <2>2, SentLeaves DEF RestoreChainInv
      <3> QED BY <1>0, <1>3, <2>2, <3>1 DEF RestoreChainInv, TaskNamesLive, SentUpload
    <2> QED BY <1>3, <2>1, <2>2
  <1> QED BY <1>1, <1>2, <1>3, LiveCalm

LEMMA NextTrashLeavesNone ==
    ASSUME IInv, RestoreChainInv, [Next]_vars, Calm PROVE TrashLeavesNone'
  <1> SUFFICES ASSUME NEW p \in Paths, NEW o \in ObjIds, TrashSent(p)', objs'[o].where = "live",
                      objs'[o].path = p
               PROVE  FALSE
    BY DEF TrashLeavesNone, Live
  <1>0. task'[p] # Nil /\ task'[p].act = "TRASH" /\ task'[p].phase = "sent"
    BY DEF TrashSent
  <1>1. CASE task'[p] = task[p]
    <2>1. TrashSent(p)
      BY <1>0, <1>1 DEF TrashSent
    <2>2. ~(Live(o) /\ objs[o].path = p)
      BY <2>1 DEF RestoreChainInv, TrashLeavesNone
    <2> QED BY <1>1, <2>1, <2>2, LiveCalm DEF TrashSent, CreatedBy
  <1>2. CASE task'[p] # task[p]
    <2>1. TrashMove(p) /\ task[p] # Nil /\ task[p].act = "TRASH"
      BY <1>0, <1>2, TaskChanges DEF TrashMove, Executing
    <2>2. ~SentUpload(p) /\ ~Creating(p)
      BY <2>1 DEF SentUpload, Creating, Uploads
    <2>3. Live(o) /\ objs[o].path = p
      BY <2>1, <2>2, LiveCalm DEF CreatedBy
    <2> DEFINE k == <<task[p].rel, p>>
    <2>4. task[p] \in Task /\ k \in Keys /\ k[2] = p /\ ~Done(p)
      BY <1>0, <2>1, StepTypes DEF Task, Keys, Done
    <2>5. rows[k] # Nil /\ objs' = MoveToTank(objs, rows[k].remoteID, now)
      BY <2>1, <2>4 DEF TrashMove, FileID
    <2> HIDE DEF k
    <2>6. ~IsTrashed(rows[k])
      BY <2>2, <2>3, <2>4 DEF RestoreChainInv, TrashedApart
    <2>7. rows[k].remoteID = o
      BY <2>2, <2>3, <2>4, <2>5, <2>6 DEF RestoreChainInv, RowNamesLive, IsLive, IsTrashed
    <2> QED BY <2>5, <2>7, StepTypes DEF MoveToTank, Object
  <1> QED BY <1>1, <1>2

LEMMA NextTaskNamesLive ==
    ASSUME IInv, ChainInv, RestoreChainInv, [Next]_vars, Calm PROVE TaskNamesLive'
  <1> SUFFICES ASSUME NEW p \in Paths, NEW o \in ObjIds, task'[p] # Nil, task'[p].remote # Nil,
                      objs'[o].where = "live", objs'[o].path = p
               PROVE  task'[p].remote = o
    BY DEF TaskNamesLive, Live
  <1>1. ASSUME Live(o), objs[o].path = p, task'[p] # task[p] PROVE task'[p].remote = o
    <2>1. ASSUME task'[p].remote \in ObjIds, listed[task'[p].remote] # Nil, objs[task'[p].remote].path = p
          PROVE  task'[p].remote = o
      BY <1>1, <2>1 DEF ChainInv, OneSeen, Seen
    <2>2. ~Creating(p)
      BY <1>1 DEF ChainInv, TaskAlone
    <2>3. ASSUME task[p] # Nil, task'[p].remote = task[p].remote PROVE task'[p].remote = o
      BY <1>1, <2>3 DEF RestoreChainInv, TaskNamesLive
    <2> QED BY <1>1, <2>1, <2>2, <2>3, TaskChanges
  <1>2. ASSUME Live(o), objs[o].path = p, task'[p] = task[p] PROVE task'[p].remote = o
    BY <1>2 DEF RestoreChainInv, TaskNamesLive
  <1> QED BY <1>1, <1>2, LiveCalm DEF RestoredBy

LEMMA NextRestoreFindsFree ==
    ASSUME IInv, RestoreChainInv, [Next]_vars, Calm PROVE RestoreFindsFree'
  <1> SUFFICES ASSUME rs' # Nil
               PROVE  /\ \A o \in ObjIds : objs'[o].where = "live" => objs'[o].path # rs'.id[2]
                      /\ rs'.step = "owned" => rows'[rs'.id] = Nil \/ rows'[rs'.id].remoteID = rs'.obj
    BY DEF RestoreFindsFree, Live
  <1>1. CASE rs' = rs
    <2>1. /\ \A o \in ObjIds : Live(o) => objs[o].path # rs.id[2]
          /\ rs.step = "owned" => rows[rs.id] = Nil \/ rows[rs.id].remoteID = rs.obj
      BY <1>1 DEF RestoreChainInv, RestoreFindsFree
    <2>2. pc = "idle" /\ (\A p \in Paths : task[p] = Nil)
      BY <1>1, RestoreIdles
    <2>3. \A o \in ObjIds : objs'[o].where = "live" => objs'[o].path # rs.id[2]
      BY <1>1, <2>1, <2>2, LiveCalm DEF RestoredBy
    <2>4. rs.id \in Keys /\ rs.id[2] \in Paths
      BY <1>1, StepTypes DEF Restoring, Keys
    <2>5. ASSUME rs.step = "owned", rows'[rs.id] # rows[rs.id] PROVE rows'[rs.id] = Nil
      <3>1. ~IsTrashed(rows'[rs.id])
        BY <2>2, <2>4, <2>5, WhoTrashes
      <3>2. ~IsLive(rows'[rs.id])
        BY <2>2, <2>4, <2>5, LiveRowsAfter
      <3> QED BY <3>1, <3>2 DEF IsTrashed, IsLive
    <2> QED BY <1>1, <2>1, <2>3, <2>5
  <1>2. ASSUME RestoreUpsert, rs # Nil, rs'.id = rs.id, rs'.obj = rs.obj, UNCHANGED objs
        PROVE  /\ \A o \in ObjIds : objs'[o].where = "live" => objs'[o].path # rs'.id[2]
               /\ rows'[rs'.id].remoteID = rs'.obj
    BY <1>2, RowOfRestore DEF RestoreChainInv, RestoreFindsFree, Live
  <1>3. ASSUME UNCHANGED objs, mu = "free", IsTrashed(rows[rs'.id]), rs'.id \in Keys, rs'.step = "got"
        PROVE  \A o \in ObjIds : objs'[o].where = "live" => objs'[o].path # rs'.id[2]
    <2>1. \A p \in Paths : task[p] = Nil
      BY <1>3 DEF IInv, MutexInv, NoTasks
    <2>2. rs'.id[2] \in Paths
      BY <1>3 DEF Keys
    <2> QED BY <1>3, <2>1, <2>2 DEF RestoreChainInv, TrashedApart, SentUpload, Live
  <1> QED BY <1>1, <1>2, <1>3, RestoreAfter

LEMMA InitRestoreChain == Init => RestoreChainInv
  BY DEF Init, RestoreChainInv, SentInExec, TrashedApart, TrashLeavesNone, TrashSent, RowNamesLive, TaskNamesLive,
     RestoreFindsFree, Live, Unused, NoTasks, NoRows, IsTrashed, IsLive

LEMMA NextRestoreChain ==
    ASSUME IInv, ChainInv, RestoreChainInv, [Next]_vars, Calm
    PROVE  ChainInv' /\ RestoreChainInv'
  <1>1. RestoreApart
    BY DEF RestoreChainInv, RestoreFindsFree, RestoreApart, Calm
  <1>2. ChainInv'
    BY <1>1, NextChain DEF Calm
  <1> QED BY <1>2, NextSentInExec, NextTrashedApart, NextRowNamesLive, NextTrashLeavesNone, NextTaskNamesLive,
         NextRestoreFindsFree DEF RestoreChainInv

\* A path has at most one object in the containers of its chain: without
\* restores whatever is retried, crashes or is lost, and beside restores in a
\* chain of one relation whose calls succeed.
THEOREM NoDuplicates ==
    ASSUME ~May("cloudstray"),
           \/ ~May("restore") /\ (~May("dbloss") \/ MaxRels = 1)
           \/ Calm
    PROVE  Spec => []NoDuplicateUploads
  <1>1. CASE ~May("restore") /\ (~May("dbloss") \/ MaxRels = 1)
    <2>1. Init => ChainInv /\ NoRestore
      BY InitChain DEF Init, NoRestore
    <2>2. IInv /\ ChainInv /\ NoRestore /\ [Next]_vars => ChainInv' /\ NoRestore'
      BY <1>1, NextChain, NextNoRestore DEF RestoreApart, NoRestore
    <2> QED BY <2>1, <2>2, ChainInvSuffices, Invariance, PTL DEF Spec
  <1>2. CASE Calm
    <2>1. Init => ChainInv /\ RestoreChainInv
      BY InitChain, InitRestoreChain
    <2>2. IInv /\ ChainInv /\ RestoreChainInv /\ [Next]_vars => ChainInv' /\ RestoreChainInv'
      BY <1>2, NextRestoreChain
    <2> QED BY <2>1, <2>2, ChainInvSuffices, Invariance, PTL DEF Spec
  <1> QED BY <1>1, <1>2
=============================================================================
