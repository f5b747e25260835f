----------------------------- MODULE MirrorSync -----------------------------
(***************************************************************************)
(* One mirrored root and its chain of cloud relations, with every process  *)
(* that touches them: the reconciliation pass (Engine.SyncChain and its    *)
(* worker pool), Restore, PurgeTrash, the hourly retention Sweep, the      *)
(* user's edits of the local tree, changes made on drive.google.com, and   *)
(* crashes of the daemon with or without loss of the database.             *)
(*                                                                         *)
(* Relation 1 is the primary, 2..nrel its spillover relations in the order *)
(* they were provisioned.  Pass, Restore and PurgeTrash serialise on       *)
(* daemon.syncMu (mu); Sweep and the environment do not.  Each call to the *)
(* Drive API and each SQL statement is a step of its own, so everything    *)
(* the code does not serialise interleaves.  The contents of a file are    *)
(* read by one step; account storage (TryReserve) is a free choice here.   *)
(***************************************************************************)
EXTENDS Merge, Store, Drive, FiniteSets

CONSTANTS
    Paths,      \* relative paths
    Contents,   \* file contents; an MD5 is the content it is the hash of
    SizeOf,     \* content -> size in bytes
    MaxRels,    \* bound: accounts the chain may grow to
    MaxObjs,    \* bound: Drive objects ever created; then uploads fail (storage full)
    MaxClock,   \* bound: timestamps handed out by the local filesystem
    MaxDay,     \* bound: days
    MaxFaults,  \* bound: crashes, API failures, lost replies, unreadable scans
    MaxCloud,   \* bound: changes made on drive.google.com
    Allowed     \* which environment behaviours the instance includes

Behaviours == {"delete", "restore", "purge", "crash", "dbloss", "apifail", "lostreply",
               "defer", "scanskip", "clouddelete", "cloudtamper", "cloudstray",
               "racyedit", "restoreinsweep"}

ASSUME BoundsAssumption ==
    /\ MaxRels \in Nat \ {0} /\ MaxObjs \in Nat \ {0}
    /\ MaxClock \in Nat /\ MaxDay \in Nat /\ MaxFaults \in Nat /\ MaxCloud \in Nat
ASSUME SizeAssumption == SizeOf \in [Contents -> Nat]
ASSUME NilAssumption == Nil \notin Contents /\ Nil \notin Int /\ Nil \notin Paths
ASSUME AllowedAssumption == Allowed \subseteq Behaviours

VARIABLES
    local,    \* the mirrored tree: path -> [content, mtime], or Nil
    objs,     \* Drive: object id -> object (module Drive)
    made,     \* number of object ids used
    rows,     \* SQLite: FileID -> row (module Store), or Nil
    nrel,     \* SQLite: relations of the chain
    mu,       \* daemon.syncMu: who holds it
    pc,       \* where the pass is
    at,       \* the pass: relation being listed
    scan,     \* the pass: localFiles
    listed,   \* the pass: remoteByRel, as object id -> MD5 or Nil
    base,     \* the pass: baseByRel
    unbuilt,  \* the pass: paths not merged yet
    task,     \* the pool: the upload, trash or adopt task of each path, or Nil
    dupes,    \* the pool: objects with a dedupe task
    todo,     \* Sweep and PurgeTrash: rows still to delete, as <<FileID, object>>
    cur,      \* Sweep and PurgeTrash: row whose object has just been deleted
    rs,       \* the Restore in progress, or Nil
    clock,    \* last local timestamp handed out
    now,      \* today
    faults, cloud

daemonVars == <<mu, pc, at, scan, listed, base, unbuilt, task, dupes, todo, cur, rs>>
snapVars == <<at, scan, listed, base>>
passVars == <<pc, at, scan, listed, base, unbuilt>>
poolVars == <<task, dupes>>
reapVars == <<todo, cur>>
diskVars == <<local, clock>>
driveVars == <<objs, made>>
storeVars == <<rows, nrel>>
envVars == <<now, faults, cloud>>
vars == <<local, objs, made, rows, nrel, mu, pc, at, scan, listed, base, unbuilt,
          task, dupes, todo, cur, rs, clock, now, faults, cloud>>

Rels == 1..MaxRels
ObjIds == 1..MaxObjs
Keys == Rels \X Paths
Reapers == {"sweep", "purge"}

LocalState == [mtime: Nat, size: Nat]
LocalFile == [content: Contents, mtime: Nat]
Row == [mtime: Nat, size: Nat, remoteID: ObjIds, md5: Contents,
        status: Statuses, deletedAt: Nat]
Object == [rel: Nat, path: Paths \cup {Nil}, content: Contents \cup {Nil},
           where: Places, since: Nat]
Task == [rel: Rels, act: Actions, remote: ObjIds \cup {Nil},
         md5: Contents \cup {Nil}, phase: {"queued", "sent"}]
Restoring == [id: Keys, obj: ObjIds, md5: Contents, size: Nat, step: {"got", "owned"}]

\* A nil pointer is not a record.
ASSUME RecordsAssumption ==
    Nil \notin Row /\ Nil \notin LocalFile /\ Nil \notin Task /\ Nil \notin Restoring

NoScan == [p \in Paths |-> Nil]
NoListing == [o \in ObjIds |-> Nil]
NoRows == [k \in Keys |-> Nil]
NoTasks == [p \in Paths |-> Nil]
Unused == [rel |-> 0, path |-> Nil, content |-> Nil, where |-> "none", since |-> 0]

May(b) == b \in Allowed
CanFail(b) == May(b) /\ faults < MaxFaults

Init ==
    /\ local = [p \in Paths |-> Nil]
    /\ objs = [o \in ObjIds |-> Unused] /\ made = 0
    /\ rows = NoRows /\ nrel = 1
    /\ mu = "free" /\ pc = "idle" /\ at = 0
    /\ scan = NoScan /\ listed = NoListing /\ base = NoRows /\ unbuilt = {}
    /\ task = NoTasks /\ dupes = {}
    /\ todo = [w \in Reapers |-> {}] /\ cur = [w \in Reapers |-> Nil]
    /\ rs = Nil
    /\ clock = 0 /\ now = 0 /\ faults = 0 /\ cloud = 0
-----------------------------------------------------------------------------
(* The reconciliation pass: syncAll takes syncMu, then SyncChain scans the  *)
(* tree, lists every container and loads every relation's base.             *)

Stat(f) == [mtime |-> f.mtime, size |-> SizeOf[f.content]]

\* scanLocal: entries the walk cannot read are left out of the result.
scanLocal(unreadable) ==
    [p \in Paths |-> IF local[p] = Nil \/ p \in unreadable THEN Nil ELSE Stat(local[p])]

BeginPass ==
    /\ mu = "free" /\ mu' = "pass"
    /\ pc' = "list" /\ at' = 1
    /\ \/ scan' = scanLocal({}) /\ UNCHANGED faults
       \/ /\ CanFail("scanskip") /\ faults' = faults + 1
          /\ \E S \in SUBSET {p \in Paths : local[p] # Nil} :
                S # {} /\ scan' = scanLocal(S)
    /\ UNCHANGED <<listed, base, unbuilt, poolVars, reapVars, rs,
                   diskVars, driveVars, storeVars, now, cloud>>

ListRemote ==
    /\ pc = "list" /\ pc' = "base"
    /\ listed' = [o \in ObjIds |-> IF o \in ListFolderRecursive(objs, at)
                                   THEN objs[o].content ELSE listed[o]]
    /\ UNCHANGED <<mu, at, scan, base, unbuilt, poolVars, reapVars, rs,
                   diskVars, driveVars, storeVars, envVars>>

\* Mutated form: only the scanned paths are merged.
LoadBaseScannedOnly ==
    /\ pc = "base"
    /\ base' = [k \in Keys |-> IF k[1] = at
                               THEN IF IsLive(rows[k]) THEN rows[k] ELSE Nil
                               ELSE base[k]]
    /\ IF at < nrel
       THEN pc' = "list" /\ at' = at + 1 /\ UNCHANGED unbuilt
       ELSE pc' = "build" /\ UNCHANGED at /\ unbuilt' = {p \in Paths : scan[p] # Nil}
    /\ UNCHANGED <<mu, scan, listed, poolVars, reapVars, rs,
                   diskVars, driveVars, storeVars, envVars>>

LoadBase ==
    /\ pc = "base"
    /\ base' = [k \in Keys |-> IF k[1] = at
                               THEN IF IsLive(rows[k]) THEN rows[k] ELSE Nil
                               ELSE base[k]]
    /\ IF at < nrel
       THEN pc' = "list" /\ at' = at + 1 /\ UNCHANGED unbuilt
       ELSE /\ pc' = "build" /\ UNCHANGED at
            /\ unbuilt' = {p \in Paths : scan[p] # Nil \/ \E r \in Rels : base'[<<r, p>>] # Nil}
    /\ UNCHANGED <<mu, scan, listed, poolVars, reapVars, rs,
                   diskVars, driveVars, storeVars, envVars>>

\* SyncChain returns: syncMu is released and everything it held is dropped.
ReturnFromPass ==
    /\ mu' = "free" /\ pc' = "idle" /\ at' = 0
    /\ scan' = NoScan /\ listed' = NoListing /\ base' = NoRows /\ unbuilt' = {}
    /\ UNCHANGED <<poolVars, reapVars, rs, diskVars, driveVars, storeVars, now, cloud>>

AbortPass ==
    /\ pc \in {"list", "base"}
    /\ CanFail("apifail") /\ faults' = faults + 1
    /\ ReturnFromPass
-----------------------------------------------------------------------------
(* buildChainTasks.                                                         *)

\* Mutated form: the listings of all relations in one map.
CandidatesAnywhere(r, p) == {o \in ObjIds : listed[o] # Nil /\ objs[o].path = p}

\* The same-named candidates of relation r's listing.
Candidates(r, p) == {o \in ObjIds : listed[o] # Nil /\ objs[o].rel = r /\ objs[o].path = p}
RemoteState(o) == IF o = Nil THEN Nil
                  ELSE [id |-> o, md5 |-> listed[o], size |-> SizeOf[listed[o]]]

\* Mutated form: only the primary relation's rows are consulted.
OwnersOnPrimary(p) == {r \in {1} : base[<<r, p>>] # Nil}

\* ownerByPath: Go's map order decides when two relations track the path.
Owners(p) == {r \in Rels : base[<<r, p>>] # Nil}

\* Mutated form: the task loses the remote state.
QueueWithoutRemote(p, r, act, o) ==
    task' = [task EXCEPT ![p] = [rel |-> r, act |-> act, remote |-> Nil, md5 |-> Nil,
                                 phase |-> "queued"]]

Queue(p, r, act, o) ==
    task' = [task EXCEPT ![p] = [rel |-> r, act |-> act, remote |-> o,
                                 md5 |-> IF o = Nil THEN Nil ELSE listed[o],
                                 phase |-> "queued"]]

Built(p) ==
    /\ pc = "build" /\ p \in unbuilt /\ unbuilt' = unbuilt \ {p}
    /\ UNCHANGED <<mu, pc, snapVars, reapVars, rs, diskVars, driveVars, rows, now, cloud>>

\* Pass 1: a tracked path, merged against the relation that owns it.
BuildOwned(p) ==
    \E r \in Owners(p) :
        LET b == base[<<r, p>>] IN
        \E o \in pickRemote(Candidates(r, p), b.remoteID) :
            LET act == Merge(scan[p], RemoteState(o), b) IN
            /\ Built(p)
            /\ dupes' = dupes \cup (IF o = Nil THEN {}
                                    ELSE redundant(Candidates(r, p), o, listed))
            /\ IF act = "NONE" THEN UNCHANGED task ELSE Queue(p, r, act, o)
            /\ UNCHANGED <<nrel, faults>>

\* Mutated form: an untracked file is always created, twin or no twin.
BuildNewNoTwin(p) ==
    /\ Owners(p) = {} /\ \A q \in unbuilt : Owners(q) = {}
    /\ \E r \in Rels : r <= nrel /\ Queue(p, r, "UPLOAD", Nil)
    /\ Built(p) /\ UNCHANGED <<nrel, dupes, faults>>

\* Pass 2: an untracked local file.  A twin in the chain is adopted or updated
\* in place; otherwise the file goes to the first account with space, on a
\* chain that grows while none has, or it is left for a later pass.
BuildNew(p) ==
    /\ Owners(p) = {} /\ \A q \in unbuilt : Owners(q) = {}
    /\ Built(p) /\ UNCHANGED dupes
    /\ LET twins == findRemoteTwin(nrel, [r \in Rels |-> Candidates(r, p)]) IN
       \/ /\ UNCHANGED <<nrel, faults>>
          /\ \E t \in twins :
                LET same == local[p] # Nil /\ local[p].content = listed[t[2]]
                IN  Queue(p, t[1], IF same THEN "ADOPT" ELSE "UPLOAD", t[2])
       \/ /\ twins = {} /\ UNCHANGED faults
          /\ \E r \in Rels : /\ nrel' = IF r > nrel THEN r ELSE nrel
                             /\ Queue(p, r, "UPLOAD", Nil)
       \/ /\ twins = {} /\ CanFail("defer") /\ faults' = faults + 1
          /\ nrel' \in nrel..MaxRels
          /\ UNCHANGED task

\* The pool starts; the snapshots are not read again.
StartExec ==
    /\ pc = "build" /\ unbuilt = {} /\ pc' = "exec"
    /\ at' = 0 /\ scan' = NoScan /\ listed' = NoListing /\ base' = NoRows
    /\ UNCHANGED <<mu, unbuilt, poolVars, reapVars, rs, diskVars, driveVars, storeVars, envVars>>
-----------------------------------------------------------------------------
(* The worker pool: each task's Drive calls, then the row that makes the    *)
(* outcome durable.  A task leaves the pool when it returns, with or        *)
(* without an error; errors are logged and the next pass starts afresh.     *)

Done(p) == task' = [task EXCEPT ![p] = Nil]
Executing(p, acts, phase) ==
    /\ pc = "exec" /\ task[p] # Nil /\ task[p].act \in acts /\ task[p].phase = phase
    /\ UNCHANGED <<mu, passVars, dupes, reapVars, rs, diskVars, nrel>>

Uploads == {"UPLOAD", "REUPLOAD", "CONFLICT"}

\* Client.Upload's effect: the object id and the objects after it.
UploadTo(p, o) ==
    LET t == task[p] IN
    /\ local[p] # Nil
    /\ IF t.remote = Nil
       THEN /\ made < MaxObjs /\ o = made + 1 /\ made' = made + 1
            /\ objs' = Create(objs, o, t.rel, p, local[p].content)
       ELSE /\ o = t.remote /\ Exists(objs[o]) /\ UNCHANGED made
            /\ objs' = Update(objs, o, local[p].content)

UploadSend(p) ==
    /\ Executing(p, Uploads, "queued")
    /\ \E o \in ObjIds :
        /\ UploadTo(p, o)
        /\ task' = [task EXCEPT ![p] = [@ EXCEPT !.remote = o, !.md5 = local[p].content,
                                                 !.phase = "sent"]]
    /\ UNCHANGED <<rows, envVars>>

\* The upload takes effect but its reply is lost: the task fails.
UploadLost(p) ==
    /\ Executing(p, Uploads, "queued")
    /\ CanFail("lostreply") /\ faults' = faults + 1
    /\ \E o \in ObjIds : UploadTo(p, o)
    /\ Done(p) /\ UNCHANGED <<rows, now, cloud>>

\* os.Stat after the transfer; a file that has vanished is recorded as empty.
StatNow(p) == IF local[p] = Nil THEN [mtime |-> clock, size |-> 0] ELSE Stat(local[p])

Recorded(p, status) ==
    [mtime |-> StatNow(p).mtime, size |-> StatNow(p).size, remoteID |-> task[p].remote,
     md5 |-> task[p].md5, status |-> status, deletedAt |-> 0]

UploadRecord(p) ==
    /\ Executing(p, Uploads, "sent")
    /\ LET t == task[p] IN
        rows' = UpsertFile(rows, FileID(t.rel, p),
                    Recorded(p, IF t.act = "CONFLICT" THEN "CONFLICT" ELSE "SYNCED"))
    /\ Done(p) /\ UNCHANGED <<driveVars, envVars>>

Adopt(p) ==
    /\ Executing(p, {"ADOPT"}, "queued")
    /\ local[p] # Nil
    /\ rows' = UpsertFile(rows, FileID(task[p].rel, p), Recorded(p, "SYNCED"))
    /\ Done(p) /\ UNCHANGED <<driveVars, envVars>>

\* Mutated form: the row is marked without moving the object.
TrashMarkOnly(p) ==
    /\ Executing(p, {"TRASH"}, "queued")
    /\ rows' = MarkTrashed(rows, FileID(task[p].rel, p), now)
    /\ Done(p) /\ UNCHANGED <<driveVars, envVars>>

\* trash, first half: the row is read again and its object moved.
TrashMove(p) ==
    /\ Executing(p, {"TRASH"}, "queued")
    /\ LET row == rows[FileID(task[p].rel, p)] IN
       \/ row = Nil /\ Done(p) /\ UNCHANGED objs
       \/ /\ row # Nil /\ Exists(objs[row.remoteID])
          /\ objs' = MoveToTank(objs, row.remoteID, now)
          /\ task' = [task EXCEPT ![p] = [@ EXCEPT !.phase = "sent"]]
    /\ UNCHANGED <<made, rows, envVars>>

\* trash, second half.
TrashMark(p) ==
    /\ Executing(p, {"TRASH"}, "sent")
    /\ rows' = MarkTrashed(rows, FileID(task[p].rel, p), now)
    /\ Done(p) /\ UNCHANGED <<driveVars, envVars>>

\* A call that must fail: the file is gone locally, the object is gone on
\* Drive (404), or the account is full.
TaskError(p) ==
    /\ \/ /\ Executing(p, Uploads, "queued")
          /\ \/ local[p] = Nil
             \/ task[p].remote = Nil /\ made = MaxObjs
             \/ task[p].remote # Nil /\ ~Exists(objs[task[p].remote])
       \/ Executing(p, {"ADOPT"}, "queued") /\ local[p] = Nil
       \/ /\ Executing(p, {"TRASH"}, "queued")
          /\ rows[FileID(task[p].rel, p)] # Nil
          /\ ~Exists(objs[rows[FileID(task[p].rel, p)].remoteID])
    /\ Done(p) /\ UNCHANGED <<driveVars, rows, envVars>>

\* Any Drive call or SQL statement of the task fails, or ctx is cancelled.
TaskFail(p) ==
    /\ \E phase \in {"queued", "sent"} : Executing(p, Actions, phase)
    /\ CanFail("apifail") /\ faults' = faults + 1
    /\ Done(p) /\ UNCHANGED <<driveVars, rows, now, cloud>>

Dedupe(o) ==
    /\ pc = "exec" /\ o \in dupes /\ dupes' = dupes \ {o}
    /\ \/ /\ Exists(objs[o]) /\ UNCHANGED faults
          /\ objs' = MoveToTank(objs, o, now)
       \/ ~Exists(objs[o]) /\ UNCHANGED <<objs, faults>>
       \/ CanFail("apifail") /\ faults' = faults + 1 /\ UNCHANGED objs
    /\ UNCHANGED <<mu, passVars, task, reapVars, rs, diskVars, made, storeVars, now, cloud>>

EndPass ==
    /\ pc = "exec" /\ task = NoTasks /\ dupes = {}
    /\ ReturnFromPass /\ UNCHANGED faults
-----------------------------------------------------------------------------
(* Retention: Sweep runs beside everything else, PurgeTrash under syncMu.   *)

Entries(ids) == {<<k, rows[k].remoteID>> : k \in ids}

SweepStart ==
    /\ todo["sweep"] = {} /\ cur["sweep"] = Nil
    /\ May("restoreinsweep") \/ rs = Nil
    /\ TrashedBefore(rows, now) # {}
    /\ todo' = [todo EXCEPT !["sweep"] = Entries(TrashedBefore(rows, now))]
    /\ UNCHANGED <<mu, passVars, poolVars, cur, rs, diskVars, driveVars, storeVars, envVars>>

\* Mutated form: the purge does not wait for a pass to finish.
PurgeStartWithoutLock ==
    /\ May("purge") /\ mu # "restore" /\ todo["purge"] = {} /\ cur["purge"] = Nil
    /\ \E ids \in {ListTrashed(rows)} \cup {{k} : k \in ListTrashed(rows)} :
        ids # {} /\ todo' = [todo EXCEPT !["purge"] = Entries(ids)]
    /\ UNCHANGED <<mu, passVars, poolVars, cur, rs, diskVars, driveVars, storeVars, envVars>>

\* The whole tank, or one entry.
PurgeStart ==
    /\ May("purge") /\ mu = "free" /\ mu' = "purge"
    /\ \E ids \in {ListTrashed(rows)} \cup {{k} : k \in ListTrashed(rows)} :
        ids # {} /\ todo' = [todo EXCEPT !["purge"] = Entries(ids)]
    /\ UNCHANGED <<passVars, poolVars, cur, rs, diskVars, driveVars, storeVars, envVars>>

\* PermanentDelete of the next entry.
Reap(w) ==
    /\ cur[w] = Nil
    /\ \E e \in todo[w] :
        /\ objs' = PermanentDelete(objs, e[2], IF w = "sweep" THEN "reaped" ELSE "purged")
        /\ todo' = [todo EXCEPT ![w] = @ \ {e}]
        /\ cur' = [cur EXCEPT ![w] = e[1]]
    /\ UNCHANGED <<mu, passVars, poolVars, rs, diskVars, made, storeVars, envVars>>

\* ... which fails: the entry is skipped until the next sweep.
ReapFail(w) ==
    /\ cur[w] = Nil
    /\ CanFail("apifail") /\ faults' = faults + 1
    /\ \E e \in todo[w] : todo' = [todo EXCEPT ![w] = @ \ {e}]
    /\ UNCHANGED <<mu, passVars, poolVars, cur, rs, diskVars, driveVars, storeVars, now, cloud>>


DropRow(w) ==
    /\ cur[w] # Nil
    /\ rows' = DeleteFileRow(rows, cur[w])
    /\ cur' = [cur EXCEPT ![w] = Nil]
    /\ UNCHANGED <<mu, passVars, poolVars, todo, rs, diskVars, driveVars, nrel, envVars>>

PurgeEnd ==
    /\ mu = "purge" /\ todo["purge"] = {} /\ cur["purge"] = Nil /\ mu' = "free"
    /\ UNCHANGED <<passVars, poolVars, reapVars, rs, diskVars, driveVars, storeVars, envVars>>
-----------------------------------------------------------------------------
(* Restore: download, own the row again, move the object back.              *)

Sweeping == todo["sweep"] # {} \/ cur["sweep"] # Nil

\* Mutated form: the restore does not take syncMu away from a running pass.
RestoreWithoutLock(k) ==
    /\ May("restore") /\ rs = Nil /\ mu # "purge" /\ mu' = "restore"
    /\ May("restoreinsweep") \/ ~Sweeping
    /\ clock < MaxClock
    /\ IsTrashed(rows[k]) /\ Exists(objs[rows[k].remoteID])
    /\ LET o == rows[k].remoteID IN
        /\ local' = [local EXCEPT ![k[2]] = [content |-> objs[o].content, mtime |-> clock + 1]]
        /\ rs' = [id |-> k, obj |-> o, md5 |-> rows[k].md5, size |-> rows[k].size, step |-> "got"]
    /\ clock' = clock + 1
    /\ UNCHANGED <<passVars, poolVars, reapVars, driveVars, storeVars, envVars>>

RestoreDownload(k) ==
    /\ May("restore") /\ mu = "free" /\ mu' = "restore"
    /\ May("restoreinsweep") \/ ~Sweeping
    /\ clock < MaxClock
    /\ IsTrashed(rows[k]) /\ Exists(objs[rows[k].remoteID])
    /\ LET o == rows[k].remoteID IN
        /\ local' = [local EXCEPT ![k[2]] = [content |-> objs[o].content, mtime |-> clock + 1]]
        /\ rs' = [id |-> k, obj |-> o, md5 |-> rows[k].md5, size |-> rows[k].size, step |-> "got"]
    /\ clock' = clock + 1
    /\ UNCHANGED <<passVars, poolVars, reapVars, driveVars, storeVars, envVars>>

\* Only the status, the timestamps and the size of the row read before change.
RestoreUpsert ==
    /\ rs # Nil /\ rs.step = "got"
    /\ LET f == local[rs.id[2]] IN
        rows' = UpsertFile(rows, rs.id,
                   [mtime |-> IF f = Nil THEN clock ELSE f.mtime,
                    size |-> IF f = Nil THEN rs.size ELSE SizeOf[f.content],
                    remoteID |-> rs.obj, md5 |-> rs.md5, status |-> "SYNCED", deletedAt |-> 0])
    /\ rs' = [rs EXCEPT !.step = "owned"]
    /\ UNCHANGED <<mu, passVars, poolVars, reapVars, diskVars, driveVars, nrel, envVars>>

\* The move back; 404 if the object is gone by now.
RestoreMove ==
    /\ rs # Nil /\ rs.step = "owned"
    /\ objs' = IF Exists(objs[rs.obj]) THEN MoveToContainer(objs, rs.obj) ELSE objs
    /\ rs' = Nil /\ mu' = "free"
    /\ UNCHANGED <<passVars, poolVars, reapVars, diskVars, made, storeVars, envVars>>

RestoreFail ==
    /\ rs # Nil
    /\ CanFail("apifail") /\ faults' = faults + 1
    /\ rs' = Nil /\ mu' = "free"
    /\ UNCHANGED <<passVars, poolVars, reapVars, diskVars, driveVars, storeVars, now, cloud>>
-----------------------------------------------------------------------------
(* The environment.                                                         *)

\* Path p is between the reading of its content and the os.Stat that dates it.
InTransfer(p) ==
    \/ /\ task[p] # Nil
       /\ task[p].act = "ADOPT" \/ (task[p].act \in Uploads /\ task[p].phase = "sent")
    \/ rs # Nil /\ rs.id[2] = p /\ rs.step = "got"

UserWrite(p) ==
    /\ clock < MaxClock /\ clock' = clock + 1
    /\ May("racyedit") \/ ~InTransfer(p)
    /\ \E c \in Contents : local' = [local EXCEPT ![p] = [content |-> c, mtime |-> clock + 1]]
    /\ UNCHANGED <<daemonVars, driveVars, storeVars, envVars>>

UserDelete(p) ==
    /\ May("delete") /\ local[p] # Nil
    /\ local' = [local EXCEPT ![p] = Nil]
    /\ UNCHANGED <<daemonVars, clock, driveVars, storeVars, envVars>>

CloudChange == cloud < MaxCloud /\ cloud' = cloud + 1
               /\ UNCHANGED <<daemonVars, diskVars, storeVars, now, faults>>

CloudDelete(o) ==
    /\ May("clouddelete") /\ CloudChange /\ Exists(objs[o])
    /\ objs' = PermanentDelete(objs, o, "removed") /\ UNCHANGED made

CloudTamper(o) ==
    /\ May("cloudtamper") /\ CloudChange /\ objs[o].where = "live"
    /\ \E c \in Contents \ {objs[o].content} : objs' = Update(objs, o, c)
    /\ UNCHANGED made

CloudStray(k) ==
    /\ May("cloudstray") /\ CloudChange
    /\ k[1] <= nrel /\ made < MaxObjs /\ made' = made + 1
    /\ \E c \in Contents : objs' = Create(objs, made + 1, k[1], k[2], c)

Tick ==
    /\ now < MaxDay /\ now' = now + 1
    /\ UNCHANGED <<daemonVars, diskVars, driveVars, storeVars, faults, cloud>>

\* The process dies and is started again; the database survives, or it is
\* lost and the root is mirrored anew on the primary account.
Crash ==
    /\ faults < MaxFaults /\ faults' = faults + 1
    /\ mu' = "free" /\ pc' = "idle" /\ at' = 0
    /\ scan' = NoScan /\ listed' = NoListing /\ base' = NoRows /\ unbuilt' = {}
    /\ task' = NoTasks /\ dupes' = {}
    /\ todo' = [w \in Reapers |-> {}] /\ cur' = [w \in Reapers |-> Nil] /\ rs' = Nil
    /\ \/ May("crash") /\ UNCHANGED storeVars
       \/ May("dbloss") /\ rows' = NoRows /\ nrel' = 1
    /\ UNCHANGED <<diskVars, driveVars, now, cloud>>
-----------------------------------------------------------------------------
BuildStep == \E p \in Paths : BuildOwned(p) \/ BuildNew(p)
TaskStep(p) == \/ UploadSend(p) \/ UploadLost(p) \/ UploadRecord(p) \/ Adopt(p)
               \/ TrashMove(p) \/ TrashMark(p) \/ TaskError(p) \/ TaskFail(p)
PoolStep == (\E p \in Paths : TaskStep(p)) \/ (\E o \in ObjIds : Dedupe(o))
PassStep == \/ BeginPass \/ ListRemote \/ LoadBase \/ AbortPass \/ BuildStep
            \/ StartExec \/ PoolStep \/ EndPass
ReapStep(w) == Reap(w) \/ ReapFail(w) \/ DropRow(w)
SweepStep == SweepStart \/ ReapStep("sweep")
PurgeStep == ReapStep("purge") \/ PurgeEnd
RestoreStep == RestoreUpsert \/ RestoreMove \/ RestoreFail
CloudStep == (\E o \in ObjIds : CloudDelete(o) \/ CloudTamper(o)) \/ (\E k \in Keys : CloudStray(k))
UserStep == \/ \E p \in Paths : UserWrite(p) \/ UserDelete(p)
            \/ PurgeStart
            \/ \E k \in Keys : RestoreDownload(k)

Next == \/ PassStep \/ SweepStep \/ PurgeStep \/ RestoreStep
        \/ UserStep \/ CloudStep \/ Tick \/ Crash

Spec == Init /\ [][Next]_vars

\* The poll ticker keeps starting passes, the hourly ticker sweeps, and
\* goroutines that hold syncMu run on; users and the cloud owe nothing.
Fairness == WF_vars(PassStep) /\ WF_vars(SweepStep) /\ WF_vars(PurgeStep) /\ WF_vars(RestoreStep)
FairSpec == Spec /\ Fairness
-----------------------------------------------------------------------------
(* Safety.                                                                  *)

DiskType == local \in [Paths -> LocalFile \cup {Nil}] /\ clock \in Nat
DriveType == objs \in [ObjIds -> Object] /\ made \in 0..MaxObjs
StoreType == rows \in [Keys -> Row \cup {Nil}] /\ nrel \in Rels
PassType ==
    /\ mu \in {"free", "pass", "restore", "purge"}
    /\ pc \in {"idle", "list", "base", "build", "exec"} /\ at \in 0..MaxRels
    /\ scan \in [Paths -> LocalState \cup {Nil}]
    /\ listed \in [ObjIds -> Contents \cup {Nil}]
    /\ base \in [Keys -> Row \cup {Nil}] /\ unbuilt \subseteq Paths
PoolType == task \in [Paths -> Task \cup {Nil}] /\ dupes \subseteq ObjIds
ReapType == todo \in [Reapers -> SUBSET (Keys \X ObjIds)] /\ cur \in [Reapers -> Keys \cup {Nil}]
RestoreType == rs \in Restoring \cup {Nil}
EnvType == now \in Nat /\ faults \in Nat /\ cloud \in Nat
TypeOK == /\ DiskType /\ DriveType /\ StoreType /\ PassType
          /\ PoolType /\ ReapType /\ RestoreType /\ EnvType

\* A row names an object of its own relation and path.  The engine, the sweep
\* and the restore act on row.remoteID without looking at what it names.
RowsOwnTheirObjects ==
    \A k \in Keys : rows[k] # Nil =>
        LET o == objs[rows[k].remoteID] IN
        o.rel = k[1] /\ o.path = k[2] /\ o.where # "none"

\* A TRASHED row never names an object at its place in the mirror: what the
\* sweep or a purge deletes for good is in the tank or already gone.
TankRowsPointIntoTank ==
    \A k \in Keys : IsTrashed(rows[k]) => objs[rows[k].remoteID].where # "live"

\* When the merge finds nothing to do for a tracked file, its object on Drive
\* holds the file's content: no edit is ever taken for mirrored when it is not.
DriveState(o) == IF objs[o].where # "live" THEN Nil
                 ELSE [id |-> o, md5 |-> objs[o].content, size |-> SizeOf[objs[o].content]]
NoneMeansMirrored ==
    \A k \in Keys :
        /\ IsLive(rows[k]) /\ local[k[2]] # Nil
        /\ Merge(Stat(local[k[2]]), DriveState(rows[k].remoteID), rows[k]) = "NONE"
        => objs[rows[k].remoteID].content = local[k[2]].content

\* A path has at most one object in the containers of its chain, whatever is
\* retried, crashes or is lost.
Copies(p) == {o \in ObjIds : objs[o].where = "live" /\ objs[o].path = p}
NoDuplicateUploads == \A p \in Paths : Cardinality(Copies(p)) <= 1

\* At most one relation of the chain tracks a path.
ChainIsDisjoint ==
    \A p \in Paths : Cardinality({r \in Rels : IsLive(rows[<<r, p>>])}) <= 1

\* What the trash step put into the tank can be found again: some row names
\* it, so that it can be restored, purged and, in time, swept.
TankIsTracked ==
    \A o \in ObjIds : objs[o].where = "tank" => \E k \in Keys : rows[k] # Nil /\ rows[k].remoteID = o

\* While the user deletes nothing, nothing is quarantined.
OnlyDeletionsAreQuarantined ==
    "delete" \notin Allowed => \A o \in ObjIds : objs[o].where # "tank"

\* Outside a loss of the database a row disappears only when it is TRASHED: a
\* purge never makes the engine forget a file it mirrors.  (The sweep, which
\* does not wait for passes, may drop the row of a file created again.)
OnlyTrashedRowsAreDropped ==
    [][\A k \in Keys : /\ rows[k] # Nil /\ rows'[k] = Nil
                       /\ faults' = faults /\ cur["sweep"] # k
                       => IsTrashed(rows[k])]_vars

\* The promise each Drive object gets (module AssetLifecycle): in particular
\* the sweep destroys it only out of the tank and after the holding period.
Lifecycle == INSTANCE AssetLifecycle WITH
    Assets <- ObjIds,
    place <- [o \in ObjIds |-> objs[o].where],
    since <- [o \in ObjIds |-> objs[o].since],
    day <- now
LifecycleSpec == Lifecycle!Spec
-----------------------------------------------------------------------------
(* The inductive invariant behind TypeOK, RowsOwnTheirObjects and           *)
(* TankRowsPointIntoTank.                                                   *)

\* syncMu: the pass and its pool, or a restore, never both.
MutexInv ==
    /\ (pc # "idle") <=> (mu = "pass")
    /\ rs # Nil => mu = "restore"
    /\ pc \notin {"build", "exec"} => task = NoTasks

\* Object ids are handed out in order, and a used one is fully described.
ObjectsInv ==
    \A o \in ObjIds :
        /\ objs[o].where # "none" <=> o <= made
        /\ objs[o].where # "none" => objs[o].content \in Contents
        /\ listed[o] # Nil => objs[o].where # "none"

IsObjectOf(o, r, p) == objs[o].rel = r /\ objs[o].path = p /\ objs[o].where # "none"

\* A task acts on objects of its own relation and path.
TaskObjectsInv ==
    \A p \in Paths : task[p] # Nil /\ task[p].remote # Nil
        => IsObjectOf(task[p].remote, task[p].rel, p)

\* A task that is about to write a row knows the object and its MD5.
TaskReadyInv ==
    \A p \in Paths :
        /\ task[p] # Nil
        /\ task[p].act = "ADOPT" \/ (task[p].act \in Uploads /\ task[p].phase = "sent")
        => task[p].remote # Nil /\ task[p].md5 # Nil

\* Between the halves of a trash task its row's object is out of the mirror.
TaskTrashInv ==
    \A p \in Paths :
        task[p] # Nil /\ task[p].act = "TRASH" /\ task[p].phase = "sent"
        => \/ rows[<<task[p].rel, p>>] = Nil
           \/ objs[rows[<<task[p].rel, p>>].remoteID].where # "live"

RestoreInv ==
    rs # Nil => /\ IsObjectOf(rs.obj, rs.id[1], rs.id[2])
                /\ rs.step = "owned" => ~IsTrashed(rows[rs.id])

IInv == /\ TypeOK /\ MutexInv /\ ObjectsInv /\ TaskObjectsInv /\ TaskReadyInv
        /\ TaskTrashInv /\ RestoreInv /\ RowsOwnTheirObjects /\ TankRowsPointIntoTank
-----------------------------------------------------------------------------
(* Liveness, once edits, faults and days have run out.                      *)

Mirrored(p) ==
    \E k \in Keys : /\ k[2] = p /\ IsLive(rows[k])
                    /\ objs[rows[k].remoteID].where = "live"
                    /\ objs[rows[k].remoteID].content = local[p].content

\* Every local file ends up in the cloud with its latest content.
EventuallyMirrored == <>[](\A p \in Paths : local[p] # Nil => Mirrored(p))

\* Every deleted file ends up out of the mirror, with no live row and no live
\* object, unless a fault, a change in the cloud or a sweep has intervened.
EventuallyQuarantined ==
    <>[](\A p \in Paths : local[p] = Nil /\ faults = 0 /\ cloud = 0 /\ now = 0 =>
            Copies(p) = {} /\ \A r \in Rels : ~IsLive(rows[<<r, p>>]))

=============================================================================
