----------------------------- MODULE Relations ------------------------------
(***************************************************************************)
(* Mirrored folders and their relations: the handlers that add, pause and  *)
(* remove a folder (ipc/server.go, db/db.go) while reconciliation passes   *)
(* run, and the folders the passes make on Drive (drive/client.go).        *)
(*                                                                         *)
(* One account, primary relations only.  Module MirrorSync has the details *)
(* of a pass over one chain; here a pass takes its three snapshots and     *)
(* builds its tasks in one step, since nothing but passes writes to Drive, *)
(* and the tasks of one chain run concurrently.  A file is its content: it *)
(* is not rewritten between its upload and the stat that follows.          *)
(***************************************************************************)
EXTENDS Merge, Folders

CONSTANTS
    Roots,       \* local root paths
    Names,       \* remote folder names the user may choose
    Paths,       \* relative paths
    DirOf,       \* path -> the names of its directories
    Contents,    \* contents, as numbers
    Files,       \* the files a root starts with: path -> content, or Nil
    MaxRequests, \* bound: requests of handleAddFolder
    MaxEdits,    \* bound: changes to the local files
    MaxEvents    \* bound: removals, pauses, resumptions and crashes

ASSUME RelationsAssumption ==
    /\ DirOf \in [Paths -> Seq(Names \cup {TrashFolderName})] /\ Contents \subseteq Nat
    /\ Files \in [Paths -> Contents \cup {Nil}]
    /\ MaxRequests \in Nat /\ MaxEdits \in Nat /\ MaxEvents \in Nat
    /\ Nil \notin Nat /\ TrashFolderName \notin Names

VARIABLES
    local,     \* root -> path -> content, or Nil
    dirs,      \* Drive: folders
    objs,      \* Drive: files, as [folder, path, content]
    folders,   \* mirrored_folders
    paused,    \* is_paused
    targets,   \* folder_targets by id, those removed included: [root, container]
    present,   \* ids of the rows folder_targets has
    rows,      \* file_metadata: rows as [key, remoteID, md5, mtime, size, status]
    pass,      \* syncAll: [at, todo, target]
    task,      \* the pool: path -> task, or Nil
    adding,    \* request -> where it is
    edits, events

driveVars == <<dirs, objs>>
passVars == <<pass, task>>
folderVars == <<folders, paused, targets, present>>
bounds == <<edits, events>>
vars == <<local, driveVars, folderVars, rows, pass, task, adding, bounds>>

Requests == 1..MaxRequests
NoTasks == [p \in Paths |-> Nil]
Idle == [at |-> "idle", todo |-> {}, target |-> 0]
NotAsked == [at |-> "idle", root |-> Nil, walk |-> Walk(0, <<>>)]
Answered == [NotAsked EXCEPT !.at = "done"]

\* A local file as a LocalState, an object as a RemoteState.
Stat(c) == IF c = Nil THEN Nil ELSE [mtime |-> c, size |-> 1]
RemoteState(o) == IF o = Nil THEN Nil ELSE [id |-> o, md5 |-> objs[o].content, size |-> 1]
RemoteMD5(o) == IF o = Nil THEN Nil ELSE objs[o].content
RemoteIDOf(row) == IF row = Nil THEN Nil ELSE row.remoteID

\* FileID: relation and path.  A CONFLICT row is a SYNCED one here.
RowsAt(t, p) == {row \in rows : row.rel = t /\ row.path = p}
LiveRow(t, p) == IF \E row \in RowsAt(t, p) : row.status = "SYNCED"
                 THEN CHOOSE row \in RowsAt(t, p) : row.status = "SYNCED" ELSE Nil
NewRow(t, p, o, md5, c) ==
    [rel |-> t, path |-> p, remoteID |-> o, md5 |-> md5, mtime |-> c, size |-> 1, status |-> "SYNCED"]

Init ==
    /\ local = [r \in Roots |-> Files]
    /\ dirs = <<>> /\ objs = <<>>
    /\ folders = {} /\ paused = {} /\ targets = <<>> /\ present = {} /\ rows = {}
    /\ pass = Idle /\ task = NoTasks
    /\ adding = [q \in Requests |-> NotAsked]
    /\ edits = 0 /\ events = 0
-----------------------------------------------------------------------------
(* The handlers.                                                             *)

\* Requests are numbered as they come.
AddFolder(q, r, name) ==
    /\ \A k \in Requests : adding[k].at = "idle" <=> k >= q
    /\ adding' = [adding EXCEPT ![q] = [at |-> "ensure", root |-> r, walk |-> Walk(0, <<name>>)]]
    /\ UNCHANGED <<local, driveVars, folderVars, rows, pass, task, bounds>>

EnsureContainer(q) ==
    LET walk == adding[q].walk IN
    /\ adding[q].at = "ensure" /\ walk.rest # <<>>
    /\ \/ /\ ~walk.absent /\ UNCHANGED dirs
          /\ \E w \in Search(dirs, walk) : adding' = [adding EXCEPT ![q].walk = w]
       \/ /\ walk.absent /\ dirs' = Created(dirs, walk)
          /\ adding' = [adding EXCEPT ![q].walk = AfterCreate(dirs, walk)]
    /\ UNCHANGED <<local, objs, folderVars, rows, pass, task, bounds>>

\* AddMirroredFolder: an upsert, which also resumes a paused folder.
ListFolder(q) ==
    /\ adding[q].at = "ensure" /\ adding[q].walk.rest = <<>>
    /\ folders' = folders \cup {adding[q].root} /\ paused' = paused \ {adding[q].root}
    /\ adding' = [adding EXCEPT ![q].at = "listed"]
    /\ UNCHANGED <<local, driveVars, targets, present, rows, pass, task, bounds>>

\* AddFolderTarget: refused when the folder was removed meanwhile.
AddTarget(q) ==
    /\ adding[q].at = "listed" /\ adding' = [adding EXCEPT ![q] = Answered]
    /\ IF adding[q].root \in folders
       THEN /\ targets' = Append(targets, [root |-> adding[q].root, container |-> adding[q].walk.folder])
            /\ present' = present \cup {Len(targets) + 1}
       ELSE UNCHANGED <<targets, present>>
    /\ UNCHANGED <<local, driveVars, folders, paused, rows, pass, task, bounds>>

Administer == events < MaxEvents /\ events' = events + 1
              /\ UNCHANGED <<local, driveVars, targets, pass, task, adding, edits>>

SetPaused(r) ==
    /\ Administer /\ r \in folders
    /\ paused' \in {paused \cup {r}, paused \ {r}} /\ paused' # paused
    /\ UNCHANGED <<folders, present, rows>>

TargetsOf(r) == {t \in present : targets[t].root = r}

\* RemoveMirroredFolder, one transaction; Drive is left as it is.
RemoveFolder(r) ==
    /\ Administer /\ r \in folders
    /\ rows' = {row \in rows : row.rel \notin TargetsOf(r)}
    /\ present' = present \ TargetsOf(r)
    /\ folders' = folders \ {r} /\ paused' = paused \ {r}
-----------------------------------------------------------------------------
(* A pass over every relation.                                               *)

UnchangedByPass == UNCHANGED <<local, folderVars, adding, bounds>>

\* Mutated form: one relation per folder.
BeginPassByFolder ==
    /\ pass.at = "idle"
    /\ pass' = [at |-> "next", target |-> 0,
                todo |-> {t \in present : /\ targets[t].root \notin paused
                                          /\ \A s \in TargetsOf(targets[t].root) : t <= s}]
    /\ UnchangedByPass /\ UNCHANGED <<driveVars, rows, task>>

\* syncAll reads the folders and the targets once; SQLite scans a table by id.
BeginPass ==
    /\ pass.at = "idle"
    /\ pass' = [at |-> "next", target |-> 0,
                todo |-> {t \in present : targets[t].root \notin paused}]
    /\ UnchangedByPass /\ UNCHANGED <<driveVars, rows, task>>

EndPass ==
    /\ pass.at = "next" /\ pass.todo = {} /\ pass' = Idle
    /\ UnchangedByPass /\ UNCHANGED <<driveVars, rows, task>>

\* ListFolderRecursive on the container of target t.
Listing(t) == LET walked == Below(dirs, targets[t].container)
              IN  {o \in DOMAIN objs : objs[o].folder \in walked}
Candidates(t, p) == {o \in Listing(t) : objs[o].path = p}

Action(t, p, o) ==
    LET c == local[targets[t].root][p]
        b == LiveRow(t, p)
    IN  IF c # Nil /\ b = Nil /\ o # Nil /\ objs[o].content = c THEN "ADOPT"
        ELSE Merge(Stat(c), RemoteState(o), b)

NewTask(t, p, o) ==
    LET act == Action(t, p, o)
        home == targets[t].container
        New(step, walk) == [act |-> act, obj |-> o, md5 |-> RemoteMD5(o), step |-> step, walk |-> walk]
    IN  CASE act = "NONE" -> Nil
          [] act = "ADOPT" -> New("record", Walk(home, <<>>))
          [] act = "TRASH" -> New("meta", Walk(home, <<TrashFolderName>>))
          [] OTHER -> New("ensure", Walk(home, DirOf[p]))

\* SyncChain up to the start of the pool, or to its end without tasks.
SyncChain ==
    /\ pass.at = "next"
    /\ \E t \in pass.todo :
        /\ \A s \in pass.todo : t <= s
        /\ \E pick \in [Paths -> DOMAIN objs \cup {Nil}] :
            /\ \A p \in Paths : pick[p] \in pickRemote(Candidates(t, p), RemoteIDOf(LiveRow(t, p)))
            /\ task' = [p \in Paths |-> NewTask(t, p, pick[p])]
        /\ pass' = [at |-> IF task' = NoTasks THEN "next" ELSE "exec",
                    todo |-> pass.todo \ {t}, target |-> t]
    /\ UnchangedByPass /\ UNCHANGED <<driveVars, rows>>
-----------------------------------------------------------------------------
(* The tasks of a chain, on the worker pool.                                *)

TargetOf == targets[pass.target]
LocalNow(p) == local[TargetOf.root][p]
TaskAt(p, step) == /\ pass.at = "exec" /\ task[p] # Nil /\ task[p].step = step
                   /\ UnchangedByPass /\ UNCHANGED pass
Done(p) == task' = [task EXCEPT ![p] = Nil]

\* trash reads the row again.
TrashMeta(p) ==
    /\ TaskAt(p, "meta")
    /\ LET found == RowsAt(pass.target, p) IN
       \/ found = {} /\ Done(p)
       \/ \E row \in found :
            task' = [task EXCEPT ![p] = [@ EXCEPT !.obj = row.remoteID, !.step = "ensure"]]
    /\ UNCHANGED <<driveVars, rows>>

\* EnsurePath and EnsureTrashFolder, one Drive call at a time.
EnsureFolder(p) ==
    LET walk == task[p].walk IN
    /\ TaskAt(p, "ensure") /\ walk.rest # <<>>
    /\ \/ /\ ~walk.absent /\ UNCHANGED dirs
          /\ \E w \in Search(dirs, walk) : task' = [task EXCEPT ![p] = [@ EXCEPT !.walk = w]]
       \/ /\ walk.absent /\ dirs' = Created(dirs, walk)
          /\ task' = [task EXCEPT ![p] = [@ EXCEPT !.walk = AfterCreate(dirs, walk)]]
    /\ UNCHANGED <<objs, rows>>

\* Mutated form: the id of a new object is not passed on.
UploadNoId(p) ==
    LET c == LocalNow(p) IN
    /\ TaskAt(p, "ensure") /\ task[p].act # "TRASH" /\ task[p].walk.rest = <<>> /\ c # Nil
    /\ objs' = IF task[p].obj = Nil
               THEN Append(objs, [folder |-> task[p].walk.folder, path |-> p, content |-> c])
               ELSE [objs EXCEPT ![task[p].obj] = [@ EXCEPT !.content = c]]
    /\ task' = [task EXCEPT ![p] = [@ EXCEPT !.md5 = c, !.step = "record"]]
    /\ UNCHANGED <<dirs, rows>>

\* Upload: by id when the merge saw an object, else into the folder walked to.
Upload(p) ==
    LET c == LocalNow(p)
        o == IF task[p].obj = Nil THEN Len(objs) + 1 ELSE task[p].obj
    IN
    /\ TaskAt(p, "ensure") /\ task[p].act # "TRASH" /\ task[p].walk.rest = <<>>
    /\ \/ c = Nil /\ Done(p) /\ UNCHANGED objs
       \/ /\ c # Nil
          /\ objs' = IF task[p].obj = Nil
                     THEN Append(objs, [folder |-> task[p].walk.folder, path |-> p, content |-> c])
                     ELSE [objs EXCEPT ![o] = [@ EXCEPT !.content = c]]
          /\ task' = [task EXCEPT ![p] = [@ EXCEPT !.obj = o, !.md5 = c, !.step = "record"]]
    /\ UNCHANGED <<dirs, rows>>

\* Mutated form: the database would take a row of any relation.
RecordAnyway(p) ==
    /\ TaskAt(p, "record") /\ Done(p)
    /\ rows' = (rows \ RowsAt(pass.target, p))
               \cup {NewRow(pass.target, p, task[p].obj, task[p].md5, LocalNow(p))}
    /\ UNCHANGED driveVars

\* UpsertFile, refused by the foreign key once the relation is gone.
Record(p) ==
    /\ TaskAt(p, "record") /\ Done(p)
    /\ rows' = IF pass.target \notin present THEN rows
               ELSE (rows \ RowsAt(pass.target, p))
                    \cup {NewRow(pass.target, p, task[p].obj, task[p].md5, LocalNow(p))}
    /\ UNCHANGED driveVars

MoveToTank(p) ==
    /\ TaskAt(p, "ensure") /\ task[p].act = "TRASH" /\ task[p].walk.rest = <<>>
    /\ objs' = [objs EXCEPT ![task[p].obj] = [@ EXCEPT !.folder = task[p].walk.folder]]
    /\ task' = [task EXCEPT ![p] = [@ EXCEPT !.step = "mark"]]
    /\ UNCHANGED <<dirs, rows>>

MarkTrashed(p) ==
    /\ TaskAt(p, "mark") /\ Done(p)
    /\ LET found == RowsAt(pass.target, p) IN
        rows' = (rows \ found) \cup {[row EXCEPT !.status = "TRASHED"] : row \in found}
    /\ UNCHANGED driveVars

\* SyncChain returns; syncAll goes on with the next relation.
EndChain ==
    /\ pass.at = "exec" /\ task = NoTasks
    /\ pass' = [pass EXCEPT !.at = "next"]
    /\ UnchangedByPass /\ UNCHANGED <<driveVars, rows, task>>
-----------------------------------------------------------------------------
(* The environment.                                                         *)

\* The content of path p under root r has been read and is about to be dated.
InTransfer(r, p) == task[p] # Nil /\ task[p].step = "record" /\ TargetOf.root = r

UserEdit(r, p) ==
    /\ edits < MaxEdits /\ edits' = edits + 1 /\ ~InTransfer(r, p)
    /\ \E c \in (Contents \cup {Nil}) \ {local[r][p]} : local' = [local EXCEPT ![r][p] = c]
    /\ UNCHANGED <<driveVars, folderVars, rows, pass, task, adding, events>>

\* Requests under way are lost with the process.
Crash ==
    /\ events < MaxEvents /\ events' = events + 1
    /\ pass' = Idle /\ task' = NoTasks
    /\ adding' = [q \in Requests |-> IF adding[q].at = "idle" THEN adding[q] ELSE Answered]
    /\ UNCHANGED <<local, driveVars, folderVars, rows, edits>>
-----------------------------------------------------------------------------
RequestStep == \E q \in Requests :
    \/ \E r \in Roots, name \in Names : AddFolder(q, r, name)
    \/ EnsureContainer(q) \/ ListFolder(q) \/ AddTarget(q)
AdminStep == \E r \in Roots : SetPaused(r) \/ RemoveFolder(r)
TaskStep(p) == \/ TrashMeta(p) \/ EnsureFolder(p) \/ Upload(p) \/ Record(p)
               \/ MoveToTank(p) \/ MarkTrashed(p)
PassStep == BeginPass \/ EndPass \/ SyncChain \/ EndChain \/ \E p \in Paths : TaskStep(p)
UserStep == \E r \in Roots, p \in Paths : UserEdit(r, p)

Next == RequestStep \/ AdminStep \/ PassStep \/ UserStep \/ Crash

Spec == Init /\ [][Next]_vars

\* Triggers keep coming and a pass runs on; nobody else owes a step.
FairSpec == Spec /\ WF_passVars(PassStep)
-----------------------------------------------------------------------------
(* Safety.                                                                  *)

AllNames == Names \cup {TrashFolderName}
Folder == [parent : Nat, name : AllNames]
Object == [folder : Nat, path : Paths, content : Contents]
Target == [root : Roots, container : Nat]
Row == [rel : Nat, path : Paths, remoteID : Nat, md5 : Contents, mtime : Contents,
        size : {1}, status : {"SYNCED", "TRASHED"}]
WalkState == [folder : Nat, rest : Seq(AllNames), absent : BOOLEAN]
Request == [at : {"idle", "ensure", "listed", "done"}, root : Roots \cup {Nil}, walk : WalkState]
TaskState == [act : Actions, obj : Nat \cup {Nil}, md5 : Contents \cup {Nil},
              step : {"meta", "ensure", "record", "mark"}, walk : WalkState]
LocalType == local \in [Roots -> [Paths -> Contents \cup {Nil}]]
DriveType == dirs \in Seq(Folder) /\ objs \in Seq(Object)
FoldersType == /\ folders \subseteq Roots /\ paused \subseteq folders
               /\ targets \in Seq(Target) /\ present \subseteq DOMAIN targets
PassType == /\ pass.at \in {"idle", "next", "exec"} /\ pass.todo \subseteq DOMAIN targets
            /\ pass.target \in {0} \cup DOMAIN targets
RelTypeOK == /\ LocalType /\ DriveType /\ FoldersType /\ rows \subseteq Row
             /\ PassType /\ task \in [Paths -> TaskState \cup {Nil}]
             /\ adding \in [Requests -> Request]

\* Removing a folder is final for its relations: no pass that was under way
\* brings a row of theirs back, and no relation is left without its folder.
NoOrphanRows == /\ \A row \in rows : row.rel \in present
                /\ \A t \in present : targets[t].root \in folders

Home(o) == dirs[objs[o].folder]
Within(t) == LET home == Descendants(dirs, targets[t].container)
             IN  {o \in DOMAIN objs : objs[o].folder \in home}

\* Whatever folders of one name concurrent workers and handlers create, no
\* container ever holds two objects for one path outside of its tank.
OneObjectPerPath ==
    \A t \in present : LET live == {o \in Within(t) : Home(o).name # TrashFolderName} IN
        \A o1, o2 \in live : objs[o1].path = objs[o2].path => o1 = o2

\* A row's object is in the container of the row's own relation, and a
\* TRASHED row's object is in the tank, where the sweep will look for it.
RowsPointHome ==
    \A row \in rows :
        /\ row.remoteID \in Within(row.rel)
        /\ row.status = "TRASHED" => Home(row.remoteID).name = TrashFolderName

\* Mirrors in different containers do not touch each other's objects: a step
\* changes or moves an object only on behalf of its container's relations.
MirrorsAreApart ==
    [][\A row \in rows :
        objs'[row.remoteID] # objs[row.remoteID]
            => TargetOf.container = targets[row.rel].container]_vars
-----------------------------------------------------------------------------
(* Liveness, once edits, requests and crashes have run out.                 *)

Mirrored(t, p) ==
    \E row \in RowsAt(t, p) :
        /\ row.status = "SYNCED" /\ row.remoteID \in Listing(t)
        /\ objs[row.remoteID].content = local[targets[t].root][p]

\* Every file of a folder that is mirrored and not paused ends up in each of
\* its containers with its latest content.
EveryRelationMirrors ==
    <>[](\A t \in present, p \in Paths :
            LET r == targets[t].root IN
            r \notin paused /\ local[r][p] # Nil => Mirrored(t, p))
=============================================================================
