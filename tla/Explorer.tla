------------------------------ MODULE Explorer ------------------------------
(***************************************************************************)
(* The Explorer panel and what the daemon answers it: a directory with the *)
(* status of its entries (ipc/browse.go), the preflight of a folder that   *)
(* is about to be mirrored (sensitive/scan.go), the restore of a deleted   *)
(* file.  The panel's own part is in ui/src (Explorer, MirrorWarning).     *)
(*                                                                         *)
(* A browse reads the directory, the folders and the rows one after the    *)
(* other, while passes and other requests go on.  Folders have one         *)
(* relation each; a preflight, which nothing disturbs, is one step.        *)
(***************************************************************************)
EXTENDS Naturals, Sequences, FiniteSets, SequencesExt

CONSTANTS
    NumEntries,   \* files and directories, numbered in the order WalkDir meets them
    Parent,       \* entry -> its directory, 0 at the top
    Dirs,         \* the entries that are directories
    Sensitive,    \* the entries with a name on one of the lists of scan.go
    Own,          \* known secret paths: the daemon's data directory and secrets file
    MaxFiles, MaxFindings,  \* Options of a scan
    MaxChanges,   \* bound: changes to the file system, folders and rows
    MaxBrowses    \* bound: browses

Entries == 1..NumEntries

ASSUME ExplorerAssumption ==
    /\ NumEntries \in Nat /\ MaxFiles \in Nat /\ MaxFindings \in Nat /\ MaxChanges \in Nat /\ MaxBrowses \in Nat
    /\ Dirs \cup Sensitive \subseteq Entries /\ Own \in Seq(Entries)
    /\ Parent \in [Entries -> {0} \cup Dirs]
    /\ \A e \in Entries : Parent[e] < e /\ (Parent[e] = 0 => e \in Dirs)

VARIABLES
    disk,     \* the entries that exist
    locked,   \* the directories that cannot be read, when they exist
    folders,  \* mirrored_folders, in the order they were added
    paused,   \* is_paused
    rows,     \* file_metadata: folder -> file -> its status, or "absent"
    ask,      \* the browse being answered
    panel,    \* what the panel shows: [entry, status]
    guard,    \* useMirrorGuard: the folder being checked or confirmed
    changed,  \* history: entries and folders that changed during the browse
    changes,  \* how many, and
    browses   \* how many browses there were

fsVars == <<disk, locked>>
dbVars == <<folders, paused, rows>>
panelVars == <<ask, panel, guard, browses>>
vars == <<fsVars, dbVars, panelVars, changed, changes>>

Files == Entries \ Dirs
Mirrored == {folders[i] : i \in DOMAIN folders}
NoAsk == [at |-> "idle", dir |-> 0, names |-> {}, roots |-> <<>>, paused |-> {}]
NoCheck == [root |-> 0, found |-> {}, there |-> {}, limited |-> FALSE]
NoGuard == [at |-> "idle", check |-> NoCheck]

\* The ancestors of an entry and the entry itself.
UpFrom == LET up[e \in 0..NumEntries] == IF e = 0 THEN {} ELSE {e} \cup up[Parent[e]] IN up
Within(e, dir) == dir \in UpFrom[e]
EntriesOf(dir) == {e \in Entries : Parent[e] = dir}

\* What changes during a browse is noted.
Touched(entries) == IF ask.at = "idle" THEN {} ELSE changed \cup entries

Init ==
    /\ disk = Entries /\ locked \in SUBSET Dirs
    /\ folders = <<>> /\ paused = {}
    /\ rows = [r \in Dirs |-> [f \in Files |-> "absent"]]
    /\ ask = NoAsk /\ panel = {} /\ guard = NoGuard
    /\ changed = {} /\ changes = 0 /\ browses = 0
-----------------------------------------------------------------------------
(* Browse.                                                                  *)

\* The first root of some: the table is read in the order of insertion.
FirstOf(roots, among) ==
    LET at == {i \in DOMAIN roots : roots[i] \in among}
    IN  IF at = {} THEN 0 ELSE roots[CHOOSE i \in at : \A j \in at : i <= j]

fileStatus(status) ==
    CASE status = "SYNCED" -> "mirroring" [] status = "CONFLICT" -> "conflict"
      [] status = "TRASHED" -> "tank" [] status = "absent" -> "pending"

dirStatus(dir, roots, stopped) ==
    LET root == FirstOf(roots, {r \in Dirs : Within(dir, r) \/ Within(r, dir)})
    IN  IF root = 0 THEN "none"
        ELSE IF ~Within(dir, root) THEN "contains"
        ELSE IF root \in stopped THEN "paused" ELSE "mirroring"

OwningRoot(dir, roots) == FirstOf(roots, {r \in Dirs : Within(dir, r)})

ReadDir(dir) ==
    /\ ask.at = "idle" /\ browses < MaxBrowses /\ browses' = browses + 1
    /\ dir \in ({0} \cup disk) \ locked
    /\ ask' = [NoAsk EXCEPT !.at = "names", !.dir = dir, !.names = EntriesOf(dir) \cap disk]
    /\ UNCHANGED <<fsVars, dbVars, panel, guard, changed, changes>>

ReadFolders ==
    /\ ask.at = "names"
    /\ ask' = [ask EXCEPT !.at = "folders", !.roots = folders, !.paused = paused]
    /\ UNCHANGED <<fsVars, dbVars, panel, guard, changed, changes, browses>>

\* What a browse shows once the rows have been read: the entries it listed...
Root == OwningRoot(ask.dir, ask.roots)
StatusOf(e, meta) ==
    IF e \in Dirs THEN dirStatus(e, ask.roots, ask.paused)
    ELSE IF Root = 0 THEN "none"
    ELSE IF Root \in ask.paused THEN "paused" ELSE fileStatus(meta[Root][e])

\* Mutated form: the listing is not asked whether a ghost is there again.
ListedGhosts(meta) ==
    {f \in EntriesOf(ask.dir) \cap Files : Root # 0 /\ meta[Root][f] = "TRASHED"}

\* ... and what the tank holds of the others.
Ghosts(meta) ==
    {f \in (EntriesOf(ask.dir) \cap Files) \ ask.names : Root # 0 /\ meta[Root][f] = "TRASHED"}

Shown(meta) ==
    {[entry |-> e, status |-> StatusOf(e, meta)] : e \in ask.names}
    \cup {[entry |-> f, status |-> "ghost"] : f \in Ghosts(meta)}

Answer ==
    /\ ask.at = "folders" /\ ask' = NoAsk /\ panel' = Shown(rows)
    /\ changed' = {}
    /\ UNCHANGED <<fsVars, dbVars, guard, changes, browses>>
-----------------------------------------------------------------------------
(* Preflight, and the folders the panel adds.                               *)

\* add: a finding past the limit is dropped.
Flag(s, e) == IF s.count < MaxFindings
              THEN [s EXCEPT !.found = @ \cup {e}, !.count = @ + 1]
              ELSE [s EXCEPT !.dropped = TRUE]

\* What a walk of root that leaves out what is in the directories skipped can reach.
Reached(root, skipped) ==
    {e \in disk : /\ Within(e, root)
                  /\ \A a \in UpFrom[Parent[e]] : e # root /\ Within(a, root) => a \notin skipped \cup locked}

\* Mutated form: SkipDir after a file too, which skips the rest of its directory.
VisitSkipping(root, s, e) ==
    LET seen == [s EXCEPT !.scanned = IF e \in Dirs THEN @ ELSE @ + 1]
    IN  IF s.truncated \/ e \notin Reached(root, s.skipped) THEN s
        ELSE IF s.scanned >= MaxFiles THEN [s EXCEPT !.truncated = TRUE]
        ELSE IF e = root THEN s
        ELSE IF e \notin Sensitive THEN seen
        ELSE [Flag(seen, e) EXCEPT !.skipped = @ \cup {IF e \in Dirs THEN e ELSE Parent[e]}]

\* One call of the function that WalkDir applies.
Visit(root, s, e) ==
    LET seen == [s EXCEPT !.scanned = IF e \in Dirs THEN @ ELSE @ + 1]
    IN  IF s.truncated \/ e \notin Reached(root, s.skipped) THEN s
        ELSE IF s.scanned >= MaxFiles THEN [s EXCEPT !.truncated = TRUE]
        ELSE IF e = root THEN s
        ELSE IF e \notin Sensitive THEN seen
        ELSE [Flag(seen, e) EXCEPT !.skipped = IF e \in Dirs THEN @ \cup {e} ELSE @]

\* The files and directories known to hold secrets, and the root's own name.
NothingFound ==
    [found |-> {}, count |-> 0, dropped |-> FALSE, scanned |-> 0, skipped |-> {}, truncated |-> FALSE]
Known(root, known) ==
    LET of[i \in 0..Len(known)] ==
            IF i = 0 THEN NothingFound
            ELSE IF Within(known[i], root) THEN Flag(of[i - 1], known[i]) ELSE of[i - 1]
    IN  of
BeforeWalk(root, known) ==
    LET own == Known(root, known)[Len(known)]
    IN  IF root \in Sensitive THEN Flag(own, root) ELSE own

\* The walk after each entry.
Walk(root, known) ==
    LET after[e \in 0..NumEntries] ==
            IF e = 0 THEN BeforeWalk(root, known) ELSE Visit(root, after[e - 1], e)
    IN  after
Scan(root, known) == Walk(root, known)[NumEntries]

PreflightMirror(root) == Scan(root, Own)

\* Mutated form: the entry itself is mirrored.
MirrorEntry(e) == e

\* requestMirror on an entry without a mirror; for a file, on its directory.
MirrorRoot(e) == IF e \in Dirs THEN e ELSE Parent[e]
RequestMirror ==
    /\ guard.at = "idle"
    /\ \E x \in panel :
        /\ x.status = "none"
        /\ LET root == MirrorRoot(x.entry)
               result == PreflightMirror(root)
           IN  guard' = [at |-> IF result.found = {} THEN "clean" ELSE "asked",
                         check |-> [root |-> root, found |-> result.found,
                                    there |-> Sensitive \cap Reached(root, {}),
                                    limited |-> result.truncated \/ result.dropped]]
    /\ UNCHANGED <<fsVars, dbVars, ask, panel, changed, changes, browses>>

Cancel ==
    /\ guard.at = "asked" /\ guard' = NoGuard
    /\ UNCHANGED <<fsVars, dbVars, ask, panel, changed, changes, browses>>

\* addFolder, at once when nothing was found, else when the user confirms.
AddFolder ==
    /\ guard.at # "idle" /\ guard' = NoGuard
    /\ folders' = IF guard.check.root \in Mirrored THEN folders ELSE Append(folders, guard.check.root)
    /\ paused' = paused \ {guard.check.root}
    /\ changed' = Touched(Entries)
    /\ UNCHANGED <<fsVars, rows, ask, panel, changes, browses>>
-----------------------------------------------------------------------------
(* What goes on meanwhile.                                                  *)

Change == changes < MaxChanges /\ changes' = changes + 1

\* handlePauseFolder and handleRemoveFolder.
PauseFolder(r) ==
    /\ Change /\ paused' = IF r \in paused THEN paused \ {r} ELSE paused \cup {r}
    /\ changed' = Touched(Entries)
    /\ UNCHANGED <<fsVars, folders, rows, panelVars>>

RemoveFolder(r) ==
    /\ Change
    /\ \E i \in DOMAIN folders : folders[i] = r /\ folders' = RemoveAt(folders, i)
    /\ paused' = paused \ {r}
    /\ rows' = [rows EXCEPT ![r] = [f \in Files |-> "absent"]]
    /\ changed' = Touched(Entries)
    /\ UNCHANGED <<fsVars, panelVars>>

\* What a pass makes of the row of a file: one it finds is uploaded or in
\* conflict, one it does not find is put into the tank.
PassRow(r, f) ==
    /\ Change /\ r \notin paused /\ Within(f, r)
    /\ \/ f \in Reached(r, {}) /\ \E s \in {"SYNCED", "CONFLICT"} : rows' = [rows EXCEPT ![r][f] = s]
       \/ f \notin Reached(r, {}) /\ rows[r][f] # "absent" /\ rows' = [rows EXCEPT ![r][f] = "TRASHED"]
    /\ rows' # rows /\ changed' = Touched({f})
    /\ UNCHANGED <<fsVars, folders, paused, panelVars>>

\* The sweep or a purge drops the row; a restore brings the file back, with
\* the directories it needs.
LeaveTank(r, f) ==
    LET back == {e \in Entries : Within(f, e)}
    IN  /\ Change /\ rows[r][f] = "TRASHED"
        /\ \/ rows' = [rows EXCEPT ![r][f] = "absent"] /\ disk' = disk
           \/ rows' = [rows EXCEPT ![r][f] = "SYNCED"] /\ disk' = disk \cup back
        /\ changed' = Touched(back)
        /\ UNCHANGED <<locked, folders, paused, panelVars>>

\* The user makes an entry, or removes one with all that is in it.
User(e) ==
    /\ Change
    /\ \/ /\ e \notin disk /\ Parent[e] \in {0} \cup disk
          /\ disk' = disk \cup {e} /\ changed' = Touched({e})
       \/ /\ e \in disk /\ disk' = {c \in disk : ~Within(c, e)}
          /\ changed' = Touched(disk \ disk')
    /\ UNCHANGED <<locked, dbVars, panelVars>>

Next ==
    \/ \E dir \in {0} \cup Dirs : ReadDir(dir)
    \/ ReadFolders \/ Answer
    \/ RequestMirror \/ Cancel \/ AddFolder
    \/ \E r \in Mirrored : \/ PauseFolder(r) \/ RemoveFolder(r)
                          \/ \E f \in Files : PassRow(r, f) \/ LeaveTank(r, f)
    \/ \E e \in Entries : User(e)

Spec == Init /\ [][Next]_vars
-----------------------------------------------------------------------------
(* Properties.                                                              *)

\* Types; in particular only directories are offered to be mirrored (Explorer
\* takes a file's directory) and each at most once (AddMirroredFolder).
ExplorerTypeOK ==
    /\ disk \subseteq Entries /\ locked \subseteq Dirs
    /\ folders \in Seq(Dirs) /\ \A i, j \in DOMAIN folders : folders[i] = folders[j] => i = j
    /\ paused \subseteq Mirrored
    /\ rows \in [Dirs -> [Files -> {"absent", "SYNCED", "CONFLICT", "TRASHED"}]]
    /\ ask \in [at : {"idle", "names", "folders"}, dir : {0} \cup Dirs, names : SUBSET Entries,
               roots : Seq(Dirs), paused : SUBSET Dirs]
    /\ ask.names \subseteq EntriesOf(ask.dir)
    /\ \A x \in panel : x.entry \in Entries
    /\ guard.at \in {"idle", "clean", "asked"} /\ guard.check.root \in {0} \cup Dirs
    /\ guard.at # "idle" => guard.check.root # 0
    /\ changed \subseteq Entries /\ changes \in 0..MaxChanges /\ browses \in 0..MaxBrowses

\* The mirrors an entry is in, and the statuses it may be shown with.
Covering(e) == {r \in Mirrored : Within(IF e \in Dirs THEN e ELSE Parent[e], r)}
Right(x) ==
    LET e == x.entry
        inside == {r \in Mirrored : Within(r, e) /\ ~Within(e, r)}
        StatusUnder(r) == IF r \in paused THEN "paused"
                          ELSE IF e \in Dirs THEN "mirroring" ELSE fileStatus(rows[r][e])
    IN  CASE x.status = "none" -> Covering(e) = {} /\ (e \in Dirs => inside = {})
          [] x.status = "contains" -> e \in Dirs /\ inside # {}
          [] x.status = "ghost" -> e \in Files \ disk /\ \E r \in Covering(e) : rows[r][e] = "TRASHED"
          [] OTHER -> e \in disk /\ \E r \in Covering(e) : StatusUnder(r) = x.status

\* A browse shows each entry of the directory that nothing touched meanwhile
\* once, with a status that it has under one of the mirrors it is in, and one
\* that is gone as a ghost if it is in the tank of every mirror: the directory,
\* the folders and the rows are read one after the other (handleBrowse).
AnswerIsRight ==
    [][Answer => \A e \in EntriesOf(ask.dir) \ changed :
         LET shown == {x \in panel' : x.entry = e}
         IN  /\ \A x \in shown : Right(x)
             /\ Cardinality(shown) <= 1
             /\ e \in disk => shown # {}
             /\ (/\ e \in Files \ disk /\ Covering(e) # {}
                 /\ \A r \in Covering(e) : rows[r][e] = "TRASHED") => shown # {}]_vars

\* No folder is added through the panel without the user having been told of
\* every sensitive entry the check could get at, by its own name or by that of
\* a directory above it, unless the scan ran into one of its limits (Scan,
\* useMirrorGuard).
WarnedOfAll ==
    LET check == guard.check
    IN  check.limited \/ \A e \in check.there : UpFrom[e] \cap check.found # {}
=============================================================================
