-------------------------- MODULE Explorer_proofs --------------------------
(***************************************************************************)
(* What a browse answers is right (Explorer), for any directory tree and   *)
(* any number of mirrors: between its reads, what it has read holds for    *)
(* all that nothing has touched (BrowseInv).  And the preflight tells of   *)
(* every sensitive entry: after each step of the walk, of all those it has *)
(* passed, and of every directory it has skipped (ScanTells).              *)
(***************************************************************************)
EXTENDS Explorer, WellFoundedInduction, SequenceTheorems,
        FiniteSetTheorems, TLAPS

USE ExplorerAssumption DEF ExplorerAssumption

\* What the browse has read is still so where nothing was touched.
BrowseInv ==
    /\ ask.at # "idle" => \A e \in EntriesOf(ask.dir) \ changed : e \in ask.names <=> e \in disk
    /\ ask.at = "folders" => changed = Entries \/ (ask.roots = folders /\ ask.paused = paused)

ExplorerInv == ExplorerTypeOK /\ BrowseInv
-----------------------------------------------------------------------------
\* A set of numbers has a least element.
LEMMA Least ==
    ASSUME NEW S \in SUBSET Nat, S # {} PROVE \E i \in S : \A j \in S : i <= j
<1> DEFINE less == {ss \in Nat \X Nat : ss[1] < ss[2]}
<1>1. IsWellFoundedOn(less, Nat)
  BY NatLessThanWellFounded DEF OpToRel
<1> HIDE DEF less
<1>2. PICK i \in S : \A j \in S : ~(<<j, i>> \in less)
  BY <1>1, WFMin
<1>3. ASSUME NEW j \in S, j < i PROVE FALSE
  <2>1. <<j, i>> \in Nat \X Nat /\ <<j, i>>[1] = j /\ <<j, i>>[2] = i
    OBVIOUS
  <2>2. <<j, i>> \in less
    BY <1>3, <2>1 DEF less
  <2> QED BY <2>2, <1>2
<1> QED BY <1>3

\* FirstOf finds one if there is one.
LEMMA FirstFound ==
    ASSUME NEW roots \in Seq(Dirs), NEW among \in SUBSET Dirs
    PROVE  \/ /\ FirstOf(roots, among) = 0
              /\ \A i \in DOMAIN roots : roots[i] \notin among
           \/ \E i \in DOMAIN roots : roots[i] \in among /\ FirstOf(roots, among) = roots[i]
<1> DEFINE at == {i \in DOMAIN roots : roots[i] \in among}
<1>1. CASE at = {}
  BY <1>1 DEF FirstOf
<1>2. CASE at # {}
  <2>1. \E i \in at : \A j \in at : i <= j
    <3>1. at \in SUBSET Nat
      OBVIOUS
    <3> QED BY <3>1, <1>2, Least
  <2>2. (CHOOSE i \in at : \A j \in at : i <= j) \in at
    BY <2>1
  <2> QED BY <1>2, <2>2 DEF FirstOf
<1> QED BY <1>1, <1>2

LEMMA Zero == 0 \notin Entries /\ 0 \notin Dirs
  BY DEF Entries

LEMMA DirEntries == ASSUME NEW d PROVE EntriesOf(d) \subseteq Entries
  BY DEF EntriesOf
-----------------------------------------------------------------------------
(* Initially, and what is touched.                                          *)

LEMMA InitExplorer == Init => ExplorerInv
<1> SUFFICES ASSUME Init PROVE ExplorerInv
  OBVIOUS
<1>1. ExplorerTypeOK
  BY DEF Init, ExplorerTypeOK, Mirrored, NoAsk, NoGuard, NoCheck, Files
<1>2. BrowseInv
  BY DEF Init, BrowseInv, NoAsk
<1> QED BY <1>1, <1>2 DEF ExplorerInv

\* A change of the folders touches every entry.
LEMMA AllTouched ==
    ASSUME ExplorerInv, ask' = ask, changed' = Touched(Entries)
    PROVE  BrowseInv' /\ changed' \subseteq Entries
<1>1. changed' \subseteq Entries
  BY DEF ExplorerInv, ExplorerTypeOK, Touched
<1>2. ask.at # "idle" => changed' = Entries
  BY DEF ExplorerInv, ExplorerTypeOK, Touched
<1>3. \A d : EntriesOf(d)' = EntriesOf(d) /\ EntriesOf(d) \subseteq Entries
  BY DEF EntriesOf
<1> QED BY <1>1, <1>2, <1>3 DEF BrowseInv

LEMMA SomeTouched ==
    ASSUME ExplorerInv, UNCHANGED <<ask, folders, paused>>,
           NEW S \in SUBSET Entries, changed' = Touched(S),
           \A e \in Entries \ S : e \in disk' <=> e \in disk
    PROVE  BrowseInv' /\ changed' \subseteq Entries
<1>1. changed' \subseteq Entries
  BY DEF ExplorerInv, ExplorerTypeOK, Touched
<1>2. ask.at # "idle" => changed' = changed \cup S
  BY DEF Touched
<1>3. ASSUME ask.at # "idle", NEW e \in EntriesOf(ask.dir) \ changed'
      PROVE  e \in ask.names <=> e \in disk'
  BY <1>2, <1>3, DirEntries DEF ExplorerInv, BrowseInv
<1>4. ask.at = "folders" => changed' = Entries \/ (ask.roots = folders /\ ask.paused = paused)
  BY <1>1, <1>2 DEF ExplorerInv, BrowseInv, ExplorerTypeOK
<1>5. \A d : EntriesOf(d)' = EntriesOf(d)
  BY DEF EntriesOf
<1> QED BY <1>1, <1>3, <1>4, <1>5 DEF BrowseInv
-----------------------------------------------------------------------------
(* One lemma per action.                                                    *)

LEMMA ReadDirInv == ASSUME ExplorerInv, NEW dir \in {0} \cup Dirs, ReadDir(dir) PROVE ExplorerInv'
<1> USE DEF ExplorerInv, ExplorerTypeOK
<1>1. /\ ask' = [at |-> "names", dir |-> dir, names |-> EntriesOf(dir) \cap disk,
                roots |-> <<>>, paused |-> {}]
      /\ UNCHANGED <<disk, locked, folders, paused, rows, panel, guard, changed, changes>>
  BY DEF ReadDir, NoAsk, fsVars, dbVars
<1>2. ask' \in [at : {"idle", "names", "folders"}, dir : {0} \cup Dirs, names : SUBSET Entries,
               roots : Seq(Dirs), paused : SUBSET Dirs]
  BY <1>1
<1>3. browses' \in 0..MaxBrowses
  BY DEF ReadDir
<1>4. \A d : EntriesOf(d)' = EntriesOf(d)
  BY DEF EntriesOf
<1>5. ask'.names \subseteq EntriesOf(ask'.dir)
  BY <1>1
<1>6. ExplorerTypeOK'
  BY <1>1, <1>2, <1>3, <1>4, <1>5 DEF Mirrored
<1>7. BrowseInv'
  BY <1>1, <1>4 DEF BrowseInv
<1> QED BY <1>6, <1>7

LEMMA ReadFoldersInv == ASSUME ExplorerInv, ReadFolders PROVE ExplorerInv'
<1> USE DEF ExplorerInv, ExplorerTypeOK
<1>1. /\ ask.at = "names" /\ ask' = [ask EXCEPT !.at = "folders", !.roots = folders, !.paused = paused]
      /\ UNCHANGED <<disk, locked, folders, paused, rows, panel, guard, changed, changes, browses>>
  BY DEF ReadFolders, fsVars, dbVars
<1>2. /\ ask' \in [at : {"idle", "names", "folders"}, dir : {0} \cup Dirs, names : SUBSET Entries,
                    roots : Seq(Dirs), paused : SUBSET Dirs]
      /\ ask'.at = "folders" /\ ask'.dir = ask.dir /\ ask'.names = ask.names
      /\ ask'.roots = folders /\ ask'.paused = paused
  <2>1. folders \in Seq(Dirs) /\ paused \in SUBSET Dirs
    BY DEF Mirrored
  <2> QED BY <1>1, <2>1
<1>3. \A d : EntriesOf(d)' = EntriesOf(d)
  BY DEF EntriesOf
<1>4. ExplorerTypeOK'
  BY <1>1, <1>2, <1>3 DEF Mirrored
<1>5. BrowseInv'
  BY <1>1, <1>2, <1>3 DEF BrowseInv
<1> QED BY <1>4, <1>5

LEMMA ShownAreEntries ==
    ASSUME ExplorerInv, NEW x \in Shown(rows) PROVE x.entry \in Entries
  BY DirEntries DEF ExplorerInv, ExplorerTypeOK, Shown, Ghosts

LEMMA AnswerInv == ASSUME ExplorerInv, Answer PROVE ExplorerInv'
<1> USE DEF ExplorerInv, ExplorerTypeOK
<1>1. /\ ask' = NoAsk /\ panel' = Shown(rows) /\ changed' = {}
      /\ UNCHANGED <<disk, locked, folders, paused, rows, guard, changes, browses>>
  BY DEF Answer, fsVars, dbVars
<1>2. /\ NoAsk \in [at : {"idle", "names", "folders"}, dir : {0} \cup Dirs, names : SUBSET Entries,
                    roots : Seq(Dirs), paused : SUBSET Dirs]
      /\ NoAsk.at = "idle" /\ NoAsk.names = {}
  BY DEF NoAsk
<1>3. \A x \in panel' : x.entry \in Entries
  BY <1>1, ShownAreEntries
<1>4. ExplorerTypeOK'
  BY <1>1, <1>2, <1>3 DEF Mirrored
<1>5. BrowseInv'
  BY <1>1, <1>2 DEF BrowseInv
<1> QED BY <1>4, <1>5

LEMMA RequestMirrorInv == ASSUME ExplorerInv, RequestMirror PROVE ExplorerInv'
<1> USE DEF ExplorerInv, ExplorerTypeOK
<1>1. PICK x \in panel :
        /\ guard'.at \in {"clean", "asked"} /\ guard'.check.root = MirrorRoot(x.entry)
        /\ UNCHANGED <<disk, locked, folders, paused, rows, ask, panel, changed, changes, browses>>
  BY DEF RequestMirror, fsVars, dbVars
<1>2. MirrorRoot(x.entry) \in Dirs
  BY DEF MirrorRoot, Entries
<1>3. guard'.check.root # 0 /\ guard'.check.root \in Dirs
  BY <1>1, <1>2, Zero
<1>4. \A d : EntriesOf(d)' = EntriesOf(d)
  BY DEF EntriesOf
<1>5. ExplorerTypeOK'
  BY <1>1, <1>3, <1>4 DEF Mirrored
<1>6. BrowseInv'
  BY <1>1, <1>4 DEF BrowseInv
<1> QED BY <1>5, <1>6

LEMMA CancelInv == ASSUME ExplorerInv, Cancel PROVE ExplorerInv'
<1> USE DEF ExplorerInv, ExplorerTypeOK
<1>1. /\ guard'.at = "idle" /\ guard'.check.root = 0
      /\ UNCHANGED <<disk, locked, folders, paused, rows, ask, panel, changed, changes, browses>>
  BY DEF Cancel, NoGuard, NoCheck, fsVars, dbVars
<1>2. \A d : EntriesOf(d)' = EntriesOf(d)
  BY DEF EntriesOf
<1>3. ExplorerTypeOK'
  BY <1>1, <1>2 DEF Mirrored
<1>4. BrowseInv'
  BY <1>1, <1>2 DEF BrowseInv
<1> QED BY <1>3, <1>4
-----------------------------------------------------------------------------
(* The folders.                                                             *)

LEMMA AddFolderInv == ASSUME ExplorerInv, AddFolder PROVE ExplorerInv'
<1> USE DEF ExplorerInv, ExplorerTypeOK
<1> DEFINE root == guard.check.root
<1>1. /\ root \in Dirs /\ guard' = NoGuard /\ changed' = Touched(Entries)
      /\ folders' = IF root \in Mirrored THEN folders ELSE Append(folders, root)
      /\ paused' = paused \ {root}
      /\ UNCHANGED <<disk, locked, rows, ask, panel, changes, browses>>
  BY DEF AddFolder, fsVars
<1>2. BrowseInv' /\ changed' \subseteq Entries
  BY <1>1, AllTouched
<1>3. /\ folders' \in Seq(Dirs) /\ \A i, j \in DOMAIN folders' : folders'[i] = folders'[j] => i = j
      /\ \A i \in DOMAIN folders : i \in DOMAIN folders' /\ folders'[i] = folders[i]
  BY <1>1 DEF Mirrored
<1>4. paused' \subseteq Mirrored'
  BY <1>1, <1>3 DEF Mirrored
<1>5. guard'.at = "idle" /\ guard'.check.root = 0
  BY <1>1 DEF NoGuard, NoCheck
<1>6. \A d : EntriesOf(d)' = EntriesOf(d)
  BY DEF EntriesOf
<1>7. ExplorerTypeOK'
  BY <1>1, <1>2, <1>3, <1>4, <1>5, <1>6
<1> QED BY <1>2, <1>7

LEMMA PauseFolderInv == ASSUME ExplorerInv, NEW r \in Mirrored, PauseFolder(r) PROVE ExplorerInv'
<1> USE DEF ExplorerInv, ExplorerTypeOK
<1>1. /\ paused' \subseteq Mirrored /\ changed' = Touched(Entries) /\ changes' \in 0..MaxChanges
      /\ UNCHANGED <<disk, locked, folders, rows, ask, panel, guard, browses>>
  BY DEF PauseFolder, Change, fsVars, panelVars
<1>2. BrowseInv' /\ changed' \subseteq Entries
  BY <1>1, AllTouched
<1>3. \A d : EntriesOf(d)' = EntriesOf(d)
  BY DEF EntriesOf
<1>4. ExplorerTypeOK'
  BY <1>1, <1>2, <1>3 DEF Mirrored
<1> QED BY <1>2, <1>4

\* A sequence without one of its elements.
LEMMA Removed ==
    ASSUME NEW S, NEW s \in Seq(S), NEW i \in DOMAIN s
    PROVE  LET t == RemoveAt(s, i)
           IN  /\ t \in Seq(S) /\ Len(t) = Len(s) - 1
               /\ \A j \in 1..Len(s) - 1 : t[j] = IF j < i THEN s[j] ELSE s[j + 1]
<1> DEFINE before == SubSeq(s, 1, i - 1)
           after == SubSeq(s, i + 1, Len(s))
<1>1. /\ before \in Seq(S) /\ Len(before) = i - 1
      /\ \A j \in 1..i - 1 : before[j] = s[j]
  OBVIOUS
<1>2. /\ after \in Seq(S) /\ Len(after) = Len(s) - i
      /\ \A j \in 1..Len(s) - i : after[j] = s[i + j]
  OBVIOUS
<1>3. RemoveAt(s, i) = before \o after
  BY DEF RemoveAt
<1> HIDE DEF before, after
<1>4. /\ before \o after \in Seq(S) /\ Len(before \o after) = Len(s) - 1
      /\ \A j \in 1..Len(s) - 1 : (before \o after)[j] = IF j < i THEN s[j] ELSE s[j + 1]
  BY <1>1, <1>2
<1> QED BY <1>3, <1>4

\* Every other element is still somewhere, and none is there twice.
LEMMA RemovedKeeps ==
    ASSUME NEW S, NEW s \in Seq(S), NEW i \in DOMAIN s,
           \A j, k \in DOMAIN s : s[j] = s[k] => j = k
    PROVE  LET t == RemoveAt(s, i)
           IN  /\ \A j \in DOMAIN s \ {i} : \E k \in DOMAIN t : t[k] = s[j]
               /\ \A j, k \in DOMAIN t : t[j] = t[k] => j = k
<1> DEFINE t == RemoveAt(s, i)
           was(j) == IF j < i THEN j ELSE j + 1
<1>1. /\ t \in Seq(S) /\ Len(t) = Len(s) - 1
      /\ \A j \in 1..Len(s) - 1 : t[j] = IF j < i THEN s[j] ELSE s[j + 1]
  BY Removed
<1> HIDE DEF t
<1>2. /\ Len(s) \in Nat /\ DOMAIN s = 1..Len(s) /\ DOMAIN t = 1..Len(s) - 1
      /\ i \in 1..Len(s)
  BY <1>1
<1>3. ASSUME NEW j \in DOMAIN s, j # i PROVE \E k \in DOMAIN t : t[k] = s[j]
  <2>1. CASE j < i
    <3>1. j \in DOMAIN t /\ t[j] = s[j]
      BY <1>1, <1>2, <2>1
    <3> QED BY <3>1
  <2>2. CASE j > i
    <3>1. j - 1 \in DOMAIN t /\ t[j - 1] = s[j]
      BY <1>1, <1>2, <2>2
    <3> QED BY <3>1
  <2> QED BY <1>2, <1>3, <2>1, <2>2
<1>4. ASSUME NEW j \in DOMAIN t PROVE was(j) \in DOMAIN s /\ t[j] = s[was(j)]
  BY <1>1, <1>2, <1>4
<1>5. \A j, k \in DOMAIN t : was(j) = was(k) => j = k
  BY <1>2
<1> HIDE DEF was
<1>6. \A j, k \in DOMAIN t : t[j] = t[k] => j = k
  BY <1>4, <1>5
<1> QED BY <1>3, <1>6 DEF t

LEMMA RemoveFolderInv == ASSUME ExplorerInv, NEW r \in Mirrored, RemoveFolder(r) PROVE ExplorerInv'
<1> USE DEF ExplorerInv, ExplorerTypeOK
<1>1. /\ paused' = paused \ {r} /\ changed' = Touched(Entries) /\ changes' \in 0..MaxChanges
      /\ rows' = [rows EXCEPT ![r] = [f \in Files |-> "absent"]]
      /\ UNCHANGED <<disk, locked, ask, panel, guard, browses>>
  BY DEF RemoveFolder, Change, fsVars, panelVars
<1>2. BrowseInv' /\ changed' \subseteq Entries
  BY <1>1, AllTouched
<1>3. PICK i \in DOMAIN folders : folders[i] = r /\ folders' = RemoveAt(folders, i)
  BY DEF RemoveFolder
<1>4. folders' \in Seq(Dirs)
  BY <1>3, Removed
<1>5. /\ \A j \in DOMAIN folders \ {i} : \E k \in DOMAIN folders' : folders'[k] = folders[j]
      /\ \A j, k \in DOMAIN folders' : folders'[j] = folders'[k] => j = k
  BY <1>3, RemovedKeeps
<1>6. Mirrored \ {r} \subseteq Mirrored'
  <2> SUFFICES ASSUME NEW j \in DOMAIN folders, folders[j] # r
               PROVE  \E k \in DOMAIN folders' : folders'[k] = folders[j]
    BY DEF Mirrored
  <2>1. j # i
    BY <1>3
  <2> QED BY ONLY <1>5, <2>1, j \in DOMAIN folders
<1>7. rows' \in [Dirs -> [Files -> {"absent", "SYNCED", "CONFLICT", "TRASHED"}]]
  BY <1>1
<1>8. \A d : EntriesOf(d)' = EntriesOf(d)
  BY DEF EntriesOf
<1>9. ExplorerTypeOK'
  BY <1>1, <1>2, <1>4, <1>5, <1>6, <1>7, <1>8
<1> QED BY <1>2, <1>9
-----------------------------------------------------------------------------
(* The rest of the environment.                                             *)

LEMMA PassRowInv ==
    ASSUME ExplorerInv, NEW r \in Mirrored, NEW f \in Files, PassRow(r, f) PROVE ExplorerInv'
<1> USE DEF ExplorerInv, ExplorerTypeOK
<1>1. /\ changed' = Touched({f}) /\ changes' \in 0..MaxChanges /\ f \in Entries
      /\ UNCHANGED <<disk, locked, folders, paused, ask, panel, guard, browses>>
  BY DEF PassRow, Change, fsVars, panelVars, Files
<1>2. BrowseInv' /\ changed' \subseteq Entries
  BY <1>1, SomeTouched
<1>3. rows' \in [Dirs -> [Files -> {"absent", "SYNCED", "CONFLICT", "TRASHED"}]]
  <2>1. \E s \in {"SYNCED", "CONFLICT", "TRASHED"} : rows' = [rows EXCEPT ![r][f] = s]
    BY DEF PassRow
  <2> QED BY <2>1 DEF Mirrored
<1>4. \A d : EntriesOf(d)' = EntriesOf(d)
  BY DEF EntriesOf
<1>5. Mirrored' = Mirrored
  BY <1>1 DEF Mirrored
<1>6. ExplorerTypeOK'
  BY <1>1, <1>2, <1>3, <1>4, <1>5
<1> QED BY <1>2, <1>6

LEMMA LeaveTankInv ==
    ASSUME ExplorerInv, NEW r \in Mirrored, NEW f \in Files, LeaveTank(r, f) PROVE ExplorerInv'
<1> USE DEF ExplorerInv, ExplorerTypeOK
<1> DEFINE back == {e \in Entries : Within(f, e)}
<1>1. /\ changed' = Touched(back) /\ changes' \in 0..MaxChanges
      /\ disk' \in {disk, disk \cup back}
      /\ \E s \in {"absent", "SYNCED"} : rows' = [rows EXCEPT ![r][f] = s]
      /\ UNCHANGED <<locked, folders, paused, ask, panel, guard, browses>>
  BY DEF LeaveTank, Change, panelVars
<1>2. BrowseInv' /\ changed' \subseteq Entries
  <2>1. back \in SUBSET Entries /\ \A e \in Entries \ back : e \in disk' <=> e \in disk
    BY <1>1
  <2> HIDE DEF back
  <2> QED BY <1>1, <2>1, SomeTouched
<1>3. rows' \in [Dirs -> [Files -> {"absent", "SYNCED", "CONFLICT", "TRASHED"}]]
  BY <1>1 DEF Mirrored
<1>4. \A d : EntriesOf(d)' = EntriesOf(d)
  BY DEF EntriesOf
<1>5. ExplorerTypeOK'
  BY <1>1, <1>2, <1>3, <1>4 DEF Mirrored
<1> QED BY <1>2, <1>5

LEMMA UserInv == ASSUME ExplorerInv, NEW e \in Entries, User(e) PROVE ExplorerInv'
<1> USE DEF ExplorerInv, ExplorerTypeOK
<1>1. /\ disk' \subseteq Entries /\ changes' \in 0..MaxChanges
      /\ UNCHANGED <<locked, folders, paused, rows, ask, panel, guard, browses>>
  BY DEF User, Change, dbVars, panelVars
<1>2. PICK S \in SUBSET Entries :
        changed' = Touched(S) /\ \A d \in Entries \ S : d \in disk' <=> d \in disk
  <2>1. CASE changed' = Touched({e}) /\ disk' = disk \cup {e}
    BY <2>1
  <2>2. CASE changed' = Touched(disk \ disk') /\ disk' \subseteq disk
    <3>1. /\ disk \ disk' \in SUBSET Entries
          /\ \A d \in Entries \ (disk \ disk') : d \in disk' <=> d \in disk
      BY <2>2
    <3> QED BY <2>2, <3>1
  <2> QED BY <2>1, <2>2 DEF User
<1>3. BrowseInv' /\ changed' \subseteq Entries
  BY <1>1, <1>2, SomeTouched
<1>4. \A d : EntriesOf(d)' = EntriesOf(d)
  BY DEF EntriesOf
<1>5. ExplorerTypeOK'
  BY <1>1, <1>3, <1>4 DEF Mirrored
<1> QED BY <1>3, <1>5

LEMMA NextInv == ASSUME ExplorerInv, [Next]_vars PROVE ExplorerInv'
<1>1. CASE UNCHANGED vars
  BY <1>1 DEF vars, fsVars, dbVars, panelVars, ExplorerInv, ExplorerTypeOK, BrowseInv, Mirrored, EntriesOf
<1>2. CASE Next
  BY <1>2, ReadDirInv, ReadFoldersInv, AnswerInv, RequestMirrorInv, CancelInv, AddFolderInv,
     PauseFolderInv, RemoveFolderInv, PassRowInv, LeaveTankInv, UserInv DEF Next
<1> QED BY <1>1, <1>2

\* Types (handleBrowse, useMirrorGuard): in particular a folder is mirrored
\* at most once and only directories are, whatever the tree.
THEOREM ExplorerTypesHold == Spec => []ExplorerTypeOK
<1>1. ExplorerInv => ExplorerTypeOK
  BY DEF ExplorerInv
<1> QED BY <1>1, InitExplorer, NextInv, PTL DEF Spec
-----------------------------------------------------------------------------
(* The answer.                                                              *)

\* What an answer shows of an entry that nothing touched is read off the
\* mirrors, the rows and the disk as they are.
LEMMA ReadIsNow ==
    ASSUME ExplorerInv, Answer, NEW e \in EntriesOf(ask.dir) \ changed
    PROVE  /\ e \in Entries /\ Parent[e] = ask.dir /\ (e \in ask.names <=> e \in disk)
           /\ ask.roots = folders /\ ask.paused = paused
           /\ folders \in Seq(Dirs)
<1> USE DEF ExplorerInv, ExplorerTypeOK
<1>1. ask.at = "folders" /\ e \in Entries /\ Parent[e] = ask.dir /\ changed # Entries
  BY DEF Answer, EntriesOf
<1> QED BY <1>1 DEF BrowseInv

\* The first of the mirrors of a set.
LEMMA FirstMirror ==
    ASSUME folders \in Seq(Dirs), NEW among \in SUBSET Dirs
    PROVE  \/ FirstOf(folders, among) = 0 /\ Mirrored \cap among = {}
           \/ FirstOf(folders, among) # 0 /\ FirstOf(folders, among) \in Mirrored \cap among
<1>1. CASE FirstOf(folders, among) = 0 /\ \A i \in DOMAIN folders : folders[i] \notin among
  BY <1>1 DEF Mirrored
<1>2. CASE \E i \in DOMAIN folders : folders[i] \in among /\ FirstOf(folders, among) = folders[i]
  BY <1>2, Zero DEF Mirrored
<1> QED BY <1>1, <1>2, FirstFound

LEMMA RightFile ==
    ASSUME ExplorerInv, Answer, NEW e \in EntriesOf(ask.dir) \ changed, e \in Files,
           NEW x \in Shown(rows), x.entry = e
    PROVE  Right(x)
<1>1. /\ e \in Entries /\ Parent[e] = ask.dir /\ (e \in ask.names <=> e \in disk)
      /\ ask.roots = folders /\ ask.paused = paused /\ folders \in Seq(Dirs)
  BY ReadIsNow
<1>2. e \notin Dirs
  BY DEF Files
<1>3. \/ Root = 0 /\ Covering(e) = {}
      \/ Root # 0 /\ Root \in Covering(e)
  <2> DEFINE covers == {r \in Dirs : Within(ask.dir, r)}
  <2>1. Root = FirstOf(folders, covers)
    BY <1>1 DEF Root, OwningRoot
  <2>2. Covering(e) = Mirrored \cap covers
    <3>1. Mirrored \subseteq Dirs
      BY <1>1 DEF Mirrored
    <3> QED BY <1>1, <1>2, <3>1 DEF Covering
  <2>3. covers \in SUBSET Dirs
    OBVIOUS
  <2> HIDE DEF covers
  <2> QED BY <1>1, <2>1, <2>2, <2>3, FirstMirror
<1>4. CASE e \in Ghosts(rows) /\ x.status = "ghost"
  BY <1>1, <1>3, <1>4 DEF Ghosts, Right
<1>5. CASE e \in ask.names /\ x.status = StatusOf(e, rows)
  <2>1. CASE Root = 0
    BY <1>2, <1>3, <1>5, <2>1 DEF StatusOf, Right
  <2>2. CASE Root # 0 /\ Root \in paused
    <3>1. x.status = "paused"
      BY <1>1, <1>2, <1>5, <2>2 DEF StatusOf
    <3> QED BY <1>1, <1>3, <1>5, <2>2, <3>1 DEF Right
  <2>3. CASE Root # 0 /\ Root \notin paused
    <3>1. x.status = fileStatus(rows[Root][e])
      BY <1>1, <1>2, <1>5, <2>3 DEF StatusOf
    <3>2. Root \in Dirs
      BY <1>1, <1>3, <2>3 DEF Covering, Mirrored
    <3>3. rows[Root][e] \in {"absent", "SYNCED", "CONFLICT", "TRASHED"}
      BY <3>2 DEF ExplorerInv, ExplorerTypeOK
    <3>4. x.status \in {"mirroring", "conflict", "tank", "pending"}
      BY <3>1, <3>3 DEF fileStatus
    <3> QED BY <1>1, <1>2, <1>3, <1>5, <2>3, <3>1, <3>4 DEF Right
  <2> QED BY <2>1, <2>2, <2>3
<1>6. \/ e \in Ghosts(rows) /\ x.status = "ghost"
      \/ e \in ask.names /\ x.status = StatusOf(e, rows)
  BY DEF Shown
<1> QED BY <1>4, <1>5, <1>6

LEMMA RightDir ==
    ASSUME ExplorerInv, Answer, NEW e \in EntriesOf(ask.dir) \ changed, e \in Dirs,
           NEW x \in Shown(rows), x.entry = e
    PROVE  Right(x)
<1>1. /\ e \in Entries /\ Parent[e] = ask.dir /\ (e \in ask.names <=> e \in disk)
      /\ ask.roots = folders /\ ask.paused = paused /\ folders \in Seq(Dirs)
  BY ReadIsNow
<1>2. e \in ask.names /\ x.status = dirStatus(e, folders, paused)
  BY <1>1 DEF Shown, Ghosts, Files, StatusOf
<1> DEFINE related == {r \in Dirs : Within(e, r) \/ Within(r, e)}
           root == FirstOf(folders, related)
<1>3. \/ root = 0 /\ Mirrored \cap related = {}
      \/ root # 0 /\ root \in Mirrored \cap related
  <2>1. related \in SUBSET Dirs
    OBVIOUS
  <2> HIDE DEF related
  <2> QED BY <1>1, <2>1, FirstMirror
<1>4. x.status = IF root = 0 THEN "none"
                 ELSE IF ~Within(e, root) THEN "contains"
                 ELSE IF root \in paused THEN "paused" ELSE "mirroring"
  BY <1>2 DEF dirStatus
<1>5. Mirrored \subseteq Dirs
  BY <1>1 DEF Mirrored
<1>6. CASE root = 0
  <2>1. \A r \in Mirrored : ~Within(e, r) /\ ~Within(r, e)
    BY <1>3, <1>5, <1>6
  <2> QED BY <1>4, <1>6, <2>1 DEF Right, Covering
<1>7. CASE root # 0 /\ ~Within(e, root)
  <2>1. root \in Mirrored /\ Within(root, e) /\ x.status = "contains"
    BY <1>3, <1>4, <1>7
  <2> QED BY <1>7, <2>1 DEF Right
<1>8. CASE root # 0 /\ Within(e, root)
  <2>1. root \in Covering(e) /\ x.status = IF root \in paused THEN "paused" ELSE "mirroring"
    BY <1>3, <1>4, <1>8 DEF Covering
  <2> HIDE DEF root
  <2> QED BY <1>1, <1>2, <2>1 DEF Right
<1> QED BY <1>6, <1>7, <1>8

\* One directory, one answer: what was not touched is shown once.
LEMMA AnswerStep ==
    ASSUME ExplorerInv, Answer, NEW e \in EntriesOf(ask.dir) \ changed
    PROVE  LET shown == {x \in panel' : x.entry = e}
           IN  /\ \A x \in shown : Right(x)
               /\ Cardinality(shown) <= 1
               /\ e \in disk => shown # {}
               /\ (/\ e \in Files \ disk /\ Covering(e) # {}
                   /\ \A r \in Covering(e) : rows[r][e] = "TRASHED") => shown # {}
<1> DEFINE shown == {x \in panel' : x.entry = e}
<1>1. /\ e \in Entries /\ Parent[e] = ask.dir /\ (e \in ask.names <=> e \in disk)
      /\ ask.roots = folders /\ ask.paused = paused /\ folders \in Seq(Dirs)
  BY ReadIsNow
<1>2. panel' = Shown(rows)
  BY DEF Answer
<1>3. \A x \in shown : Right(x)
  BY <1>1, <1>2, RightFile, RightDir DEF Files
<1>4. \E y : shown \subseteq {y}
  <2>1. CASE e \in ask.names
    <3>1. shown \subseteq {[entry |-> e, status |-> StatusOf(e, rows)]}
      BY <1>2, <2>1 DEF Shown, Ghosts
    <3> QED BY <3>1
  <2>2. CASE e \notin ask.names
    <3>1. shown \subseteq {[entry |-> e, status |-> "ghost"]}
      BY <1>2, <2>2 DEF Shown
    <3> QED BY <3>1
  <2> QED BY <2>1, <2>2
<1>5. Cardinality(shown) <= 1
  <2>1. PICK y : shown = {} \/ shown = {y}
    BY <1>4
  <2> HIDE DEF shown
  <2>2. Cardinality({}) = 0 /\ Cardinality({y}) = 1
    BY FS_EmptySet, FS_Singleton
  <2>3. Cardinality(shown) = 0 \/ Cardinality(shown) = 1
    BY <2>1, <2>2, Zenon
  <2> QED BY <2>3
<1>6. e \in disk => shown # {}
  <2> SUFFICES ASSUME e \in disk PROVE \E x \in Shown(rows) : x.entry = e
    BY <1>2
  <2> DEFINE x == [entry |-> e, status |-> StatusOf(e, rows)]
  <2>1. x \in Shown(rows)
    BY <1>1 DEF Shown
  <2>2. x.entry = e
    OBVIOUS
  <2> HIDE DEF x
  <2> QED BY <2>1, <2>2
<1>7. ASSUME e \in Files \ disk, Covering(e) # {}, \A r \in Covering(e) : rows[r][e] = "TRASHED"
      PROVE  shown # {}
  <2> DEFINE covers == {r \in Dirs : Within(ask.dir, r)}
  <2>1. Covering(e) = Mirrored \cap covers
    <3>1. Mirrored \subseteq Dirs /\ e \notin Dirs
      BY <1>1, <1>7 DEF Mirrored, Files
    <3> QED BY <1>1, <3>1 DEF Covering
  <2>2. Root = FirstOf(folders, covers) /\ covers \in SUBSET Dirs
    BY <1>1 DEF Root, OwningRoot
  <2> HIDE DEF covers
  <2>3. Root # 0 /\ Root \in Covering(e)
    BY <1>1, <1>7, <2>1, <2>2, FirstMirror
  <2>4. e \in Ghosts(rows)
    BY <1>1, <1>7, <2>3 DEF Ghosts
  <2>5. [entry |-> e, status |-> "ghost"] \in Shown(rows)
    BY <2>4 DEF Shown
  <2> QED BY <1>2, <2>5
<1> QED BY <1>3, <1>5, <1>6, <1>7

\* What the Explorer shows of a directory is right for all that did not change
\* while the daemon put it together (handleBrowse), whatever the tree.
THEOREM BrowseIsRight == Spec => AnswerIsRight
<1>1. ExplorerInv /\ Answer => \A e \in EntriesOf(ask.dir) \ changed :
         LET shown == {x \in panel' : x.entry = e}
         IN  /\ \A x \in shown : Right(x)
             /\ Cardinality(shown) <= 1
             /\ e \in disk => shown # {}
             /\ (/\ e \in Files \ disk /\ Covering(e) # {}
                 /\ \A r \in Covering(e) : rows[r][e] = "TRASHED") => shown # {}
  BY AnswerStep
<1> QED BY <1>1, InitExplorer, NextInv, PTL DEF Spec, AnswerIsRight
-----------------------------------------------------------------------------
(* The preflight.                                                           *)

\* Induction up to n, for a set of numbers.
LEMMA Upward ==
    ASSUME NEW n \in Nat, NEW T, 0 \in T, \A i \in 1..n : i - 1 \in T => i \in T
    PROVE  0..n \subseteq T
<1> DEFINE bad == (0..n) \ T
<1> SUFFICES ASSUME bad # {} PROVE FALSE
  OBVIOUS
<1>1. PICK m \in bad : \A k \in bad : m <= k
  <2>1. bad \in SUBSET Nat
    OBVIOUS
  <2> HIDE DEF bad
  <2> QED BY <2>1, Least
<1>2. m \in 1..n /\ m - 1 \notin bad /\ m - 1 \in 0..n
  BY <1>1
<1> QED BY <1>1, <1>2

\* An entry and its ancestors: the recursive function exists.
LEMMA UpFromRule ==
    /\ UpFrom[0] = {}
    /\ \A e \in Entries : UpFrom[e] = {e} \cup UpFrom[Parent[e]]
<1> DEFINE Rule(f, m) == \A e \in 0..m : f[e] = IF e = 0 THEN {} ELSE {e} \cup f[Parent[e]]
           T == {m \in Nat : \E f \in [0..m -> SUBSET Entries] : Rule(f, m)}
<1>1. 0 \in T
  <2> DEFINE f == [e \in 0..0 |-> {}]
  <2>1. f \in [0..0 -> SUBSET Entries] /\ Rule(f, 0)
    OBVIOUS
  <2> HIDE DEF f
  <2> QED BY <2>1
<1>2. ASSUME NEW m \in 1..NumEntries, m - 1 \in T PROVE m \in T
  <2>1. PICK f \in [0..m - 1 -> SUBSET Entries] : Rule(f, m - 1)
    BY <1>2
  <2> DEFINE g == [e \in 0..m |-> IF e = m THEN {m} \cup f[Parent[m]] ELSE f[e]]
  <2>2. m \in Entries /\ \A e \in 1..m : Parent[e] \in 0..m - 1 /\ Parent[e] < e
    BY DEF Entries
  <2>3. g \in [0..m -> SUBSET Entries]
    BY <2>2
  <2>4. ASSUME NEW e \in 0..m PROVE g[e] = IF e = 0 THEN {} ELSE {e} \cup g[Parent[e]]
    <3>1. CASE e = m
      BY <2>2, <3>1
    <3>2. CASE e # m /\ e # 0
      <4>1. e \in 0..m - 1 /\ Parent[e] \in 0..m - 1 /\ Parent[e] # m
        BY <2>2, <3>2
      <4>2. f[e] = {e} \cup f[Parent[e]]
        BY <2>1, <3>2, <4>1
      <4> QED BY <3>2, <4>1, <4>2
    <3>3. CASE e = 0
      <4>1. 0 \in 0..m - 1 /\ e # m
        BY <3>3
      <4> QED BY <2>1, <3>3, <4>1
    <3> QED BY <3>1, <3>2, <3>3
  <2>5. m \in Nat
    OBVIOUS
  <2> HIDE DEF g
  <2>6. Rule(g, m)
    BY <2>4
  <2> HIDE DEF Rule
  <2> QED BY <2>3, <2>5, <2>6
<1>3. NumEntries \in T
  <2> HIDE DEF T
  <2>1. 0..NumEntries \subseteq T
    BY <1>1, <1>2, Upward
  <2> QED BY <2>1
<1>4. PICK f \in [0..NumEntries -> SUBSET Entries] : Rule(f, NumEntries)
  BY <1>3
<1> DEFINE E(w) == w = [e \in 0..NumEntries |-> IF e = 0 THEN {} ELSE {e} \cup w[Parent[e]]]
<1>5. E(f)
  BY <1>4
<1>6. UpFrom = CHOOSE w : E(w)
  BY DEF UpFrom
<1>7. E(UpFrom)
  <2> HIDE DEF E
  <2> QED BY <1>5, <1>6
<1>8. 0 \in 0..NumEntries /\ \A e \in Entries : e \in 0..NumEntries /\ e # 0
  BY DEF Entries
<1> QED BY <1>7, <1>8

\* A sequence of steps, each a function of what the one before left.
Steps(f, n, a, g) == f[0] = a /\ \A i \in 1..n : f[i] = g[i][f[i - 1]]

LEMMA StepsExist ==
    ASSUME NEW n \in Nat, NEW S, NEW a \in S, NEW g \in [1..n -> [S -> S]]
    PROVE  \E f \in [0..n -> S] : Steps(f, n, a, g)
<1> USE DEF Steps
<1> DEFINE T == {m \in Nat : \E f \in [0..m -> S] : Steps(f, m, a, g)}
<1>1. 0 \in T
  <2> DEFINE f == [i \in 0..0 |-> a]
  <2>1. f \in [0..0 -> S] /\ Steps(f, 0, a, g)
    OBVIOUS
  <2> HIDE DEF f
  <2> QED BY <2>1
<1>2. ASSUME NEW m \in 1..n, m - 1 \in T PROVE m \in T
  <2>1. PICK f \in [0..m - 1 -> S] : Steps(f, m - 1, a, g)
    BY <1>2
  <2> DEFINE h == [i \in 0..m |-> IF i = m THEN g[m][f[m - 1]] ELSE f[i]]
  <2>2. m - 1 \in 0..m - 1 /\ f[m - 1] \in S /\ g[m] \in [S -> S]
    BY <2>1
  <2>3. h \in [0..m -> S]
    BY <2>2
  <2>4. h[0] = a
    BY <2>1
  <2>5. ASSUME NEW i \in 1..m PROVE h[i] = g[i][h[i - 1]]
    <3>1. h[i - 1] = f[i - 1]
      BY <2>5
    <3>2. CASE i = m
      BY <3>1, <3>2
    <3>3. CASE i # m
      <4>1. i \in 1..m - 1 /\ h[i] = f[i]
        BY <2>5, <3>3
      <4> QED BY <2>1, <3>1, <4>1
    <3> QED BY <3>2, <3>3
  <2> HIDE DEF h
  <2> QED BY <2>3, <2>4, <2>5
<1>3. n \in T
  <2> HIDE DEF T
  <2>1. 0..n \subseteq T
    BY <1>1, <1>2, Upward
  <2> QED BY <2>1
<1> QED BY <1>3

\* The states of a scan, and what its steps do to them.
ScanState == [found : SUBSET Entries, count : Nat, dropped : BOOLEAN, scanned : Nat,
              skipped : SUBSET Entries, truncated : BOOLEAN]
Limited(s) == s.truncated \/ s.dropped

LEMMA FlagIs ==
    ASSUME NEW s \in ScanState, NEW e \in Entries
    PROVE  /\ Flag(s, e) \in ScanState
           /\ Flag(s, e).skipped = s.skipped /\ Flag(s, e).truncated = s.truncated
           /\ s.found \subseteq Flag(s, e).found /\ (s.dropped => Flag(s, e).dropped)
           /\ e \in Flag(s, e).found \/ Flag(s, e).dropped
<1>1. CASE s.count < MaxFindings
  <2>1. Flag(s, e) = [s EXCEPT !.found = @ \cup {e}, !.count = @ + 1]
    BY <1>1 DEF Flag
  <2>2. s.found \cup {e} \in SUBSET Entries /\ s.count + 1 \in Nat
    BY DEF ScanState
  <2>3. /\ Flag(s, e).found = s.found \cup {e} /\ Flag(s, e).skipped = s.skipped
        /\ Flag(s, e).truncated = s.truncated /\ Flag(s, e).dropped = s.dropped
    BY <2>1 DEF ScanState
  <2>4. Flag(s, e) \in ScanState
    BY <2>1, <2>2 DEF ScanState
  <2> QED BY <2>3, <2>4
<1>2. CASE ~(s.count < MaxFindings)
  <2>1. Flag(s, e) = [s EXCEPT !.dropped = TRUE]
    BY <1>2 DEF Flag
  <2> QED BY <2>1 DEF ScanState
<1> QED BY <1>1, <1>2

LEMMA VisitIs ==
    ASSUME NEW root \in Entries, NEW s \in ScanState, NEW e \in Entries
    PROVE  LET t == Visit(root, s, e)
           IN  /\ t \in ScanState /\ s.found \subseteq t.found /\ (Limited(s) => Limited(t))
               /\ t.skipped \subseteq s.skipped \cup {e}
               /\ Limited(t) \/ t.skipped \ s.skipped \subseteq t.found
               /\ (e \in Sensitive /\ e # root /\ e \in Reached(root, s.skipped)) => Limited(t) \/ e \in t.found
<1> DEFINE seen == [s EXCEPT !.scanned = IF e \in Dirs THEN @ ELSE @ + 1]
           flagged == Flag(seen, e)
           left == [flagged EXCEPT !.skipped = IF e \in Dirs THEN @ \cup {e} ELSE @]
           t == Visit(root, s, e)
<1>1. /\ seen \in ScanState /\ seen.found = s.found /\ seen.skipped = s.skipped
      /\ seen.truncated = s.truncated /\ seen.dropped = s.dropped
  BY DEF ScanState
<1>2. t = IF s.truncated \/ e \notin Reached(root, s.skipped) THEN s
          ELSE IF s.scanned >= MaxFiles THEN [s EXCEPT !.truncated = TRUE]
          ELSE IF e = root THEN s ELSE IF e \notin Sensitive THEN seen ELSE left
  BY DEF Visit
<1> HIDE DEF seen, t
<1>3. /\ flagged \in ScanState /\ flagged.skipped = s.skipped /\ flagged.truncated = s.truncated
      /\ s.found \subseteq flagged.found /\ (s.dropped => flagged.dropped)
      /\ e \in flagged.found \/ flagged.dropped
  BY <1>1, FlagIs
<1> HIDE DEF flagged
<1>4. /\ left \in ScanState /\ left.found = flagged.found /\ left.truncated = flagged.truncated
      /\ left.dropped = flagged.dropped /\ left.skipped \subseteq s.skipped \cup {e}
  BY <1>3 DEF ScanState
<1> HIDE DEF left
<1>5. CASE t = s /\ (s.truncated \/ e \notin Reached(root, s.skipped) \/ e = root)
  BY <1>5 DEF Limited, t
<1>6. CASE t = [s EXCEPT !.truncated = TRUE]
  <2>1. t \in ScanState /\ t.truncated /\ t.found = s.found /\ t.skipped = s.skipped
    BY <1>6 DEF ScanState
  <2> QED BY <2>1 DEF Limited, t
<1>7. CASE t = seen /\ e \notin Sensitive
  BY <1>1, <1>7 DEF Limited, t
<1>8. CASE t = left
  BY <1>3, <1>4, <1>8 DEF Limited, t
<1> QED BY <1>2, <1>5, <1>6, <1>7, <1>8

\* Before the walk nothing has been skipped, and the root has been looked at.
LEMMA BeforeIs ==
    ASSUME NEW root \in Entries
    PROVE  LET b == BeforeWalk(root, Own)
           IN  /\ b \in ScanState /\ b.skipped = {}
               /\ root \in Sensitive => Limited(b) \/ root \in b.found
<1> DEFINE Clean == {s \in ScanState : s.skipped = {}}
           n == Len(Own)
           Step(i, s) == IF Within(Own[i], root) THEN Flag(s, Own[i]) ELSE s
           g == [i \in 1..n |-> [s \in Clean |-> Step(i, s)]]
           E(w) == w = [i \in 0..n |-> IF i = 0 THEN NothingFound
                                       ELSE IF Within(Own[i], root) THEN Flag(w[i - 1], Own[i]) ELSE w[i - 1]]
<1>1. n \in Nat /\ NothingFound \in Clean
  BY DEF NothingFound, ScanState
<1>2. \A i \in 1..n, s \in Clean : Step(i, s) \in Clean
  BY FlagIs
<1> HIDE DEF Clean, Step
<1>3. g \in [1..n -> [Clean -> Clean]]
  BY <1>2
<1>4. PICK f \in [0..n -> Clean] : f[0] = NothingFound /\ \A i \in 1..n : f[i] = g[i][f[i - 1]]
  <2> HIDE DEF g, n
  <2>1. \E f \in [0..n -> Clean] : Steps(f, n, NothingFound, g)
    BY <1>1, <1>3, StepsExist
  <2> QED BY <2>1 DEF Steps
<1>5. \A i \in 1..n : f[i] = IF Within(Own[i], root) THEN Flag(f[i - 1], Own[i]) ELSE f[i - 1]
  <2> SUFFICES ASSUME NEW i \in 1..n
               PROVE  f[i] = IF Within(Own[i], root) THEN Flag(f[i - 1], Own[i]) ELSE f[i - 1]
    OBVIOUS
  <2>1. f[i - 1] \in Clean
    BY <1>1, <1>4
  <2>2. f[i] = Step(i, f[i - 1])
    BY <1>4, <2>1
  <2> QED BY <2>2 DEF Step
<1>6. E(f)
  BY <1>4, <1>5
<1>7. Known(root, Own) = CHOOSE w : E(w)
  BY DEF Known
<1>8. E(Known(root, Own))
  <2> HIDE DEF E
  <2> QED BY <1>6, <1>7
<1> DEFINE w == Known(root, Own)
           T == {i \in 0..n : w[i] \in Clean}
<1> HIDE DEF w
<1>9. /\ w[0] = NothingFound
      /\ \A i \in 1..n : w[i] = IF Within(Own[i], root) THEN Flag(w[i - 1], Own[i]) ELSE w[i - 1]
  <2>1. E(w)
    BY <1>8 DEF w
  <2>2. 0 \in 0..n /\ \A i \in 1..n : i \in 0..n /\ i # 0
    BY <1>1
  <2> HIDE DEF n
  <2> QED BY <2>1, <2>2
<1>10. 0 \in T
  BY <1>1, <1>9
<1>11. ASSUME NEW i \in 1..n, i - 1 \in T PROVE i \in T
  <2>1. w[i] = Step(i, w[i - 1]) /\ w[i - 1] \in Clean
    BY <1>9, <1>11 DEF Step
  <2> QED BY <1>1, <1>2, <2>1
<1>12. w[n] \in Clean
  <2> HIDE DEF T, n
  <2>1. 0..n \subseteq T
    BY <1>1, <1>10, <1>11, Upward
  <2> QED BY <1>1, <2>1 DEF T
<1> QED BY <1>12, FlagIs DEF BeforeWalk, Clean, Limited, w

LEMMA WalkRule ==
    ASSUME NEW root \in Entries
    PROVE  /\ Walk(root, Own)[0] = BeforeWalk(root, Own)
           /\ \A e \in Entries : Walk(root, Own)[e] = Visit(root, Walk(root, Own)[e - 1], e)
<1> DEFINE n == NumEntries
           b == BeforeWalk(root, Own)
           g == [e \in 1..n |-> [s \in ScanState |-> Visit(root, s, e)]]
           E(w) == w = [e \in 0..n |-> IF e = 0 THEN b ELSE Visit(root, w[e - 1], e)]
<1>1. n \in Nat /\ b \in ScanState /\ Entries = 1..n
  BY BeforeIs DEF Entries
<1> HIDE DEF b, n
<1>2. \A e \in 1..n, s \in ScanState : Visit(root, s, e) \in ScanState
  BY <1>1, VisitIs
<1>3. g \in [1..n -> [ScanState -> ScanState]]
  <2> HIDE DEF ScanState
  <2> QED BY <1>2
<1>4. PICK f \in [0..n -> ScanState] : f[0] = b /\ \A e \in 1..n : f[e] = g[e][f[e - 1]]
  <2> HIDE DEF g
  <2>1. \E f \in [0..n -> ScanState] : Steps(f, n, b, g)
    BY <1>1, <1>3, StepsExist
  <2> QED BY <2>1 DEF Steps
<1>5. \A e \in 1..n : f[e] = Visit(root, f[e - 1], e)
  <2> SUFFICES ASSUME NEW e \in 1..n PROVE f[e] = Visit(root, f[e - 1], e)
    OBVIOUS
  <2>1. f[e - 1] \in ScanState
    BY <1>1, <1>4
  <2> QED BY <1>4, <2>1
<1>6. E(f)
  BY <1>4, <1>5
<1>7. Walk(root, Own) = CHOOSE w : E(w)
  BY DEF Walk, b, n
<1>8. E(Walk(root, Own))
  <2> HIDE DEF E
  <2> QED BY <1>6, <1>7
<1>9. 0 \in 0..n /\ \A e \in 1..n : e \in 0..n /\ e # 0
  BY <1>1
<1> QED BY <1>1, <1>8, <1>9 DEF b

\* What is there below a directory that was skipped is told of by its name.
LEMMA ToldWhenSkipped ==
    ASSUME NEW root \in Entries, NEW S \in SUBSET Entries, NEW e \in Reached(root, {}),
           e \in Entries, e \notin Reached(root, S)
    PROVE  UpFrom[e] \cap S # {}
<1>1. PICK a \in UpFrom[Parent[e]] : e # root /\ Within(a, root) /\ a \in S \cup locked /\ a \notin {} \cup locked
  BY DEF Reached
<1>2. a \in UpFrom[e]
  BY <1>1, UpFromRule
<1> QED BY <1>1, <1>2

\* Unless the scan ran into a limit, it tells of all that it could get at.
LEMMA ScanTells ==
    ASSUME disk \subseteq Entries, NEW root \in Entries
    PROVE  LET r == Scan(root, Own)
           IN  Limited(r) \/ \A e \in Sensitive \cap Reached(root, {}) : UpFrom[e] \cap r.found # {}
<1> DEFINE w == Walk(root, Own)
           Told(s, k) == \/ Limited(s)
                         \/ /\ s.skipped \subseteq s.found /\ (root \in Sensitive => root \in s.found)
                            /\ \A e \in Sensitive \cap Reached(root, {}) : e <= k => UpFrom[e] \cap s.found # {}
           T == {k \in 0..NumEntries : w[k] \in ScanState /\ Told(w[k], k)}
<1>1. /\ w[0] \in ScanState /\ w[0].skipped = {}
      /\ root \in Sensitive => Limited(w[0]) \/ root \in w[0].found
  BY WalkRule, BeforeIs
<1>2. \A e \in Entries : w[e] = Visit(root, w[e - 1], e)
  BY WalkRule
<1> HIDE DEF w
<1>3. 0 \in T
  <2>1. \A e \in Sensitive \cap Reached(root, {}) : ~(e <= 0)
    BY DEF Entries
  <2> QED BY <1>1, <2>1
<1>4. ASSUME NEW k \in 1..NumEntries, k - 1 \in T PROVE k \in T
  <2> DEFINE s == w[k - 1]
             t == w[k]
  <2>1. s \in ScanState /\ Told(s, k - 1) /\ k \in Entries /\ t = Visit(root, s, k)
    BY <1>2, <1>4 DEF Entries
  <2> HIDE DEF s, t
  <2>2. /\ t \in ScanState /\ s.found \subseteq t.found /\ (Limited(s) => Limited(t))
        /\ t.skipped \subseteq s.skipped \cup {k}
        /\ Limited(t) \/ t.skipped \ s.skipped \subseteq t.found
        /\ (k \in Sensitive /\ k # root /\ k \in Reached(root, s.skipped)) => Limited(t) \/ k \in t.found
    BY <2>1, VisitIs
  <2> HIDE DEF ScanState
  <2>3. ASSUME ~Limited(t) PROVE Told(t, k)
    <3>1. /\ ~Limited(s) /\ s.skipped \subseteq s.found /\ (root \in Sensitive => root \in s.found)
          /\ \A e \in Sensitive \cap Reached(root, {}) : e <= k - 1 => UpFrom[e] \cap s.found # {}
      BY <2>1, <2>2, <2>3
    <3>2. t.skipped \subseteq t.found /\ (root \in Sensitive => root \in t.found)
      BY <2>2, <2>3, <3>1
    <3>3. ASSUME k \in Sensitive \cap Reached(root, {}) PROVE UpFrom[k] \cap t.found # {}
      <4>1. k \in UpFrom[k]
        BY <2>1, UpFromRule
      <4>2. CASE k = root \/ k \in Reached(root, s.skipped)
        <5>1. k \in t.found
          BY <2>2, <2>3, <3>2, <3>3, <4>2
        <5> QED BY <4>1, <5>1
      <4>3. CASE k \notin Reached(root, s.skipped)
        <5>1. s.skipped \in SUBSET Entries
          BY <2>1 DEF ScanState
        <5>2. UpFrom[k] \cap s.skipped # {}
          BY <2>1, <3>3, <4>3, <5>1, ToldWhenSkipped
        <5> QED BY <2>2, <3>1, <5>2
      <4> QED BY <4>2, <4>3
    <3>4. ASSUME NEW e \in Sensitive \cap Reached(root, {}), e <= k PROVE UpFrom[e] \cap t.found # {}
      <4>1. CASE e = k
        BY <3>3, <3>4, <4>1
      <4>2. CASE e # k
        <5>1. e <= k - 1
          BY <3>4, <4>2 DEF Entries
        <5>2. UpFrom[e] \cap s.found # {}
          BY <3>1, <5>1
        <5> QED BY <2>2, <5>2
      <4> QED BY <4>1, <4>2
    <3> QED BY <3>2, <3>4
  <2>4. t \in ScanState /\ Told(t, k)
    BY <2>2, <2>3
  <2> QED BY <2>4 DEF t
<1>5. NumEntries \in T
  <2> HIDE DEF T
  <2>1. 0..NumEntries \subseteq T
    BY <1>3, <1>4, Upward
  <2> QED BY <2>1
<1>6. Told(w[NumEntries], NumEntries) /\ Scan(root, Own) = w[NumEntries]
  BY <1>5 DEF Scan, w
<1>7. \A e \in Sensitive : e <= NumEntries
  BY DEF Entries
<1> QED BY <1>6, <1>7

\* WarnedOfAll speaks of what the check saw: it lasts until the next one.
LEMMA WarnedStays == ASSUME ExplorerInv, WarnedOfAll, [Next]_vars PROVE WarnedOfAll'
<1>1. CASE RequestMirror
  <2>1. PICK x \in panel :
          LET root == MirrorRoot(x.entry)
              result == PreflightMirror(root)
          IN  guard' = [at |-> IF result.found = {} THEN "clean" ELSE "asked",
                        check |-> [root |-> root, found |-> result.found,
                                   there |-> Sensitive \cap Reached(root, {}),
                                   limited |-> result.truncated \/ result.dropped]]
    BY <1>1 DEF RequestMirror
  <2> DEFINE root == MirrorRoot(x.entry)
             result == Scan(root, Own)
  <2>2. root \in Entries
    BY DEF MirrorRoot, Entries, ExplorerInv, ExplorerTypeOK
  <2>3. disk \subseteq Entries
    BY DEF ExplorerInv, ExplorerTypeOK
  <2> HIDE DEF root
  <2>4. Limited(result) \/ \A e \in Sensitive \cap Reached(root, {}) : UpFrom[e] \cap result.found # {}
    BY <2>2, <2>3, ScanTells
  <2>5. /\ guard'.check.found = result.found /\ guard'.check.there = Sensitive \cap Reached(root, {})
        /\ guard'.check.limited = Limited(result)
    BY <2>1 DEF PreflightMirror, Limited, root
  <2> HIDE DEF result
  <2> QED BY <2>4, <2>5 DEF WarnedOfAll
<1>2. CASE UNCHANGED guard
  BY <1>2 DEF WarnedOfAll
<1>3. CASE guard' = NoGuard
  BY <1>3 DEF NoGuard, NoCheck, WarnedOfAll
<1>4. RequestMirror \/ UNCHANGED guard \/ guard' = NoGuard
  BY DEF Next, ReadDir, ReadFolders, Answer, Cancel, AddFolder, PauseFolder, RemoveFolder, PassRow,
         LeaveTank, User, panelVars, vars
<1> QED BY <1>1, <1>2, <1>3, <1>4

\* Whatever the tree, whatever is locked in it and wherever sensitive entries
\* are nested in each other, the user is told of each before a folder with it is
\* mirrored, unless the scan says it ran into a limit (Scan, useMirrorGuard).
THEOREM WarningsAreComplete == Spec => []WarnedOfAll
<1>1. Init => WarnedOfAll
  BY DEF Init, NoGuard, NoCheck, WarnedOfAll
<1>2. ExplorerInv /\ WarnedOfAll /\ [Next]_vars => WarnedOfAll'
  BY WarnedStays
<1> QED BY <1>1, <1>2, InitExplorer, NextInv, PTL DEF Spec
=============================================================================
