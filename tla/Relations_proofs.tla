-------------------------- MODULE Relations_proofs --------------------------
(***************************************************************************)
(* Proofs about module Relations, for any roots, names, paths and bounds.  *)
(*                                                                         *)
(* The invariant behind the types (RelInv) says that a file about to be    *)
(* dated is still there, which is what makes the row that Record writes a  *)
(* complete one.  The invariant behind one object per path, rows at home   *)
(* and mirrors apart (PlaceInv) says where folders, objects, rows, tasks   *)
(* and requests are: every object is in the container of a relation, and a *)
(* task knows an object of its own container or there is none for its path.*)
(* What "in the container" means is recursive; the first section turns the *)
(* recursive functions of module Folders into rules, by the least folder   *)
(* at which such a rule would fail.                                        *)
(***************************************************************************)
EXTENDS Relations, WellFoundedInduction, TLAPS

-----------------------------------------------------------------------------
(* The tree of folders: what the recursive definitions of module Folders     *)
(* say of every tree, by the least folder that would not be as claimed.     *)

\* A set of numbers has a least one.  (Theorem SmallestNatural of the library
\* says the same of a predicate.)
LEMMA LeastOf ==
    ASSUME NEW S \in SUBSET Nat, S # {} PROVE \E m \in S : \A k \in S : m <= k
<1> DEFINE less == {ss \in Nat \X Nat : ss[1] < ss[2]}
<1>1. IsWellFoundedOn(less, Nat)
  BY NatLessThanWellFounded DEF OpToRel
<1> HIDE DEF less
<1>2. PICK m \in S : \A k \in S : ~(<<k, m>> \in less)
  BY <1>1, WFMin
<1>3. ASSUME NEW k \in S, k < m PROVE FALSE
  <2>1. <<k, m>> \in Nat \X Nat /\ <<k, m>>[1] = k /\ <<k, m>>[2] = m
    OBVIOUS
  <2>2. <<k, m>> \in less
    BY <1>3, <2>1 DEF less
  <2> QED BY <1>2, <2>2
<1> QED BY <1>3

\* What is reached from r over some of the numbers: the least closed set.
LEMMA ClosureExists ==
    ASSUME NEW n \in Nat, NEW par \in [1..n -> Nat], NEW r \in 1..n, NEW A \in SUBSET (1..n)
    PROVE  \E D \in SUBSET (1..n) : \A f \in 1..n : f \in D <=> f = r \/ (f \in A /\ par[f] \in D)
<1> DEFINE Closed(S) == r \in S /\ \A f \in A : par[f] \in S => f \in S
           D == {f \in 1..n : \A S \in SUBSET (1..n) : Closed(S) => f \in S}
<1>1. Closed(D)
  OBVIOUS
<1>2. ASSUME NEW f \in D, f # r, f \notin A \/ par[f] \notin D PROVE FALSE
  <2>1. Closed(D \ {f})
    BY <1>1, <1>2
  <2> QED BY <2>1
<1>3. D \in SUBSET (1..n) /\ \A f \in 1..n : f \in D <=> f = r \/ (f \in A /\ par[f] \in D)
  BY <1>1, <1>2
<1> HIDE DEF D
<1> QED BY <1>3

\* Folders are made below folders that are there already.
Tree(ds) == \A f \in DOMAIN ds : ds[f].parent \in 0..(f - 1)

\* The recursive function of Descendants exists, so that its equation holds.
LEMMA DescendantsRule ==
    ASSUME NEW Fd, NEW ds \in Seq(Fd), Tree(ds), NEW r \in DOMAIN ds
    PROVE  /\ Descendants(ds, r) \subseteq DOMAIN ds
           /\ \A f \in DOMAIN ds : f \in Descendants(ds, r) <=> f = r \/ ds[f].parent \in Descendants(ds, r)
<1>1. PICK n \in Nat : n = Len(ds) /\ DOMAIN ds = 1..n
  OBVIOUS
<1> DEFINE par == [f \in 1..n |-> ds[f].parent]
           E(w) == w = [f \in 0..n |-> f = r \/ (f # 0 /\ w[ds[f].parent])]
           W == CHOOSE w : E(w)
<1>2. par \in [1..n -> Nat] /\ \A f \in 1..n : par[f] = ds[f].parent /\ par[f] \in 0..n
  BY <1>1 DEF Tree
<1>3. PICK D \in SUBSET (1..n) : \A f \in 1..n : f \in D <=> f = r \/ par[f] \in D
  <2> HIDE DEF par
  <2>1. \E D \in SUBSET (1..n) : \A f \in 1..n : f \in D <=> f = r \/ (f \in 1..n /\ par[f] \in D)
    <3> DEFINE A == 1..n
    <3>1. r \in 1..n /\ A \in SUBSET (1..n) /\ n \in Nat /\ par \in [1..n -> Nat]
      BY <1>1, <1>2
    <3> HIDE DEF A
    <3>2. \E D \in SUBSET (1..n) : \A f \in 1..n : f \in D <=> f = r \/ (f \in A /\ par[f] \in D)
      BY <3>1, ClosureExists
    <3> QED BY <3>2 DEF A
  <2> QED BY <2>1
<1> DEFINE w0 == [f \in 0..n |-> f \in D]
<1>4. \A f \in 0..n : w0[f] = (f = r \/ (f # 0 /\ w0[ds[f].parent]))
  <2> SUFFICES ASSUME NEW f \in 0..n PROVE w0[f] = (f = r \/ (f # 0 /\ w0[ds[f].parent]))
    OBVIOUS
  <2>1. CASE f = 0
    BY <1>1, <2>1
  <2>2. CASE f # 0
    <3>1. f \in 1..n /\ ds[f].parent \in 0..n
      BY <1>2, <2>2
    <3>2. w0[f] = (f \in D) /\ w0[ds[f].parent] = (ds[f].parent \in D)
      BY <3>1, Zenon
    <3>3. (f \in D) = (f = r \/ ds[f].parent \in D)
      BY <1>2, <1>3, <3>1
    <3> QED BY <2>2, <3>2, <3>3, Zenon
  <2> QED BY <2>1, <2>2
<1>5. E(w0)
  <2> DEFINE v == [f \in 0..n |-> f = r \/ (f # 0 /\ w0[ds[f].parent])]
  <2>1. \A f \in 0..n : w0[f] = v[f]
    BY <1>4, Zenon
  <2> QED BY <2>1, Zenon
<1> HIDE DEF w0
<1>6. E(W)
  BY <1>5, Zenon
<1>7. Descendants(ds, r) = {f \in {r} \cup DOMAIN ds : W[f]}
  BY <1>1, Zenon DEF Descendants
<1>8. \A f \in 0..n : W[f] = (f = r \/ (f # 0 /\ W[ds[f].parent]))
  BY <1>6, Zenon
<1> HIDE DEF W, E
<1>9. \A f \in 1..n : W[f] <=> (f = r \/ W[ds[f].parent])
  <2>1. \A f \in 1..n : f \in 0..n /\ f # 0
    OBVIOUS
  <2> QED BY <1>8, <2>1, Zenon
<1>10. ~W[0]
  <2>1. 0 \in 0..n /\ 0 # r
    BY <1>1
  <2> QED BY <1>8, <2>1, Zenon
<1>11. Descendants(ds, r) = {f \in 1..n : W[f]}
  BY <1>1, <1>7, Zenon
<1> QED BY <1>1, <1>2, <1>9, <1>10, <1>11

\* The same of Below.
LEMMA BelowRule ==
    ASSUME NEW Fd, NEW ds \in Seq(Fd), Tree(ds), NEW r \in DOMAIN ds
    PROVE  /\ Below(ds, r) \subseteq DOMAIN ds
           /\ \A f \in DOMAIN ds : f \in Below(ds, r)
                   <=> f = r \/ (ds[f].name # TrashFolderName /\ ds[f].parent \in Below(ds, r))
<1>1. PICK n \in Nat : n = Len(ds) /\ DOMAIN ds = 1..n
  OBVIOUS
<1> DEFINE par == [f \in 1..n |-> ds[f].parent]
           E(w) == w = [f \in 0..n |-> f = r \/ (f # 0 /\ ds[f].name # TrashFolderName /\ w[ds[f].parent])]
           W == CHOOSE w : E(w)
<1>2. par \in [1..n -> Nat] /\ \A f \in 1..n : par[f] = ds[f].parent /\ par[f] \in 0..n
  BY <1>1 DEF Tree
<1>3. PICK D \in SUBSET (1..n) : \A f \in 1..n : f \in D <=> f = r \/ (ds[f].name # TrashFolderName /\ par[f] \in D)
  <2> HIDE DEF par
  <2>1. \E D \in SUBSET (1..n) : \A f \in 1..n : f \in D <=> f = r \/ (f \in 1..n /\ ds[f].name # TrashFolderName /\ par[f] \in D)
    <3> DEFINE A == {f \in 1..n : ds[f].name # TrashFolderName}
    <3>1. r \in 1..n /\ A \in SUBSET (1..n) /\ n \in Nat /\ par \in [1..n -> Nat]
      BY <1>1, <1>2
    <3> HIDE DEF A
    <3>2. \E D \in SUBSET (1..n) : \A f \in 1..n : f \in D <=> f = r \/ (f \in A /\ par[f] \in D)
      BY <3>1, ClosureExists
    <3> QED BY <3>2 DEF A
  <2> QED BY <2>1
<1> DEFINE w0 == [f \in 0..n |-> f \in D]
<1>4. \A f \in 0..n : w0[f] = (f = r \/ (f # 0 /\ ds[f].name # TrashFolderName /\ w0[ds[f].parent]))
  <2> SUFFICES ASSUME NEW f \in 0..n PROVE w0[f] = (f = r \/ (f # 0 /\ ds[f].name # TrashFolderName /\ w0[ds[f].parent]))
    OBVIOUS
  <2>1. CASE f = 0
    BY <1>1, <2>1
  <2>2. CASE f # 0
    <3>1. f \in 1..n /\ ds[f].parent \in 0..n
      BY <1>2, <2>2
    <3>2. w0[f] = (f \in D) /\ w0[ds[f].parent] = (ds[f].parent \in D)
      BY <3>1, Zenon
    <3>3. (f \in D) = (f = r \/ (ds[f].name # TrashFolderName /\ ds[f].parent \in D))
      BY <1>2, <1>3, <3>1
    <3> QED BY <2>2, <3>2, <3>3, Zenon
  <2> QED BY <2>1, <2>2
<1>5. E(w0)
  <2> DEFINE v == [f \in 0..n |-> f = r \/ (f # 0 /\ ds[f].name # TrashFolderName /\ w0[ds[f].parent])]
  <2>1. \A f \in 0..n : w0[f] = v[f]
    BY <1>4, Zenon
  <2> QED BY <2>1, Zenon
<1> HIDE DEF w0
<1>6. E(W)
  BY <1>5, Zenon
<1>7. Below(ds, r) = {f \in {r} \cup DOMAIN ds : W[f]}
  BY <1>1, Zenon DEF Below
<1>8. \A f \in 0..n : W[f] = (f = r \/ (f # 0 /\ ds[f].name # TrashFolderName /\ W[ds[f].parent]))
  BY <1>6, Zenon
<1> HIDE DEF W, E
<1>9. \A f \in 1..n : W[f] <=> (f = r \/ (ds[f].name # TrashFolderName /\ W[ds[f].parent]))
  <2>1. \A f \in 1..n : f \in 0..n /\ f # 0
    OBVIOUS
  <2> QED BY <1>8, <2>1, Zenon
<1>10. ~W[0]
  <2>1. 0 \in 0..n /\ 0 # r
    BY <1>1
  <2> QED BY <1>8, <2>1, Zenon
<1>11. Below(ds, r) = {f \in 1..n : W[f]}
  BY <1>1, <1>7, Zenon
<1> QED BY <1>1, <1>2, <1>9, <1>10, <1>11

\* Folders made later change nothing about those that are there.
LEMMA DescendantsKept ==
    ASSUME NEW Fd, NEW ds \in Seq(Fd), Tree(ds), NEW es \in Seq(Fd), Tree(es),
           DOMAIN ds \subseteq DOMAIN es, \A f \in DOMAIN ds : es[f] = ds[f],
           NEW r \in DOMAIN ds
    PROVE  \A f \in DOMAIN ds : f \in Descendants(es, r) <=> f \in Descendants(ds, r)
<1> DEFINE S == {f \in DOMAIN ds : ~(f \in Descendants(es, r) <=> f \in Descendants(ds, r))}
<1>1. SUFFICES ASSUME S # {} PROVE FALSE
  OBVIOUS
<1>2. S \in SUBSET Nat
  OBVIOUS
<1>3. PICK m \in S : \A k \in S : m <= k
  <2> HIDE DEF S
  <2> QED BY <1>1, <1>2, LeastOf
<1>4. /\ Descendants(ds, r) \subseteq DOMAIN ds /\ Descendants(es, r) \subseteq DOMAIN es
      /\ m \in Descendants(ds, r) <=> m = r \/ ds[m].parent \in Descendants(ds, r)
      /\ m \in Descendants(es, r) <=> m = r \/ ds[m].parent \in Descendants(es, r)
  BY DescendantsRule
<1>5. ds[m].parent \in 0..(m - 1) /\ m \in 1..Len(ds) /\ DOMAIN ds = 1..Len(ds) /\ DOMAIN es = 1..Len(es)
  BY DEF Tree
<1>6. CASE ds[m].parent = 0
  BY <1>4, <1>5, <1>6
<1>7. CASE ds[m].parent # 0
  <2>1. ds[m].parent \in DOMAIN ds /\ ds[m].parent < m
    BY <1>5, <1>7
  <2>2. ds[m].parent \notin S
    BY <1>3, <1>5, <2>1
  <2> QED BY <1>4, <2>1, <2>2
<1> QED BY <1>6, <1>7

\* Nothing is in two containers.
LEMMA DescendantsApart ==
    ASSUME NEW Fd, NEW ds \in Seq(Fd), Tree(ds),
           NEW a \in DOMAIN ds, NEW b \in DOMAIN ds, ds[a].parent = 0, ds[b].parent = 0, a # b
    PROVE  Descendants(ds, a) \cap Descendants(ds, b) = {}
<1> DEFINE S == Descendants(ds, a) \cap Descendants(ds, b)
<1>1. SUFFICES ASSUME S # {} PROVE FALSE
  OBVIOUS
<1>2. DOMAIN ds = 1..Len(ds)
  OBVIOUS
<1>3. /\ Descendants(ds, a) \subseteq DOMAIN ds
      /\ \A f \in DOMAIN ds : f \in Descendants(ds, a) <=> f = a \/ ds[f].parent \in Descendants(ds, a)
  BY DescendantsRule
<1>4. /\ Descendants(ds, b) \subseteq DOMAIN ds
      /\ \A f \in DOMAIN ds : f \in Descendants(ds, b) <=> f = b \/ ds[f].parent \in Descendants(ds, b)
  BY DescendantsRule
<1>5. S \in SUBSET Nat
  BY <1>2, <1>3
<1>6. PICK m \in S : \A k \in S : m <= k
  <2> HIDE DEF S
  <2> QED BY <1>1, <1>5, LeastOf
<1>7. m \in DOMAIN ds /\ 0 \notin DOMAIN ds /\ ds[m].parent < m
  BY <1>2, <1>3 DEF Tree
<1>8. m # a /\ m # b
  BY <1>3, <1>4, <1>7
<1>9. ds[m].parent \in S
  BY <1>3, <1>4, <1>7, <1>8
<1> QED BY <1>2, <1>3, <1>6, <1>7, <1>9

\* Where nothing is made in a tank, a listing finds all that is in no tank.
LEMMA BelowIsUntanked ==
    ASSUME NEW Fd, NEW ds \in Seq(Fd), Tree(ds), NEW r \in DOMAIN ds,
           \A f \in DOMAIN ds : ds[f].parent # 0 => ds[ds[f].parent].name # TrashFolderName
    PROVE  /\ Below(ds, r) \subseteq Descendants(ds, r)
           /\ \A f \in Descendants(ds, r) : ds[f].name # TrashFolderName => f \in Below(ds, r)
<1> DEFINE D == Descendants(ds, r)
           B == Below(ds, r)
           S == {f \in D : ds[f].name # TrashFolderName /\ f \notin B}
           T == B \ D
<1>1. DOMAIN ds = 1..Len(ds) /\ \A f \in DOMAIN ds : ds[f].parent < f
  BY DEF Tree
<1>2. D \subseteq DOMAIN ds /\ \A f \in DOMAIN ds : f \in D <=> f = r \/ ds[f].parent \in D
  BY DescendantsRule
<1>3. /\ B \subseteq DOMAIN ds
      /\ \A f \in DOMAIN ds : f \in B <=> f = r \/ (ds[f].name # TrashFolderName /\ ds[f].parent \in B)
  BY BelowRule
<1> HIDE DEF D, B
<1>4. S = {}
  <2>1. SUFFICES ASSUME S # {} PROVE FALSE
    OBVIOUS
  <2>2. S \in SUBSET Nat
    BY <1>1, <1>2
  <2>3. PICK m \in S : \A k \in S : m <= k
    <3> HIDE DEF S
    <3> QED BY <2>1, <2>2, LeastOf
  <2>4. m \in DOMAIN ds /\ m # r /\ ds[m].parent \in D
    BY <1>2, <1>3
  <2>5. ds[m].parent \in DOMAIN ds /\ ds[m].parent # 0 /\ ds[m].parent < m
    BY <1>1, <1>2, <2>4
  <2>6. ds[m].parent \notin B
    BY <1>3, <2>4
  <2>7. ds[m].parent \in S
    BY <2>4, <2>5, <2>6
  <2> QED BY <1>1, <2>3, <2>4, <2>5, <2>7
<1>5. T = {}
  <2>1. SUFFICES ASSUME T # {} PROVE FALSE
    OBVIOUS
  <2>2. T \in SUBSET Nat
    BY <1>1, <1>3
  <2>3. PICK m \in T : \A k \in T : m <= k
    <3> HIDE DEF T
    <3> QED BY <2>1, <2>2, LeastOf
  <2>4. m \in DOMAIN ds /\ m # r /\ ds[m].parent \in B /\ ds[m].parent \notin D
    BY <1>2, <1>3
  <2> QED BY <1>1, <1>3, <2>3, <2>4
<1> QED BY <1>4, <1>5 DEF D, B
-----------------------------------------------------------------------------
USE RelationsAssumption DEF RelationsAssumption

\* A task belongs to the chain being executed, and one that is about to write
\* a row knows the object, its content and the file.
TaskInv ==
    \A p \in Paths : task[p] # Nil =>
        /\ pass.at = "exec" /\ pass.target \in DOMAIN targets
        /\ task[p].step = "record" =>
              task[p].obj \in Nat /\ task[p].md5 \in Contents /\ LocalNow(p) \in Contents

\* A request under way is for some root.
HandlersInv == \A q \in Requests : adding[q].at \in {"ensure", "listed"} => adding[q].root \in Roots

RelInv == RelTypeOK /\ TaskInv /\ HandlersInv /\ NoOrphanRows

Tasks == task \in [Paths -> TaskState \cup {Nil}]
Handlers == adding \in [Requests -> Request] /\ HandlersInv
Rows == rows \subseteq Row
-----------------------------------------------------------------------------
(* Sequences that only grow, and walks.                                     *)

\* An appended element is the last one, and the others stay where they are.
LEMMA Appended ==
    ASSUME NEW S, NEW s \in Seq(S), NEW e \in S
    PROVE  /\ Append(s, e) \in Seq(S) /\ DOMAIN Append(s, e) = DOMAIN s \cup {Len(s) + 1}
           /\ \A i \in DOMAIN s : Append(s, e)[i] = s[i]
           /\ Append(s, e)[Len(s) + 1] = e /\ Len(s) + 1 \in Nat
  OBVIOUS

\* An element is replaced, if it is there at all.
LEMMA Updated ==
    ASSUME NEW S, NEW s \in Seq(S), NEW i, NEW e, i \in DOMAIN s => e \in S
    PROVE  [s EXCEPT ![i] = e] \in Seq(S)
<1> DEFINE t == [s EXCEPT ![i] = e]
<1>1. CASE i \in DOMAIN s
  BY <1>1
<1>2. CASE i \notin DOMAIN s
  <2>1. t = s
    BY <1>2
  <2> QED BY <2>1
<1> QED BY <1>1, <1>2

\* The steps of EnsurePath keep to folders and names.
LEMMA WalkTypes ==
    ASSUME dirs \in Seq(Folder), NEW walk \in WalkState, walk.rest # <<>>
    PROVE  /\ Search(dirs, walk) \subseteq WalkState
           /\ Created(dirs, walk) \in Seq(Folder) /\ AfterCreate(dirs, walk) \in WalkState
<1>1. Head(walk.rest) \in AllNames /\ Tail(walk.rest) \in Seq(AllNames)
  BY DEF WalkState
<1>2. [walk EXCEPT !.absent = TRUE] \in WalkState
  BY DEF WalkState
<1>3. \A f \in DOMAIN dirs : Walk(f, Tail(walk.rest)) \in WalkState
  BY <1>1 DEF WalkState, Walk
<1>4. Search(dirs, walk) \subseteq WalkState
  BY <1>2, <1>3 DEF Search, Named
<1>5. [parent |-> walk.folder, name |-> Head(walk.rest)] \in Folder
  BY <1>1 DEF Folder, WalkState
<1>6. Created(dirs, walk) \in Seq(Folder)
  BY <1>5, Appended DEF Created
<1>7. AfterCreate(dirs, walk) \in WalkState
  BY <1>1 DEF AfterCreate, Walk, WalkState
<1> QED BY <1>4, <1>6, <1>7

LEMMA AnsweredType == NotAsked \in Request /\ Answered \in Request /\ Answered.at = "done"
<1>1. Walk(0, <<>>) \in WalkState
  BY DEF Walk, WalkState
<1>2. NotAsked \in Request
  BY <1>1 DEF NotAsked, Request
<1>3. Answered = [at |-> "done", root |-> NotAsked.root, walk |-> NotAsked.walk]
  BY DEF Answered, NotAsked
<1> QED BY <1>2, <1>3 DEF Request
-----------------------------------------------------------------------------
(* Initially.                                                               *)

LEMMA InitRel == Init => RelInv
<1> SUFFICES ASSUME Init PROVE RelInv
  OBVIOUS
<1>1. LocalType /\ DriveType /\ FoldersType /\ Rows
  BY DEF Init, LocalType, DriveType, FoldersType, Rows
<1>2. PassType /\ Tasks /\ TaskInv
  BY DEF Init, PassType, Idle, Tasks, TaskInv, NoTasks
<1>3. Handlers
  BY DEF Init, Handlers, HandlersInv, NotAsked, Walk, Request, WalkState
<1>4. NoOrphanRows
  BY DEF Init, NoOrphanRows
<1> QED BY <1>1, <1>2, <1>3, <1>4 DEF RelInv, RelTypeOK, Tasks, Handlers, Rows
-----------------------------------------------------------------------------
(* The handlers.                                                            *)

\* TaskInv does not depend on what the handlers do to folders and rows.
LEMMA TaskKept ==
    ASSUME TaskInv, UNCHANGED <<local, pass, task>>,
           DOMAIN targets \subseteq DOMAIN targets',
           \A t \in DOMAIN targets : targets'[t] = targets[t]
    PROVE  TaskInv'
<1> SUFFICES ASSUME NEW p \in Paths, task[p] # Nil
             PROVE  /\ pass.at = "exec" /\ pass.target \in DOMAIN targets'
                    /\ task[p].step = "record" =>
                          /\ task[p].obj \in Nat /\ task[p].md5 \in Contents
                          /\ LocalNow(p)' \in Contents
  BY DEF TaskInv
<1>1. pass.at = "exec" /\ pass.target \in DOMAIN targets
  BY DEF TaskInv
<1>2. LocalNow(p)' = LocalNow(p)
  BY <1>1 DEF LocalNow, TargetOf
<1> QED BY <1>1, <1>2 DEF TaskInv

LEMMA AddFolderRel ==
    ASSUME RelInv, NEW q \in Requests, NEW r \in Roots, NEW name \in Names, AddFolder(q, r, name)
    PROVE  RelInv'
<1> USE DEF RelInv, RelTypeOK
<1>1. [at |-> "ensure", root |-> r, walk |-> Walk(0, <<name>>)] \in Request
  BY DEF Request, WalkState, Walk, AllNames
<1>2. Handlers'
  BY <1>1 DEF AddFolder, Handlers, HandlersInv
<1>3. LocalType' /\ DriveType' /\ FoldersType' /\ Rows' /\ PassType' /\ Tasks' /\ NoOrphanRows'
  BY DEF AddFolder, driveVars, folderVars, LocalType, DriveType, FoldersType, Rows, PassType,
         Tasks, NoOrphanRows
<1>4. TaskInv'
  BY TaskKept DEF AddFolder, folderVars
<1> QED BY <1>2, <1>3, <1>4 DEF Rows, Tasks, Handlers

LEMMA EnsureContainerRel ==
    ASSUME RelInv, NEW q \in Requests, EnsureContainer(q) PROVE RelInv'
<1> USE DEF RelInv, RelTypeOK
<1> DEFINE walk == adding[q].walk
<1>1. walk \in WalkState /\ walk.rest # <<>>
  BY DEF EnsureContainer, Request
<1>2. /\ Search(dirs, walk) \subseteq WalkState
      /\ Created(dirs, walk) \in Seq(Folder) /\ AfterCreate(dirs, walk) \in WalkState
  BY <1>1, WalkTypes DEF DriveType
<1>3. /\ dirs' \in Seq(Folder) /\ adding[q].at = "ensure"
      /\ \E w \in WalkState : adding' = [adding EXCEPT ![q].walk = w]
  BY <1>2 DEF EnsureContainer, DriveType
<1>4. Handlers'
  <2>1. PICK w \in WalkState : adding' = [adding EXCEPT ![q].walk = w]
    BY <1>3
  <2>2. adding[q] \in Request /\ [adding[q] EXCEPT !.walk = w] \in Request
    BY DEF Request
  <2>3. adding' \in [Requests -> Request]
    BY <2>1, <2>2
  <2>4. \A r \in Requests : adding'[r].at = adding[r].at /\ adding'[r].root = adding[r].root
    BY <2>1 DEF Request
  <2> QED BY <2>3, <2>4 DEF Handlers, HandlersInv
<1>5. LocalType' /\ DriveType' /\ FoldersType' /\ Rows' /\ PassType' /\ Tasks' /\ NoOrphanRows'
  BY <1>3 DEF EnsureContainer, folderVars, LocalType, DriveType, FoldersType, Rows, PassType,
         Tasks, NoOrphanRows
<1>6. TaskInv'
  BY TaskKept DEF EnsureContainer, folderVars
<1> QED BY <1>4, <1>5, <1>6 DEF Rows, Tasks, Handlers

LEMMA ListFolderRel ==
    ASSUME RelInv, NEW q \in Requests, ListFolder(q) PROVE RelInv'
<1> USE DEF RelInv, RelTypeOK
<1> DEFINE root == adding[q].root
<1>1. adding[q] \in Request /\ adding[q].at = "ensure"
  BY DEF ListFolder
<1>2. [adding[q] EXCEPT !.at = "listed"] \in Request
  BY <1>1 DEF Request
<1>3. Handlers'
  BY <1>2 DEF ListFolder, Handlers, HandlersInv
<1>4. root \in Roots
  BY <1>1 DEF HandlersInv
<1>5. FoldersType'
  BY <1>4 DEF ListFolder, FoldersType
<1>6. LocalType' /\ DriveType' /\ Rows' /\ PassType' /\ Tasks' /\ NoOrphanRows'
  BY DEF ListFolder, driveVars, LocalType, DriveType, Rows, PassType, Tasks, NoOrphanRows
<1>7. TaskInv'
  BY TaskKept DEF ListFolder
<1> QED BY <1>3, <1>5, <1>6, <1>7 DEF Rows, Tasks, Handlers

LEMMA AddTargetRel ==
    ASSUME RelInv, NEW q \in Requests, AddTarget(q) PROVE RelInv'
<1> USE DEF RelInv, RelTypeOK
<1>1. Answered \in Request /\ Answered.at = "done"
  BY AnsweredType
<1>2. Handlers'
  BY <1>1 DEF AddTarget, Handlers, HandlersInv
<1>3. LocalType' /\ DriveType' /\ Rows' /\ Tasks'
  BY DEF AddTarget, driveVars, LocalType, DriveType, Rows, Tasks
<1>4. CASE adding[q].root \in folders
  <2> DEFINE new == [root |-> adding[q].root, container |-> adding[q].walk.folder]
  <2>1. new \in Target
    BY <1>4 DEF Target, Request, WalkState, FoldersType
  <2>2. targets' = Append(targets, new) /\ present' = present \cup {Len(targets) + 1}
    BY <1>4 DEF AddTarget
  <2>3. /\ targets' \in Seq(Target) /\ DOMAIN targets' = DOMAIN targets \cup {Len(targets) + 1}
        /\ \A i \in DOMAIN targets : targets'[i] = targets[i]
        /\ targets'[Len(targets) + 1] = new
    BY <2>1, <2>2, Appended DEF FoldersType
  <2>4. FoldersType' /\ PassType'
    BY <2>2, <2>3 DEF AddTarget, FoldersType, PassType
  <2>5. NoOrphanRows'
    BY <1>4, <2>2, <2>3 DEF AddTarget, NoOrphanRows, FoldersType
  <2>6. TaskInv'
    BY <2>3, TaskKept DEF AddTarget
  <2> QED BY <1>2, <1>3, <2>4, <2>5, <2>6 DEF Rows, Tasks, Handlers
<1>5. CASE adding[q].root \notin folders
  <2>1. FoldersType' /\ PassType' /\ NoOrphanRows'
    BY <1>5 DEF AddTarget, FoldersType, PassType, NoOrphanRows
  <2>2. TaskInv'
    BY <1>5, TaskKept DEF AddTarget
  <2> QED BY <1>2, <1>3, <2>1, <2>2 DEF Rows, Tasks, Handlers
<1> QED BY <1>4, <1>5

LEMMA SetPausedRel ==
    ASSUME RelInv, NEW r \in Roots, SetPaused(r) PROVE RelInv'
<1> USE DEF RelInv, RelTypeOK
<1>1. LocalType' /\ DriveType' /\ Rows' /\ PassType' /\ Tasks' /\ Handlers'
  BY DEF SetPaused, Administer, driveVars, LocalType, DriveType, Rows, PassType, Tasks,
         Handlers, HandlersInv
<1>2. FoldersType' /\ NoOrphanRows'
  BY DEF SetPaused, Administer, FoldersType, NoOrphanRows
<1>3. TaskInv'
  BY TaskKept DEF SetPaused, Administer
<1> QED BY <1>1, <1>2, <1>3 DEF Rows, Tasks, Handlers

\* The rows of the folder's relations go with the relations.
LEMMA RemoveFolderRel ==
    ASSUME RelInv, NEW r \in Roots, RemoveFolder(r) PROVE RelInv'
<1> USE DEF RelInv, RelTypeOK
<1>1. LocalType' /\ DriveType' /\ PassType' /\ Tasks' /\ Handlers'
  BY DEF RemoveFolder, Administer, driveVars, LocalType, DriveType, PassType, Tasks,
         Handlers, HandlersInv
<1>2. FoldersType' /\ Rows'
  BY DEF RemoveFolder, Administer, FoldersType, Rows
<1>3. NoOrphanRows'
  BY DEF RemoveFolder, Administer, NoOrphanRows, TargetsOf
<1>4. TaskInv'
  BY TaskKept DEF RemoveFolder, Administer
<1> QED BY <1>1, <1>2, <1>3, <1>4 DEF Rows, Tasks, Handlers
-----------------------------------------------------------------------------
(* The pass.                                                                *)

LEMMA BeginOrEndRel == ASSUME RelInv, BeginPass \/ EndPass PROVE RelInv'
<1> USE DEF RelInv, RelTypeOK
<1>1. /\ LocalType' /\ DriveType' /\ FoldersType' /\ Rows' /\ Tasks' /\ Handlers'
      /\ NoOrphanRows'
  BY DEF BeginPass, EndPass, UnchangedByPass, driveVars, folderVars, LocalType, DriveType,
         FoldersType, Rows, Tasks, Handlers, HandlersInv, NoOrphanRows
<1>2. PassType'
  BY DEF BeginPass, EndPass, UnchangedByPass, folderVars, FoldersType, PassType, Idle
<1>3. pass.at # "exec" /\ task' = task
  BY DEF BeginPass, EndPass
<1>4. TaskInv'
  BY <1>3 DEF TaskInv
<1> QED BY <1>1, <1>2, <1>4 DEF Rows, Tasks, Handlers

LEMMA EndChainRel == ASSUME RelInv, EndChain PROVE RelInv'
<1> USE DEF RelInv, RelTypeOK
<1>1. /\ LocalType' /\ DriveType' /\ FoldersType' /\ Rows' /\ Tasks' /\ Handlers'
      /\ NoOrphanRows'
  BY DEF EndChain, UnchangedByPass, driveVars, folderVars, LocalType, DriveType,
         FoldersType, Rows, Tasks, Handlers, HandlersInv, NoOrphanRows
<1>2. PassType'
  BY DEF EndChain, UnchangedByPass, folderVars, PassType
<1>3. TaskInv'
  BY DEF EndChain, TaskInv, NoTasks
<1> QED BY <1>1, <1>2, <1>3 DEF Rows, Tasks, Handlers

LEMMA CrashRel == ASSUME RelInv, Crash PROVE RelInv'
<1> USE DEF RelInv, RelTypeOK
<1>1. LocalType' /\ DriveType' /\ FoldersType' /\ Rows' /\ NoOrphanRows'
  BY DEF Crash, driveVars, folderVars, LocalType, DriveType, FoldersType, Rows, NoOrphanRows
<1>2. PassType' /\ Tasks' /\ TaskInv'
  BY DEF Crash, folderVars, PassType, Idle, Tasks, TaskInv, NoTasks
<1>3. Answered \in Request /\ Answered.at = "done"
  BY AnsweredType
<1>4. Handlers'
  BY <1>3 DEF Crash, Handlers, HandlersInv
<1> QED BY <1>1, <1>2, <1>4 DEF Rows, Tasks, Handlers
-----------------------------------------------------------------------------
(* Building the tasks of a chain.                                           *)

LEMMA MergeActs == \A l, r, b : Merge(l, r, b) \in Actions \ {"ADOPT"}
  BY DEF Merge, Actions

\* What the merge makes of one path: no task, or a task with an object that
\* is in the listing; an adoption has the content of a file that is there.
LEMMA NewTaskTypes ==
    ASSUME RelInv, NEW t \in DOMAIN targets, NEW p \in Paths, NEW o \in DOMAIN objs \cup {Nil}
    PROVE  /\ NewTask(t, p, o) \in TaskState \cup {Nil}
           /\ NewTask(t, p, o) # Nil /\ NewTask(t, p, o).step = "record" =>
                 /\ NewTask(t, p, o).obj \in Nat /\ NewTask(t, p, o).md5 \in Contents
                 /\ local[targets[t].root][p] \in Contents
<1> DEFINE act == Action(t, p, o)
           home == targets[t].container
           New(step, walk) == [act |-> act, obj |-> o, md5 |-> RemoteMD5(o), step |-> step, walk |-> walk]
<1>1. targets[t] \in Target
  BY DEF RelInv, RelTypeOK, FoldersType
<1>2. home \in Nat /\ local[targets[t].root][p] \in Contents \cup {Nil}
  BY <1>1 DEF Target, RelInv, RelTypeOK, LocalType
<1>3. act \in Actions
  BY MergeActs DEF Action, Actions
<1>4. /\ o \in Nat \cup {Nil} /\ RemoteMD5(o) \in Contents \cup {Nil}
      /\ o # Nil => o \in Nat /\ RemoteMD5(o) \in Contents
  <2>1. CASE o = Nil
    BY <2>1 DEF RemoteMD5
  <2>2. CASE o # Nil
    <3>1. objs \in Seq(Object) /\ o \in DOMAIN objs
      BY <2>2 DEF RelInv, RelTypeOK, DriveType
    <3>2. o \in Nat /\ objs[o] \in Object
      BY <3>1
    <3> QED BY <2>2, <3>2 DEF RemoteMD5, Object
  <2> QED BY <2>1, <2>2
<1>5. /\ Walk(home, <<>>) \in WalkState /\ Walk(home, <<TrashFolderName>>) \in WalkState
      /\ Walk(home, DirOf[p]) \in WalkState
  BY <1>2 DEF Walk, WalkState, AllNames
<1> HIDE DEF act, home
<1>6. \A step \in {"meta", "ensure", "record"} : \A walk \in WalkState :
          New(step, walk) \in TaskState /\ New(step, walk).step = step
  BY <1>3, <1>4 DEF TaskState
<1>7. /\ act = "ADOPT" => NewTask(t, p, o) = New("record", Walk(home, <<>>))
      /\ act # "ADOPT" => NewTask(t, p, o) \in {Nil, New("meta", Walk(home, <<TrashFolderName>>)),
                                               New("ensure", Walk(home, DirOf[p]))}
  BY DEF NewTask, act, home
<1>8. NewTask(t, p, o) \in TaskState \cup {Nil}
  BY <1>5, <1>6, <1>7
<1>9. CASE act = "ADOPT"
  <2>1. local[targets[t].root][p] # Nil /\ o # Nil
    BY <1>9, MergeActs DEF act, Action
  <2>2. NewTask(t, p, o).obj = o /\ NewTask(t, p, o).md5 = RemoteMD5(o)
    BY <1>7, <1>9
  <2> QED BY <1>2, <1>4, <1>8, <2>1, <2>2
<1>10. CASE act # "ADOPT"
  BY <1>5, <1>6, <1>7, <1>8, <1>10
<1> QED BY <1>9, <1>10

LEMMA SyncChainRel == ASSUME RelInv, SyncChain PROVE RelInv'
<1>1. PICK t \in pass.todo : \E pick \in [Paths -> DOMAIN objs \cup {Nil}] :
        /\ task' = [p \in Paths |-> NewTask(t, p, pick[p])]
        /\ pass' = [at |-> IF task' = NoTasks THEN "next" ELSE "exec",
                    todo |-> pass.todo \ {t}, target |-> t]
  BY DEF SyncChain
<1>2. PICK pick \in [Paths -> DOMAIN objs \cup {Nil}] :
        /\ task' = [p \in Paths |-> NewTask(t, p, pick[p])]
        /\ pass' = [at |-> IF task' = NoTasks THEN "next" ELSE "exec",
                    todo |-> pass.todo \ {t}, target |-> t]
  BY <1>1
<1>3. t \in DOMAIN targets
  BY DEF RelInv, RelTypeOK, PassType
<1>4. \A p \in Paths :
        /\ NewTask(t, p, pick[p]) \in TaskState \cup {Nil}
        /\ NewTask(t, p, pick[p]) # Nil /\ NewTask(t, p, pick[p]).step = "record" =>
              /\ NewTask(t, p, pick[p]).obj \in Nat /\ NewTask(t, p, pick[p]).md5 \in Contents
              /\ local[targets[t].root][p] \in Contents
  BY <1>3, NewTaskTypes
<1>5. /\ \A p \in Paths : task'[p] = NewTask(t, p, pick[p])
      /\ pass'.at \in {"next", "exec"} /\ pass'.todo = pass.todo \ {t} /\ pass'.target = t
      /\ task' # NoTasks => pass'.at = "exec"
  BY <1>2
<1>6. Tasks'
  BY <1>2, <1>4 DEF Tasks
<1>7. TaskInv'
  <2> SUFFICES ASSUME NEW p \in Paths, task'[p] # Nil
               PROVE  /\ pass'.at = "exec" /\ pass'.target \in DOMAIN targets'
                      /\ task'[p].step = "record" =>
                            /\ task'[p].obj \in Nat /\ task'[p].md5 \in Contents
                            /\ LocalNow(p)' \in Contents
    BY DEF TaskInv
  <2>1. task' # NoTasks
    BY DEF NoTasks
  <2>2. targets' = targets /\ local' = local
    BY DEF SyncChain, UnchangedByPass, folderVars
  <2>3. LocalNow(p)' = local[targets[t].root][p]
    BY <1>5, <2>2 DEF LocalNow, TargetOf
  <2> QED BY <1>3, <1>4, <1>5, <2>1, <2>2, <2>3
<1>8. PassType'
  BY <1>3, <1>5 DEF SyncChain, UnchangedByPass, folderVars, PassType, RelInv, RelTypeOK
<1>9. LocalType' /\ DriveType' /\ FoldersType' /\ Rows' /\ Handlers' /\ NoOrphanRows'
  BY DEF SyncChain, UnchangedByPass, driveVars, folderVars, LocalType, DriveType, FoldersType,
         Rows, Handlers, HandlersInv, NoOrphanRows, RelInv, RelTypeOK
<1> QED BY <1>6, <1>7, <1>8, <1>9 DEF RelInv, RelTypeOK, Rows, Tasks, Handlers
-----------------------------------------------------------------------------
(* The tasks.                                                               *)

\* What no step of a task touches.
LEMMA TaskFrame ==
    ASSUME RelInv, UnchangedByPass, UNCHANGED pass
    PROVE  LocalType' /\ FoldersType' /\ PassType' /\ Handlers'
  BY DEF UnchangedByPass, folderVars, LocalType, FoldersType, PassType, Handlers, HandlersInv,
         RelInv, RelTypeOK

\* A task is replaced by another of its chain, or leaves the pool.
LEMMA TaskChanges ==
    ASSUME RelInv, UnchangedByPass, UNCHANGED pass, NEW p \in Paths, task[p] # Nil,
           NEW new \in TaskState \cup {Nil}, task' = [task EXCEPT ![p] = new],
           new # Nil /\ new.step = "record" =>
              new.obj \in Nat /\ new.md5 \in Contents /\ LocalNow(p) \in Contents
    PROVE  Tasks' /\ TaskInv'
<1>1. Tasks'
  BY DEF Tasks, RelInv, RelTypeOK
<1>2. TaskInv'
  <2> SUFFICES ASSUME NEW q \in Paths, task'[q] # Nil
               PROVE  /\ pass'.at = "exec" /\ pass'.target \in DOMAIN targets'
                      /\ task'[q].step = "record" =>
                            /\ task'[q].obj \in Nat /\ task'[q].md5 \in Contents
                            /\ LocalNow(q)' \in Contents
    BY DEF TaskInv
  <2>1. LocalNow(q)' = LocalNow(q) /\ targets' = targets
    BY DEF LocalNow, TargetOf, UnchangedByPass, folderVars
  <2>2. pass.at = "exec" /\ pass.target \in DOMAIN targets
    BY DEF RelInv, TaskInv
  <2>3. task'[q] = IF q = p THEN new ELSE task[q]
    BY DEF RelInv, RelTypeOK
  <2>4. CASE q = p
    BY <2>1, <2>2, <2>3, <2>4
  <2>5. CASE q # p
    BY <2>1, <2>2, <2>3, <2>5 DEF RelInv, TaskInv
  <2> QED BY <2>4, <2>5
<1> QED BY <1>1, <1>2

LEMMA TrashMetaRel == ASSUME RelInv, NEW p \in Paths, TrashMeta(p) PROVE RelInv'
<1> DEFINE found == RowsAt(pass.target, p)
<1>1. task[p] # Nil /\ task[p] \in TaskState /\ UnchangedByPass /\ UNCHANGED pass
  BY DEF TrashMeta, TaskAt, RelInv, RelTypeOK
<1>2. Tasks' /\ TaskInv'
  <2>1. CASE task' = [task EXCEPT ![p] = Nil]
    BY <1>1, <2>1, TaskChanges
  <2>2. CASE \E row \in found :
            task' = [task EXCEPT ![p] = [@ EXCEPT !.obj = row.remoteID, !.step = "ensure"]]
    <3>1. PICK row \in found :
            task' = [task EXCEPT ![p] = [@ EXCEPT !.obj = row.remoteID, !.step = "ensure"]]
      BY <2>2
    <3>2. row.remoteID \in Nat
      BY DEF RowsAt, RelInv, RelTypeOK, Row
    <3> DEFINE new == [task[p] EXCEPT !.obj = row.remoteID, !.step = "ensure"]
    <3>3. new \in TaskState /\ new.step = "ensure"
      BY <1>1, <3>2 DEF TaskState
    <3>4. task' = [task EXCEPT ![p] = new]
      BY <3>1
    <3> QED BY <1>1, <3>3, <3>4, TaskChanges
  <2> QED BY <2>1, <2>2 DEF TrashMeta, Done
<1>3. DriveType' /\ Rows' /\ NoOrphanRows'
  BY DEF TrashMeta, TaskAt, UnchangedByPass, driveVars, folderVars, DriveType, Rows, NoOrphanRows,
         RelInv, RelTypeOK
<1> QED BY <1>1, <1>2, <1>3, TaskFrame DEF RelInv, RelTypeOK, Rows, Tasks, Handlers
LEMMA EnsureFolderRel == ASSUME RelInv, NEW p \in Paths, EnsureFolder(p) PROVE RelInv'
<1> DEFINE walk == task[p].walk
<1>1. /\ task[p] # Nil /\ task[p] \in TaskState /\ task[p].step = "ensure" /\ walk.rest # <<>>
      /\ UnchangedByPass /\ UNCHANGED pass
  BY DEF EnsureFolder, TaskAt, RelInv, RelTypeOK
<1>2. dirs \in Seq(Folder) /\ walk \in WalkState
  BY <1>1 DEF TaskState, RelInv, RelTypeOK, DriveType
<1>3. /\ Search(dirs, walk) \subseteq WalkState
      /\ Created(dirs, walk) \in Seq(Folder) /\ AfterCreate(dirs, walk) \in WalkState
  BY <1>1, <1>2, WalkTypes
<1>4. /\ dirs' \in Seq(Folder)
      /\ \E w \in WalkState : task' = [task EXCEPT ![p] = [@ EXCEPT !.walk = w]]
  BY <1>2, <1>3 DEF EnsureFolder
<1>5. PICK w \in WalkState : task' = [task EXCEPT ![p] = [@ EXCEPT !.walk = w]]
  BY <1>4
<1> DEFINE new == [task[p] EXCEPT !.walk = w]
<1>6. new \in TaskState /\ new.step = "ensure"
  BY <1>1 DEF TaskState
<1>7. task' = [task EXCEPT ![p] = new]
  BY <1>5
<1>8. Tasks' /\ TaskInv'
  BY <1>1, <1>6, <1>7, TaskChanges
<1>9. DriveType' /\ Rows' /\ NoOrphanRows'
  BY <1>1, <1>4 DEF EnsureFolder, UnchangedByPass, folderVars, DriveType, Rows, NoOrphanRows,
         RelInv, RelTypeOK
<1> QED BY <1>1, <1>8, <1>9, TaskFrame DEF RelInv, RelTypeOK, Rows, Tasks, Handlers

\* A content goes to the object it was meant for, or to a new one.
LEMMA UploadRel == ASSUME RelInv, NEW p \in Paths, Upload(p) PROVE RelInv'
<1> DEFINE c == LocalNow(p)
           o == IF task[p].obj = Nil THEN Len(objs) + 1 ELSE task[p].obj
           fresh == [folder |-> task[p].walk.folder, path |-> p, content |-> c]
           new == [task[p] EXCEPT !.obj = o, !.md5 = c, !.step = "record"]
<1>1. /\ task[p] # Nil /\ task[p] \in TaskState
      /\ UnchangedByPass /\ UNCHANGED pass /\ dirs' = dirs /\ rows' = rows
  BY DEF Upload, TaskAt, RelInv, RelTypeOK
<1>2. objs \in Seq(Object)
  BY DEF RelInv, RelTypeOK, DriveType
<1>3. c \in Contents \cup {Nil}
  <2>1. targets[pass.target] \in Target
    BY <1>1 DEF RelInv, TaskInv, RelTypeOK, FoldersType
  <2> QED BY <2>1 DEF LocalNow, TargetOf, Target, RelInv, RelTypeOK, LocalType
<1>4. /\ objs' \in Seq(Object) /\ Tasks' /\ TaskInv'
  <2>1. CASE c = Nil
    <3>1. objs' = objs /\ task' = [task EXCEPT ![p] = Nil]
      BY <2>1 DEF Upload, Done
    <3> QED BY <1>1, <1>2, <3>1, TaskChanges
  <2>2. CASE c # Nil
    <3>1. c \in Contents /\ o \in Nat
      BY <1>1, <1>2, <1>3, <2>2 DEF TaskState
    <3>2. new \in TaskState /\ new.obj = o /\ new.md5 = c
      BY <1>1, <3>1 DEF TaskState
    <3>3. task' = [task EXCEPT ![p] = new]
      BY <2>2 DEF Upload
    <3>4. Tasks' /\ TaskInv'
      BY <1>1, <3>1, <3>2, <3>3, TaskChanges
    <3>5. CASE task[p].obj = Nil
      <4>1. fresh \in Object
        BY <1>1, <3>1 DEF Object, TaskState, WalkState
      <4>2. objs' = Append(objs, fresh)
        BY <2>2, <3>5 DEF Upload
      <4> QED BY <1>2, <3>4, <4>1, <4>2, Appended
    <3>6. CASE task[p].obj # Nil
      <4>1. objs' = [objs EXCEPT ![o] = [@ EXCEPT !.content = c]]
        BY <2>2, <3>6 DEF Upload
      <4> DEFINE e == [objs[o] EXCEPT !.content = c]
      <4>2. o \in DOMAIN objs => objs[o] \in Object
        BY <1>2
      <4>3. o \in DOMAIN objs => e \in Object
        BY <3>1, <4>2 DEF Object
      <4>4. objs' = [objs EXCEPT ![o] = e]
        BY <4>1
      <4> HIDE DEF e
      <4> QED BY <1>2, <3>4, <4>3, <4>4, Updated
    <3> QED BY <3>5, <3>6
  <2> QED BY <2>1, <2>2
<1>5. DriveType' /\ Rows' /\ NoOrphanRows'
  BY <1>1, <1>4 DEF UnchangedByPass, folderVars, DriveType, Rows, NoOrphanRows, RelInv, RelTypeOK
<1> QED BY <1>1, <1>4, <1>5, TaskFrame DEF RelInv, RelTypeOK, Rows, Tasks, Handlers

\* The row is complete, and is refused when its relation is gone.
LEMMA RecordRel == ASSUME RelInv, NEW p \in Paths, Record(p) PROVE RelInv'
<1> DEFINE new == NewRow(pass.target, p, task[p].obj, task[p].md5, LocalNow(p))
<1>1. /\ task[p] # Nil /\ task[p].step = "record" /\ task' = [task EXCEPT ![p] = Nil]
      /\ UnchangedByPass /\ UNCHANGED pass /\ UNCHANGED driveVars
  BY DEF Record, TaskAt, Done
<1>2. Tasks' /\ TaskInv'
  BY <1>1, TaskChanges
<1>3. /\ pass.target \in DOMAIN targets /\ targets \in Seq(Target)
      /\ task[p].obj \in Nat /\ task[p].md5 \in Contents /\ LocalNow(p) \in Contents
  BY <1>1 DEF RelInv, TaskInv, RelTypeOK, FoldersType
<1>4. new \in Row /\ new.rel = pass.target
  BY <1>3 DEF NewRow, Row
<1>5. Rows' /\ NoOrphanRows'
  <2>1. CASE pass.target \notin present
    BY <1>1, <2>1 DEF Record, UnchangedByPass, folderVars, Rows, NoOrphanRows, RelInv, RelTypeOK
  <2>2. CASE pass.target \in present
    <3>1. rows' = (rows \ RowsAt(pass.target, p)) \cup {new}
      BY <2>2 DEF Record
    <3> QED BY <1>1, <1>4, <2>2, <3>1
            DEF UnchangedByPass, folderVars, Rows, NoOrphanRows, RelInv, RelTypeOK
  <2> QED BY <2>1, <2>2
<1>6. DriveType'
  BY <1>1 DEF driveVars, DriveType, RelInv, RelTypeOK
<1> QED BY <1>1, <1>2, <1>5, <1>6, TaskFrame DEF RelInv, RelTypeOK, Rows, Tasks, Handlers

LEMMA MoveToTankRel == ASSUME RelInv, NEW p \in Paths, MoveToTank(p) PROVE RelInv'
<1> DEFINE new == [task[p] EXCEPT !.step = "mark"]
<1>1. /\ task[p] # Nil /\ task[p] \in TaskState /\ task' = [task EXCEPT ![p] = new]
      /\ UnchangedByPass /\ UNCHANGED pass /\ dirs' = dirs /\ rows' = rows
  BY DEF MoveToTank, TaskAt, RelInv, RelTypeOK
<1>2. new \in TaskState /\ new.step = "mark"
  BY <1>1 DEF TaskState
<1>3. Tasks' /\ TaskInv'
  BY <1>1, <1>2, TaskChanges
<1>4. objs' \in Seq(Object)
  <2> DEFINE o == task[p].obj
             e == [objs[o] EXCEPT !.folder = task[p].walk.folder]
  <2>1. objs \in Seq(Object) /\ task[p].walk.folder \in Nat
    BY <1>1 DEF TaskState, WalkState, RelInv, RelTypeOK, DriveType
  <2>2. o \in DOMAIN objs => objs[o] \in Object
    BY <2>1
  <2>3. o \in DOMAIN objs => e \in Object
    BY <2>1, <2>2 DEF Object
  <2>4. objs' = [objs EXCEPT ![o] = e]
    BY DEF MoveToTank
  <2> HIDE DEF e
  <2> QED BY <2>1, <2>3, <2>4, Updated
<1>5. DriveType' /\ Rows' /\ NoOrphanRows'
  BY <1>1, <1>4 DEF UnchangedByPass, folderVars, DriveType, Rows, NoOrphanRows, RelInv, RelTypeOK
<1> QED BY <1>1, <1>3, <1>5, TaskFrame DEF RelInv, RelTypeOK, Rows, Tasks, Handlers

LEMMA MarkTrashedRel == ASSUME RelInv, NEW p \in Paths, MarkTrashed(p) PROVE RelInv'
<1> DEFINE found == RowsAt(pass.target, p)
<1>1. /\ task[p] # Nil /\ task' = [task EXCEPT ![p] = Nil]
      /\ UnchangedByPass /\ UNCHANGED pass /\ UNCHANGED driveVars
      /\ rows' = (rows \ found) \cup {[row EXCEPT !.status = "TRASHED"] : row \in found}
  BY DEF MarkTrashed, TaskAt, Done
<1>2. Tasks' /\ TaskInv'
  BY <1>1, TaskChanges
<1>3. \A row \in found : /\ row \in rows /\ [row EXCEPT !.status = "TRASHED"] \in Row
                         /\ [row EXCEPT !.status = "TRASHED"].rel = row.rel
  BY DEF RowsAt, Row, RelInv, RelTypeOK
<1>4. Rows' /\ NoOrphanRows'
  BY <1>1, <1>3 DEF UnchangedByPass, folderVars, Rows, NoOrphanRows, RelInv, RelTypeOK
<1>5. DriveType'
  BY <1>1 DEF driveVars, DriveType, RelInv, RelTypeOK
<1> QED BY <1>1, <1>2, <1>4, <1>5, TaskFrame DEF RelInv, RelTypeOK, Rows, Tasks, Handlers

\* A file about to be dated is not the one that changes.
LEMMA UserEditRel ==
    ASSUME RelInv, NEW r \in Roots, NEW p \in Paths, UserEdit(r, p) PROVE RelInv'
<1>1. PICK c \in Contents \cup {Nil} : local' = [local EXCEPT ![r][p] = c]
  BY DEF UserEdit
<1>2. /\ ~InTransfer(r, p) /\ UNCHANGED <<dirs, objs, folders, paused, targets, present>>
      /\ UNCHANGED <<rows, pass, task, adding>>
  BY DEF UserEdit, driveVars, folderVars
<1>3. local \in [Roots -> [Paths -> Contents \cup {Nil}]]
  BY DEF RelInv, RelTypeOK, LocalType
<1>4. LocalType'
  BY <1>1, <1>3 DEF LocalType
<1>5. TaskInv'
  <2> SUFFICES ASSUME NEW q \in Paths, task[q] # Nil, task[q].step = "record"
               PROVE  LocalNow(q)' \in Contents
    BY <1>2 DEF TaskInv, RelInv
  <2>1. LocalNow(q) \in Contents
    BY DEF RelInv, TaskInv
  <2>2. TargetOf' = TargetOf
    BY <1>2 DEF TargetOf
  <2>3. ~(q = p /\ TargetOf.root = r)
    BY <1>2 DEF InTransfer
  <2>4. targets[pass.target] \in Target
    BY DEF RelInv, TaskInv, RelTypeOK, FoldersType
  <2>5. TargetOf.root \in Roots
    BY <2>4 DEF TargetOf, Target
  <2>6. local'[TargetOf.root][q] = local[TargetOf.root][q]
    BY <1>1, <1>3, <2>3, <2>5
  <2> QED BY <2>1, <2>2, <2>6 DEF LocalNow
<1>6. DriveType' /\ FoldersType' /\ Rows' /\ PassType' /\ Tasks' /\ Handlers' /\ NoOrphanRows'
  BY <1>2 DEF DriveType, FoldersType, Rows, PassType, Tasks, Handlers, HandlersInv, NoOrphanRows,
         RelInv, RelTypeOK
<1> QED BY <1>4, <1>5, <1>6 DEF RelInv, RelTypeOK, Rows, Tasks, Handlers
-----------------------------------------------------------------------------
LEMMA NextRel == RelInv /\ [Next]_vars => RelInv'
<1> SUFFICES ASSUME RelInv, [Next]_vars PROVE RelInv'
  OBVIOUS
<1>1. CASE RequestStep
  BY <1>1, AddFolderRel, EnsureContainerRel, ListFolderRel, AddTargetRel DEF RequestStep
<1>2. CASE AdminStep
  BY <1>2, SetPausedRel, RemoveFolderRel DEF AdminStep
<1>3. CASE PassStep
  <2>1. CASE \E p \in Paths : TaskStep(p)
    BY <2>1, TrashMetaRel, EnsureFolderRel, UploadRel, RecordRel, MoveToTankRel, MarkTrashedRel
       DEF TaskStep
  <2> QED BY <1>3, <2>1, BeginOrEndRel, SyncChainRel, EndChainRel DEF PassStep
<1>4. CASE UserStep
  BY <1>4, UserEditRel DEF UserStep
<1>5. CASE Crash
  BY <1>5, CrashRel
<1>6. CASE UNCHANGED vars
  BY <1>6 DEF vars, driveVars, folderVars, bounds, RelInv, RelTypeOK, LocalType, DriveType,
       FoldersType, PassType, TaskInv, LocalNow, TargetOf, HandlersInv, NoOrphanRows
<1> QED BY <1>1, <1>2, <1>3, <1>4, <1>5, <1>6 DEF Next

LEMMA RelInvHolds == Spec => []RelInv
  BY InitRel, NextRel, PTL DEF Spec

-----------------------------------------------------------------------------
(* What the folders on Drive look like, and where objects and rows are.     *)

\* A container is at the top of My Drive.  Folders are made below folders that
\* are there already, and nothing is ever made in a holding tank.
Container(f) == f \in DOMAIN dirs /\ dirs[f].parent = 0 /\ dirs[f].name # TrashFolderName
TankName(f) == dirs[f].name = TrashFolderName
TreeInv == /\ Tree(dirs)
           /\ \A f \in DOMAIN dirs : dirs[f].parent # 0 => ~TankName(dirs[f].parent)
ContainersInv == \A t \in DOMAIN targets : Container(targets[t].container)

\* The folders of a relation, and its objects that are not in a tank.
Chain(t) == Descendants(dirs, targets[t].container)
Live(t) == {o \in Within(t) : ~TankName(objs[o].folder)}
ObjectsInv == \A o \in DOMAIN objs : \E t \in DOMAIN targets : o \in Within(t)
LiveUnique == \A t \in DOMAIN targets : \A o1, o2 \in Live(t) : objs[o1].path = objs[o2].path => o1 = o2

\* A request walks from My Drive to a container.
RequestWalks == \A q \in Requests : LET w == adding[q].walk IN
    /\ adding[q].at = "ensure" => \/ /\ w.folder = 0 /\ \E n \in Names : w.rest = <<n>>
                                 \/ /\ w.rest = <<>> /\ Container(w.folder)
    /\ adding[q].at = "listed" => Container(w.folder)

\* A task walks down from its container, and into a tank only to trash.
Plain(names) == \A i \in DOMAIN names : names[i] # TrashFolderName
WalkOK(p) == LET w == task[p].walk IN
    /\ w.folder \in Chain(pass.target)
    /\ task[p].act # "TRASH" => ~TankName(w.folder) /\ Plain(w.rest)
    /\ task[p].act = "TRASH" => \/ /\ w.rest = <<TrashFolderName>> /\ ~TankName(w.folder)
                                \/ /\ w.rest = <<>> /\ TankName(w.folder)

\* An upload creates an object only where there is none; a task knows an object
\* of its own container, and one that trashes knows the one its row names.
UploadOK(p) == task[p].act # "TRASH" =>
    /\ task[p].step \in {"ensure", "record"}
    /\ task[p].obj # Nil => task[p].obj \in Within(pass.target)
    /\ task[p].obj = Nil => task[p].step = "ensure" /\ \A l \in Live(pass.target) : objs[l].path # p
TrashOK(p) == task[p].act = "TRASH" =>
    /\ task[p].step \in {"meta", "ensure", "mark"}
    /\ task[p].step # "meta" => /\ task[p].obj \in Within(pass.target)
                               /\ \A row \in RowsAt(pass.target, p) : row.remoteID = task[p].obj
    /\ task[p].step = "mark" => TankName(objs[task[p].obj].folder)
TaskOK(p) == task[p] # Nil => WalkOK(p) /\ UploadOK(p) /\ TrashOK(p)
TasksOK == \A p \in Paths : TaskOK(p)

\* The primary key of file_metadata.
OneRowPerKey == \A r1, r2 \in rows : r1.rel = r2.rel /\ r1.path = r2.path => r1 = r2

DriveInv == TreeInv /\ ContainersInv /\ ObjectsInv /\ LiveUnique
RowInv == OneRowPerKey /\ RowsPointHome
PlaceInv == DriveInv /\ RowInv /\ RequestWalks /\ TasksOK
-----------------------------------------------------------------------------
(* The folders and the objects of a relation.                               *)

LEMMA Places ==
    ASSUME RelInv, TreeInv, ContainersInv, NEW t \in DOMAIN targets
    PROVE  /\ dirs \in Seq(Folder) /\ targets[t].container \in DOMAIN dirs
           /\ Chain(t) \subseteq DOMAIN dirs /\ targets[t].container \in Chain(t)
           /\ \A f \in DOMAIN dirs : dirs[f].parent \in Chain(t) => f \in Chain(t)
           /\ Within(t) = {o \in DOMAIN objs : objs[o].folder \in Chain(t)}
           /\ Live(t) \subseteq Listing(t) /\ Listing(t) \subseteq Within(t)
<1> DEFINE c == targets[t].container
<1>1. dirs \in Seq(Folder) /\ Tree(dirs) /\ c \in DOMAIN dirs
  BY DEF RelInv, RelTypeOK, DriveType, TreeInv, ContainersInv, Container
<1>2. /\ Chain(t) \subseteq DOMAIN dirs
      /\ \A f \in DOMAIN dirs : f \in Chain(t) <=> f = c \/ dirs[f].parent \in Chain(t)
  BY <1>1, DescendantsRule DEF Chain
<1>3. Within(t) = {o \in DOMAIN objs : objs[o].folder \in Chain(t)}
  BY DEF Within, Chain
<1>4. /\ Below(dirs, c) \subseteq Chain(t)
      /\ \A f \in Chain(t) : dirs[f].name # TrashFolderName => f \in Below(dirs, c)
  BY <1>1, BelowIsUntanked DEF TreeInv, TankName, Chain
<1>5. Listing(t) = {o \in DOMAIN objs : objs[o].folder \in Below(dirs, c)}
  BY DEF Listing
<1> QED BY <1>1, <1>2, <1>3, <1>4, <1>5 DEF Live, TankName

\* Relations in different containers have nothing in common.
LEMMA PlacesApart ==
    ASSUME RelInv, TreeInv, ContainersInv, NEW t \in DOMAIN targets, NEW u \in DOMAIN targets,
           NEW o \in Within(t) \cap Within(u)
    PROVE  targets[t].container = targets[u].container
<1>1. /\ dirs \in Seq(Folder) /\ Tree(dirs)
      /\ targets[t].container \in DOMAIN dirs /\ dirs[targets[t].container].parent = 0
      /\ targets[u].container \in DOMAIN dirs /\ dirs[targets[u].container].parent = 0
  BY DEF RelInv, RelTypeOK, DriveType, TreeInv, ContainersInv, Container
<1>2. objs[o].folder \in Chain(t) \cap Chain(u)
  BY Places
<1> QED BY <1>1, <1>2, DescendantsApart DEF Chain

\* More folders leave every object where it is.
Grows(ds, es) == DOMAIN ds \subseteq DOMAIN es /\ \A f \in DOMAIN ds : es[f] = ds[f]

LEMMA PlacesKept ==
    ASSUME RelInv, DriveInv, RelInv', TreeInv', Grows(dirs, dirs'), UNCHANGED <<objs, targets>>
    PROVE  /\ \A t \in DOMAIN targets :
                 Chain(t) \subseteq Chain(t)' /\ Within(t)' = Within(t) /\ Live(t)' = Live(t)
           /\ DriveInv'
<1>1. ContainersInv'
  BY DEF DriveInv, ContainersInv, Container, Grows
<1>2. ASSUME NEW t \in DOMAIN targets
      PROVE  Chain(t) \subseteq Chain(t)' /\ Within(t)' = Within(t) /\ Live(t)' = Live(t)
  <2>1. /\ dirs \in Seq(Folder) /\ Tree(dirs) /\ dirs' \in Seq(Folder) /\ Tree(dirs')
        /\ targets[t].container \in DOMAIN dirs
    BY DEF RelInv, RelTypeOK, DriveType, DriveInv, TreeInv, ContainersInv, Container
  <2>2. \A f \in DOMAIN dirs : f \in Chain(t)' <=> f \in Chain(t)
    BY <2>1, DescendantsKept DEF Chain, Grows
  <2>3. \A o \in DOMAIN objs : objs[o].folder \in DOMAIN dirs
    BY Places DEF DriveInv, ObjectsInv
  <2>4. Chain(t) \subseteq DOMAIN dirs /\ Within(t) = {o \in DOMAIN objs : objs[o].folder \in Chain(t)}
    BY Places DEF DriveInv
  <2>5. Within(t)' = {o \in DOMAIN objs' : objs'[o].folder \in Chain(t)'}
    BY DEF Within, Chain
  <2>6. Within(t)' = Within(t)
    BY <2>2, <2>3, <2>4, <2>5
  <2> QED BY <2>2, <2>3, <2>4, <2>6 DEF Live, TankName, Grows
<1>3. ObjectsInv'
  BY <1>2 DEF DriveInv, ObjectsInv
<1>4. LiveUnique'
  BY <1>2 DEF DriveInv, LiveUnique
<1> QED BY <1>1, <1>2, <1>3, <1>4 DEF DriveInv


\* What stays true of tasks, rows and requests while objects move into tanks
\* and others are made.
Steady(t) ==
    /\ Chain(t) \subseteq Chain(t)' /\ \A f \in Chain(t) : dirs'[f] = dirs[f]
    /\ \A o \in Within(t) : o \in Within(t)' /\ (TankName(objs[o].folder) => TankName(objs[o].folder)')

LEMMA TaskStays ==
    ASSUME RelInv, PlaceInv, NEW t \in DOMAIN targets, pass.target = t, pass'.target = t, Steady(t),
           NEW q \in Paths, task'[q] = task[q],
           \A l \in Live(t)' : objs'[l].path = q => l \in Live(t) /\ objs[l].path = q,
           \A row \in rows' : row.rel = t /\ row.path = q => row \in rows
    PROVE  TaskOK(q)'
<1> SUFFICES ASSUME task[q] # Nil PROVE WalkOK(q)' /\ UploadOK(q)' /\ TrashOK(q)'
  BY DEF TaskOK
<1>1. WalkOK(q) /\ UploadOK(q) /\ TrashOK(q)
  BY DEF PlaceInv, TasksOK, TaskOK
<1>2. WalkOK(q)'
  BY <1>1 DEF WalkOK, Steady, TankName
<1>3. UploadOK(q)'
  BY <1>1 DEF UploadOK, Steady
<1>4. TrashOK(q)'
  BY <1>1 DEF TrashOK, Steady, RowsAt
<1> QED BY <1>2, <1>3, <1>4

LEMMA RowsStay ==
    ASSUME RelInv, PlaceInv, Grows(targets, targets'), \A t \in DOMAIN targets : Steady(t), rows' \subseteq rows
    PROVE  RowInv'
<1>1. OneRowPerKey'
  BY DEF PlaceInv, RowInv, OneRowPerKey
<1>2. RowsPointHome'
  <2> SUFFICES ASSUME NEW row \in rows'
               PROVE  /\ row.remoteID \in Within(row.rel)'
                      /\ row.status = "TRASHED" => Home(row.remoteID)'.name = TrashFolderName
    BY DEF RowsPointHome
  <2>1. row \in rows /\ row.rel \in DOMAIN targets
    BY DEF RelInv, NoOrphanRows, RelTypeOK, FoldersType
  <2>2. row.remoteID \in Within(row.rel)
        /\ (row.status = "TRASHED" => Home(row.remoteID).name = TrashFolderName)
    BY <2>1 DEF PlaceInv, RowInv, RowsPointHome
  <2> QED BY <2>1, <2>2 DEF Steady, Home, TankName
<1> QED BY <1>1, <1>2 DEF RowInv

\* Nothing has moved.
LEMMA SteadyFolders ==
    ASSUME RelInv, DriveInv, RelInv', TreeInv', Grows(dirs, dirs'), UNCHANGED <<objs, targets>>
    PROVE  DriveInv' /\ \A t \in DOMAIN targets : Steady(t) /\ Live(t)' = Live(t)
<1>1. /\ DriveInv'
      /\ \A t \in DOMAIN targets :
            Chain(t) \subseteq Chain(t)' /\ Within(t)' = Within(t) /\ Live(t)' = Live(t)
  BY PlacesKept
<1>2. \A t \in DOMAIN targets :
        /\ Chain(t) \subseteq DOMAIN dirs
        /\ Within(t) = {o \in DOMAIN objs : objs[o].folder \in Chain(t)}
  BY Places DEF DriveInv
<1> QED BY <1>1, <1>2 DEF Steady, Grows, TankName

LEMMA SteadyDrive ==
    ASSUME UNCHANGED <<dirs, objs, targets>>, DriveInv
    PROVE  /\ DriveInv' /\ \A t \in DOMAIN targets : Steady(t) /\ Live(t)' = Live(t)
           /\ Grows(targets, targets') /\ Grows(dirs, dirs')
  BY DEF DriveInv, TreeInv, TankName, ContainersInv, Container, ObjectsInv, Within, LiveUnique, Live,
         Steady, Chain, Grows

LEMMA RequestsStay ==
    ASSUME RequestWalks, Grows(dirs, dirs'), UNCHANGED adding PROVE RequestWalks'
  BY DEF RequestWalks, Grows, Container

LEMMA TasksStay ==
    ASSUME RelInv, PlaceInv, UNCHANGED <<targets, objs, task, pass>>, rows' \subseteq rows,
           \A t \in DOMAIN targets : Steady(t) /\ Live(t)' = Live(t)
    PROVE  TasksOK'
<1> SUFFICES ASSUME NEW q \in Paths, task[q] # Nil PROVE TaskOK(q)'
  BY DEF TasksOK, TaskOK
<1>1. pass.target \in DOMAIN targets
  BY DEF RelInv, TaskInv
<1> QED BY <1>1, TaskStays

LEMMA NoTasksLeft == ASSUME \A p \in Paths : task'[p] = Nil PROVE TasksOK'
  BY DEF TasksOK, TaskOK

\* A step that moves nothing and does not walk.
LEMMA PlaceStays ==
    ASSUME RelInv, PlaceInv, UNCHANGED <<dirs, objs, targets, adding>>, rows' \subseteq rows,
           \/ UNCHANGED <<task, pass>>
           \/ \A p \in Paths : task'[p] = Nil
    PROVE  PlaceInv'
<1>1. /\ DriveInv' /\ \A t \in DOMAIN targets : Steady(t) /\ Live(t)' = Live(t)
      /\ Grows(targets, targets') /\ Grows(dirs, dirs')
  BY SteadyDrive DEF PlaceInv
<1>2. RowInv'
  BY <1>1, RowsStay
<1>3. RequestWalks'
  BY <1>1, RequestsStay DEF PlaceInv
<1>4. TasksOK'
  BY <1>1, TasksStay, NoTasksLeft
<1> QED BY <1>1, <1>2, <1>3, <1>4 DEF PlaceInv

-----------------------------------------------------------------------------
(* The handlers.                                                            *)

\* A folder made by a walk that is in no tank.
LEMMA TreeGrows ==
    ASSUME RelInv, TreeInv, NEW walk \in WalkState, walk.rest # <<>>,
           walk.folder = 0 \/ (walk.folder \in DOMAIN dirs /\ ~TankName(walk.folder)),
           dirs' = Created(dirs, walk)
    PROVE  /\ TreeInv' /\ Grows(dirs, dirs') /\ Len(dirs) + 1 \in DOMAIN dirs'
           /\ dirs'[Len(dirs) + 1] = [parent |-> walk.folder, name |-> Head(walk.rest)]
<1> DEFINE d == [parent |-> walk.folder, name |-> Head(walk.rest)]
<1>1. dirs \in Seq(Folder) /\ d \in Folder
  BY DEF RelInv, RelTypeOK, DriveType, WalkState, Folder
<1>2. dirs' = Append(dirs, d)
  BY DEF Created
<1>3. /\ dirs' \in Seq(Folder) /\ DOMAIN dirs' = DOMAIN dirs \cup {Len(dirs) + 1}
      /\ \A i \in DOMAIN dirs : dirs'[i] = dirs[i]
      /\ dirs'[Len(dirs) + 1] = d
  BY <1>1, <1>2, Appended
<1>4. DOMAIN dirs = 1..Len(dirs) /\ Len(dirs) \in Nat /\ d.parent = walk.folder
  BY <1>1
<1>5. Tree(dirs')
  BY <1>3, <1>4 DEF TreeInv, Tree
<1>6. ASSUME NEW f \in DOMAIN dirs', dirs'[f].parent # 0 PROVE dirs'[dirs'[f].parent].name # TrashFolderName
  <2>1. CASE f \in DOMAIN dirs
    <3>1. dirs[f].parent \in DOMAIN dirs /\ ~TankName(dirs[f].parent)
      BY <1>3, <1>4, <1>6, <2>1 DEF TreeInv, Tree
    <3> QED BY <1>3, <2>1, <3>1 DEF TankName
  <2>2. CASE f = Len(dirs) + 1
    BY <1>3, <1>4, <1>6, <2>2 DEF TankName
  <2> QED BY <1>3, <2>1, <2>2
<1> QED BY <1>3, <1>5, <1>6 DEF TreeInv, TankName, Grows

LEMMA AddFolderPlace ==
    ASSUME RelInv, PlaceInv, NEW q \in Requests, NEW r \in Roots, NEW name \in Names, AddFolder(q, r, name)
    PROVE  PlaceInv'
<1>1. UNCHANGED <<dirs, objs, targets, rows, task, pass>>
  BY DEF AddFolder, driveVars, folderVars
<1>2. /\ DriveInv' /\ \A t \in DOMAIN targets : Steady(t) /\ Live(t)' = Live(t)
      /\ Grows(targets, targets')
  BY <1>1, SteadyDrive DEF PlaceInv
<1>3. RowInv' /\ TasksOK'
  BY <1>1, <1>2, RowsStay, TasksStay
<1>4. RequestWalks'
  <2>1. adding \in [Requests -> Request]
    BY DEF RelInv, RelTypeOK
  <2>2. adding' = [adding EXCEPT ![q] = [at |-> "ensure", root |-> r, walk |-> Walk(0, <<name>>)]]
    BY DEF AddFolder
  <2> QED BY <1>1, <2>1, <2>2 DEF PlaceInv, RequestWalks, Walk, Container
<1> QED BY <1>2, <1>3, <1>4 DEF PlaceInv

\* A walk of one name from My Drive ends in a container.
ContainerThen(f) == f \in DOMAIN dirs' /\ dirs'[f].parent = 0 /\ dirs'[f].name # TrashFolderName

LEMMA EnsureContainerPlace ==
    ASSUME RelInv, PlaceInv, RelInv', NEW q \in Requests, EnsureContainer(q) PROVE PlaceInv'
<1> DEFINE walk == adding[q].walk
<1>1. /\ adding[q].at = "ensure" /\ walk.rest # <<>> /\ adding[q] \in Request /\ walk \in WalkState
      /\ UNCHANGED <<objs, targets, rows, task, pass>> /\ adding \in [Requests -> Request]
  BY DEF EnsureContainer, folderVars, RelInv, RelTypeOK, Request
<1>2. PICK n \in Names : walk.rest = <<n>> /\ walk.folder = 0
  BY <1>1 DEF PlaceInv, RequestWalks
<1>3. n # TrashFolderName /\ Head(walk.rest) = n /\ Tail(walk.rest) = <<>>
  BY <1>2
<1>4. /\ TreeInv' /\ Grows(dirs, dirs')
      /\ \E w \in WalkState : /\ adding' = [adding EXCEPT ![q].walk = w]
                             /\ \/ /\ w.folder = 0 /\ w.rest = <<n>>
                                \/ /\ w.rest = <<>> /\ ContainerThen(w.folder)
  <2>1. CASE ~walk.absent
    <3>1. dirs' = dirs
      BY <2>1 DEF EnsureContainer
    <3>2. PICK w \in Search(dirs, walk) : adding' = [adding EXCEPT ![q].walk = w]
      BY <2>1 DEF EnsureContainer
    <3>3. w = [walk EXCEPT !.absent = TRUE] \/ \E f \in Named(dirs, 0, n) : w = Walk(f, <<>>)
      BY <1>2, <1>3 DEF Search
    <3>4. w \in WalkState
      BY <1>1, <3>3, WalkTypes DEF RelInv, RelTypeOK, DriveType
    <3>5. CASE w = [walk EXCEPT !.absent = TRUE]
      <4>1. w.folder = 0 /\ w.rest = <<n>>
        BY <1>1, <1>2, <3>5 DEF WalkState
      <4> QED BY <3>1, <3>2, <3>4, <4>1 DEF Grows, PlaceInv, DriveInv, TreeInv, TankName
    <3>6. CASE \E f \in Named(dirs, 0, n) : w = Walk(f, <<>>)
      <4>1. w.rest = <<>> /\ Container(w.folder)
        BY <1>3, <3>6 DEF Named, Walk, Container
      <4> QED BY <3>1, <3>2, <3>4, <4>1 DEF Grows, PlaceInv, DriveInv, TreeInv, TankName, Container, ContainerThen
    <3> QED BY <3>3, <3>5, <3>6
  <2>2. CASE walk.absent
    <3>1. dirs' = Created(dirs, walk) /\ adding' = [adding EXCEPT ![q].walk = AfterCreate(dirs, walk)]
      BY <2>2 DEF EnsureContainer
    <3>2. /\ TreeInv' /\ Grows(dirs, dirs') /\ Len(dirs) + 1 \in DOMAIN dirs'
          /\ dirs'[Len(dirs) + 1] = [parent |-> 0, name |-> n]
      BY <1>1, <1>2, <1>3, <3>1, TreeGrows DEF PlaceInv, DriveInv
    <3>3. AfterCreate(dirs, walk) \in WalkState
      BY <1>1, WalkTypes DEF RelInv, RelTypeOK, DriveType
    <3>4. AfterCreate(dirs, walk).rest = <<>> /\ AfterCreate(dirs, walk).folder = Len(dirs) + 1
      BY <1>3 DEF AfterCreate, Walk
    <3>5. ContainerThen(AfterCreate(dirs, walk).folder)
      BY <1>3, <3>2, <3>4 DEF ContainerThen
    <3> QED BY <3>1, <3>2, <3>3, <3>4, <3>5
  <2> QED BY <2>1, <2>2
<1>5. /\ DriveInv' /\ \A t \in DOMAIN targets : Steady(t) /\ Live(t)' = Live(t)
  BY <1>1, <1>4, SteadyFolders DEF PlaceInv
<1>6. RowInv' /\ TasksOK'
  BY <1>1, <1>5, RowsStay, TasksStay DEF Grows
<1>7. RequestWalks'
  <2>1. PICK w \in WalkState : /\ adding' = [adding EXCEPT ![q].walk = w]
                             /\ \/ /\ w.folder = 0 /\ w.rest = <<n>>
                                \/ /\ w.rest = <<>> /\ ContainerThen(w.folder)
    BY <1>4
  <2>2. adding'[q].at = "ensure" /\ adding'[q].walk = w
    BY <1>1, <2>1 DEF Request
  <2>3. \A k \in Requests \ {q} : adding'[k] = adding[k]
    BY <1>1, <2>1
  <2>4. \A f : Container(f) => ContainerThen(f)
    BY <1>4 DEF Container, ContainerThen, Grows
  <2> SUFFICES ASSUME NEW k \in Requests
               PROVE  /\ adding'[k].at = "ensure" =>
                            \/ /\ adding'[k].walk.folder = 0 /\ \E m \in Names : adding'[k].walk.rest = <<m>>
                            \/ /\ adding'[k].walk.rest = <<>> /\ ContainerThen(adding'[k].walk.folder)
                      /\ adding'[k].at = "listed" => ContainerThen(adding'[k].walk.folder)
    BY DEF RequestWalks, Container, ContainerThen
  <2>5. CASE k = q
    BY <2>1, <2>2, <2>5
  <2>6. CASE k # q
    BY <2>3, <2>4, <2>6 DEF PlaceInv, RequestWalks
  <2> QED BY <2>5, <2>6
<1> QED BY <1>5, <1>6, <1>7 DEF PlaceInv

LEMMA ListFolderPlace ==
    ASSUME RelInv, PlaceInv, NEW q \in Requests, ListFolder(q) PROVE PlaceInv'
<1>1. UNCHANGED <<dirs, objs, targets, rows, task, pass>>
  BY DEF ListFolder, driveVars
<1>2. /\ DriveInv' /\ \A t \in DOMAIN targets : Steady(t) /\ Live(t)' = Live(t)
      /\ Grows(targets, targets')
  BY <1>1, SteadyDrive DEF PlaceInv
<1>3. RowInv' /\ TasksOK'
  BY <1>1, <1>2, RowsStay, TasksStay
<1>4. RequestWalks'
  <2>1. adding \in [Requests -> Request] /\ adding[q].at = "ensure" /\ adding[q].walk.rest = <<>>
    BY DEF ListFolder, RelInv, RelTypeOK
  <2>2. Container(adding[q].walk.folder)
    <3>1. \A n : <<n>> # <<>>
      OBVIOUS
    <3> QED BY <2>1, <3>1 DEF PlaceInv, RequestWalks
  <2>3. adding' = [adding EXCEPT ![q].at = "listed"] /\ dirs' = dirs
    BY <1>1 DEF ListFolder
  <2>4. adding'[q].walk = adding[q].walk /\ adding'[q].at = "listed" /\ \A k \in Requests \ {q} : adding'[k] = adding[k]
    BY <2>1, <2>3 DEF Request
  <2> QED BY <2>1, <2>2, <2>3, <2>4 DEF PlaceInv, RequestWalks, Container
<1> QED BY <1>2, <1>3, <1>4 DEF PlaceInv

\* A relation in a container that has others shares their objects, and one in
\* a container of its own has none.
LEMMA AddTargetPlace ==
    ASSUME RelInv, PlaceInv, RelInv', NEW q \in Requests, AddTarget(q) PROVE PlaceInv'
<1> DEFINE c == adding[q].walk.folder
           new == [root |-> adding[q].root, container |-> c]
           n == Len(targets) + 1
<1>1. UNCHANGED <<dirs, objs, rows, task, pass>> /\ adding' = [adding EXCEPT ![q] = Answered]
  BY DEF AddTarget, driveVars
<1>2. RequestWalks'
  BY <1>1, AnsweredType DEF PlaceInv, RequestWalks, Container, RelInv, RelTypeOK
<1>3. CASE UNCHANGED targets
  <2>1. /\ DriveInv' /\ \A t \in DOMAIN targets : Steady(t) /\ Live(t)' = Live(t)
        /\ Grows(targets, targets')
    BY <1>1, <1>3, SteadyDrive DEF PlaceInv
  <2> QED BY <1>1, <1>2, <1>3, <2>1, RowsStay, TasksStay DEF PlaceInv
<1>4. CASE targets' = Append(targets, new)
  <2>1. targets \in Seq(Target) /\ dirs \in Seq(Folder) /\ Tree(dirs) /\ adding[q].root \in Roots
    BY DEF AddTarget, RelInv, RelTypeOK, FoldersType, DriveType, HandlersInv, PlaceInv, DriveInv, TreeInv
  <2>2. Container(c)
    BY DEF AddTarget, PlaceInv, RequestWalks
  <2>3. new \in Target /\ new.container = c
    BY <2>1, <2>2 DEF Target, Container
  <2>4. /\ DOMAIN targets' = DOMAIN targets \cup {n} /\ \A i \in DOMAIN targets : targets'[i] = targets[i]
        /\ targets'[n].container = c
    BY <1>4, <2>1, <2>3, Appended
  <2>5. \A t \in DOMAIN targets : Chain(t)' = Chain(t) /\ Within(t)' = Within(t) /\ Live(t)' = Live(t)
    BY <1>1, <2>4 DEF Chain, Within, Live, TankName
  <2>6. \A t \in DOMAIN targets : Steady(t)
    BY <1>1, <2>5 DEF Steady, TankName
  <2>7. TreeInv' /\ ContainersInv' /\ ObjectsInv'
    BY <1>1, <2>2, <2>4, <2>5 DEF PlaceInv, DriveInv, TreeInv, TankName, ContainersInv, Container, ObjectsInv
  <2>8. LiveUnique'
    <3> SUFFICES ASSUME NEW t \in DOMAIN targets', NEW o1 \in Live(t)', NEW o2 \in Live(t)',
                        objs[o1].path = objs[o2].path
                 PROVE  o1 = o2
      BY <1>1 DEF LiveUnique
    <3>1. CASE t \in DOMAIN targets
      BY <2>5, <3>1 DEF PlaceInv, DriveInv, LiveUnique
    <3>2. CASE t = n
      <4>1. \A o \in Live(t)' : /\ o \in DOMAIN objs /\ objs[o].folder \in Descendants(dirs, c)
                               /\ ~TankName(objs[o].folder)
        BY <1>1, <2>4, <3>2 DEF Live, Within, TankName
      <4>2. PICK u \in DOMAIN targets : o1 \in Within(u)
        BY <4>1 DEF PlaceInv, DriveInv, ObjectsInv
      <4>3. /\ objs[o1].folder \in Chain(u) /\ targets[u].container \in DOMAIN dirs
            /\ dirs[targets[u].container].parent = 0
        BY <4>2, Places DEF PlaceInv, DriveInv, ContainersInv, Container
      <4>4. targets[u].container = c
        BY <2>1, <2>2, <4>1, <4>3, DescendantsApart DEF Chain, Container
      <4>5. Live(t)' \subseteq Live(u)
        BY <4>1, <4>4 DEF Live, Within
      <4> QED BY <4>5 DEF PlaceInv, DriveInv, LiveUnique
    <3> QED BY <2>4, <3>1, <3>2
  <2>9. RowInv'
    BY <1>1, <2>4, <2>6, RowsStay DEF Grows
  <2>10. TasksOK'
    <3> SUFFICES ASSUME NEW p \in Paths, task[p] # Nil PROVE TaskOK(p)'
      BY <1>1 DEF TasksOK, TaskOK
    <3>1. pass.target \in DOMAIN targets
      BY DEF RelInv, TaskInv
    <3> QED BY <1>1, <2>5, <2>6, <3>1, TaskStays
  <2> QED BY <1>2, <2>7, <2>8, <2>9, <2>10 DEF PlaceInv, DriveInv
<1> QED BY <1>3, <1>4 DEF AddTarget
-----------------------------------------------------------------------------
(* The rest of the environment, and the head and the end of a pass.         *)

LEMMA OtherPlace ==
    ASSUME RelInv, PlaceInv,
           AdminStep \/ BeginPass \/ EndPass \/ EndChain \/ UserStep \/ UNCHANGED vars
    PROVE  PlaceInv'
<1>1. CASE AdminStep
  BY <1>1, PlaceStays DEF AdminStep, SetPaused, RemoveFolder, Administer, driveVars
<1>2. ASSUME BeginPass \/ EndPass \/ EndChain PROVE PlaceInv'
  <2>1. \A p \in Paths : task'[p] = Nil
    BY <1>2 DEF BeginPass, EndPass, EndChain, RelInv, TaskInv, NoTasks
  <2> QED BY <1>2, <2>1, PlaceStays DEF BeginPass, EndPass, EndChain, UnchangedByPass, driveVars, folderVars
<1>3. CASE UserStep
  BY <1>3, PlaceStays DEF UserStep, UserEdit, driveVars, folderVars
<1>4. CASE UNCHANGED vars
  BY <1>4, PlaceStays DEF vars, driveVars, folderVars
<1> QED BY <1>1, <1>2, <1>3, <1>4

LEMMA CrashPlace == ASSUME RelInv, PlaceInv, Crash PROVE PlaceInv'
<1>1. UNCHANGED <<dirs, objs, targets, rows>> /\ \A p \in Paths : task'[p] = Nil
  BY DEF Crash, driveVars, folderVars, NoTasks
<1>2. /\ DriveInv' /\ \A t \in DOMAIN targets : Steady(t) /\ Live(t)' = Live(t)
      /\ Grows(targets, targets')
  BY <1>1, SteadyDrive DEF PlaceInv
<1>3. RowInv' /\ TasksOK'
  BY <1>1, <1>2, RowsStay, NoTasksLeft
<1>4. RequestWalks'
  BY AnsweredType DEF Crash, RequestWalks
<1> QED BY <1>2, <1>3, <1>4 DEF PlaceInv

-----------------------------------------------------------------------------
(* The tasks of a chain.  No local directory has the name of the tank: what  *)
(* is uploaded into one of that name no listing ever finds again.           *)
NoTankDirs == \A p \in Paths : DirOf[p] \in Seq(Names)

\* pickRemote finds no object only where there is none.
LEMMA PickIs ==
    ASSUME NEW cands \in SUBSET Nat, NEW id, NEW o \in pickRemote(cands, id)
    PROVE  (o # Nil => o \in cands) /\ (o = Nil => cands = {})
  BY DEF pickRemote

LEMMA NewTaskIs ==
    ASSUME NEW t, NEW p \in Paths, NEW o, NewTask(t, p, o) # Nil
    PROVE  LET x == NewTask(t, p, o) IN
           /\ x.obj = o /\ x.walk.folder = targets[t].container
           /\ x.act = "TRASH" => x.step = "meta" /\ x.walk.rest = <<TrashFolderName>>
           /\ x.act = "ADOPT" => x.step = "record" /\ x.walk.rest = <<>> /\ o # Nil
           /\ x.act \notin {"TRASH", "ADOPT"} => x.step = "ensure" /\ x.walk.rest = DirOf[p]
<1> DEFINE act == Action(t, p, o)
           home == targets[t].container
           New(step, walk) == [act |-> act, obj |-> o, md5 |-> RemoteMD5(o), step |-> step, walk |-> walk]
           x == NewTask(t, p, o)
<1>1. act = "ADOPT" => o # Nil
  BY MergeActs DEF Action
<1> HIDE DEF act
<1>2. act # "NONE"
  BY DEF NewTask, act
<1>3. /\ act = "ADOPT" => x = New("record", Walk(home, <<>>))
      /\ act = "TRASH" => x = New("meta", Walk(home, <<TrashFolderName>>))
      /\ act \notin {"TRASH", "ADOPT"} => x = New("ensure", Walk(home, DirOf[p]))
  BY <1>2 DEF NewTask, act
<1> DEFINE Goal(y) ==
               /\ y.obj = o /\ y.walk.folder = home
               /\ y.act = "TRASH" => y.step = "meta" /\ y.walk.rest = <<TrashFolderName>>
               /\ y.act = "ADOPT" => y.step = "record" /\ y.walk.rest = <<>> /\ o # Nil
               /\ y.act \notin {"TRASH", "ADOPT"} => y.step = "ensure" /\ y.walk.rest = DirOf[p]
<1>4. ASSUME act = "ADOPT" PROVE Goal(New("record", Walk(home, <<>>)))
  BY <1>1, <1>4 DEF Walk
<1>5. ASSUME act = "TRASH" PROVE Goal(New("meta", Walk(home, <<TrashFolderName>>)))
  BY <1>5 DEF Walk
<1>6. ASSUME act \notin {"TRASH", "ADOPT"} PROVE Goal(New("ensure", Walk(home, DirOf[p])))
  BY <1>6 DEF Walk
<1> HIDE DEF New, Goal
<1>7. Goal(x)
  BY <1>3, <1>4, <1>5, <1>6
<1> QED BY <1>7 DEF Goal

LEMMA SyncChainPlace == ASSUME RelInv, PlaceInv, NoTankDirs, SyncChain PROVE PlaceInv'
<1>1. UNCHANGED <<dirs, objs, targets, rows, adding>>
  BY DEF SyncChain, UnchangedByPass, driveVars, folderVars
<1>2. /\ DriveInv' /\ \A t \in DOMAIN targets : Steady(t) /\ Live(t)' = Live(t)
      /\ Grows(targets, targets') /\ Grows(dirs, dirs')
  BY <1>1, SteadyDrive DEF PlaceInv
<1>3. RowInv' /\ RequestWalks'
  BY <1>1, <1>2, RowsStay, RequestsStay DEF PlaceInv
<1>4. PICK t \in pass.todo : \E pick \in [Paths -> DOMAIN objs \cup {Nil}] :
            /\ \A p \in Paths : pick[p] \in pickRemote(Candidates(t, p), RemoteIDOf(LiveRow(t, p)))
            /\ task' = [p \in Paths |-> NewTask(t, p, pick[p])] /\ pass'.target = t
  <2>1. PICK t \in pass.todo :
            /\ \E pick \in [Paths -> DOMAIN objs \cup {Nil}] :
                  /\ \A p \in Paths : pick[p] \in pickRemote(Candidates(t, p), RemoteIDOf(LiveRow(t, p)))
                  /\ task' = [p \in Paths |-> NewTask(t, p, pick[p])]
            /\ pass' = [at |-> IF task' = NoTasks THEN "next" ELSE "exec",
                        todo |-> pass.todo \ {t}, target |-> t]
    BY DEF SyncChain
  <2>2. pass'.target = t
    BY <2>1
  <2> QED BY <2>1, <2>2
<1>5. PICK pick \in [Paths -> DOMAIN objs \cup {Nil}] :
            /\ \A p \in Paths : pick[p] \in pickRemote(Candidates(t, p), RemoteIDOf(LiveRow(t, p)))
            /\ task' = [p \in Paths |-> NewTask(t, p, pick[p])] /\ pass'.target = t
  BY <1>4
<1>6. t \in DOMAIN targets
  BY DEF RelInv, RelTypeOK, PassType
<1>7. TasksOK'
  <2> SUFFICES ASSUME NEW p \in Paths, task'[p] # Nil PROVE WalkOK(p)' /\ UploadOK(p)' /\ TrashOK(p)'
    BY DEF TasksOK, TaskOK
  <2> DEFINE o == pick[p]
             x == NewTask(t, p, o)
             home == targets[t].container
  <2>1. task'[p] = x /\ x # Nil
    BY <1>5
  <2>2. /\ x.obj = o /\ x.walk.folder = home
        /\ x.act = "TRASH" => x.step = "meta" /\ x.walk.rest = <<TrashFolderName>>
        /\ x.act = "ADOPT" => x.step = "record" /\ x.walk.rest = <<>> /\ o # Nil
        /\ x.act \notin {"TRASH", "ADOPT"} => x.step = "ensure" /\ x.walk.rest = DirOf[p]
    BY <2>1, NewTaskIs
  <2>3. /\ o # Nil => o \in Candidates(t, p)
        /\ o = Nil => Candidates(t, p) = {}
    <3>1. Candidates(t, p) \in SUBSET Nat
      BY DEF Candidates, Listing, RelInv, RelTypeOK, DriveType
    <3> QED BY <1>5, <3>1, PickIs
  <2>4. /\ home \in Chain(t) /\ Live(t) \subseteq Listing(t) /\ Listing(t) \subseteq Within(t)
        /\ ~TankName(home)
    BY <1>6, Places DEF PlaceInv, DriveInv, ContainersInv, Container, TankName
  <2>5. /\ o # Nil => o \in Within(t)
        /\ o = Nil => \A l \in Live(t) : objs[l].path # p
    BY <2>3, <2>4 DEF Candidates
  <2> HIDE DEF x, o, home
  <2>6. Plain(<<>>) /\ Plain(DirOf[p])
    BY DEF Plain, NoTankDirs
  <2>7. Chain(pass.target)' = Chain(t) /\ Within(pass.target)' = Within(t) /\ Live(pass.target)' = Live(t)
        /\ TankName(home)' = TankName(home)
    <3>1. pass'.target = t
      BY <1>5
    <3> QED BY <1>1, <3>1 DEF Chain, Within, Live, TankName, home
  <2>8. WalkOK(p)'
    <3>1. task'[p].walk.folder \in Chain(pass.target)'
      BY <2>1, <2>2, <2>4, <2>7
    <3>2. task'[p].act # "TRASH" => dirs'[task'[p].walk.folder].name # TrashFolderName /\ Plain(task'[p].walk.rest)
      BY <1>1, <2>1, <2>2, <2>4, <2>6 DEF TankName
    <3>3. task'[p].act = "TRASH" => /\ task'[p].walk.rest = <<TrashFolderName>>
                                   /\ dirs'[task'[p].walk.folder].name # TrashFolderName
      BY <1>1, <2>1, <2>2, <2>4 DEF TankName
    <3> QED BY <3>1, <3>2, <3>3 DEF WalkOK, TankName, Plain
  <2>9. UploadOK(p)'
    BY <1>1, <2>1, <2>2, <2>5, <2>7 DEF UploadOK
  <2>10. TrashOK(p)'
    BY <2>1, <2>2 DEF TrashOK
  <2> QED BY <2>8, <2>9, <2>10
<1> QED BY <1>2, <1>3, <1>7 DEF PlaceInv

-----------------------------------------------------------------------------
(* The steps of a task.                                                     *)

LEMMA TaskIs ==
    ASSUME RelInv, PlaceInv, NEW p \in Paths, NEW step, TaskAt(p, step)
    PROVE  /\ task[p] # Nil /\ task[p].step = step /\ task[p] \in TaskState /\ pass.target \in DOMAIN targets
           /\ task \in [Paths -> TaskState \cup {Nil}]
           /\ WalkOK(p) /\ UploadOK(p) /\ TrashOK(p)
           /\ UNCHANGED <<targets, adding, pass>>
  BY DEF TaskAt, RelInv, RelTypeOK, TaskInv, PlaceInv, TasksOK, TaskOK, UnchangedByPass, folderVars

\* The other tasks.
LEMMA OtherTasks ==
    ASSUME RelInv, PlaceInv, NEW p \in Paths, NEW step, TaskAt(p, step),
           NEW new, task' = [task EXCEPT ![p] = new],
           Steady(pass.target),
           \A l \in Live(pass.target)' : objs'[l].path # p => l \in Live(pass.target) /\ objs'[l].path = objs[l].path,
           \A row \in rows' : row.path # p => row \in rows,
           TaskOK(p)'
    PROVE  TasksOK'
<1>1. pass.target \in DOMAIN targets /\ UNCHANGED pass /\ task \in [Paths -> TaskState \cup {Nil}]
  BY TaskIs
<1>2. ASSUME NEW q \in Paths, q # p PROVE TaskOK(q)'
  <2>1. task'[q] = task[q]
    BY <1>1, <1>2
  <2>2. PICK t \in DOMAIN targets : t = pass.target /\ t = pass'.target
    BY <1>1
  <2>3. Live(t)' = Live(pass.target)'
    BY <2>2 DEF Live, Within
  <2>4. Steady(t)
    BY <2>2 DEF Steady, Chain, Within
  <2>5. \A l \in Live(t)' : objs'[l].path = q => l \in Live(t) /\ objs[l].path = q
    BY <1>2, <2>2, <2>3
  <2>6. \A row \in rows' : row.rel = t /\ row.path = q => row \in rows
    BY <1>2
  <2> QED BY <2>1, <2>2, <2>4, <2>5, <2>6, TaskStays
<1> QED BY <1>2 DEF TasksOK

\* One row a key, and it is the row that trash works on.
LEMMA TrashMetaPlace == ASSUME RelInv, PlaceInv, NEW p \in Paths, TrashMeta(p) PROVE PlaceInv'
<1>1. TaskAt(p, "meta") /\ UNCHANGED <<dirs, objs, rows>>
  BY DEF TrashMeta, driveVars
<1>2. /\ task[p] # Nil /\ task[p].step = "meta" /\ task[p] \in TaskState /\ pass.target \in DOMAIN targets
      /\ task \in [Paths -> TaskState \cup {Nil}]
      /\ WalkOK(p) /\ UploadOK(p) /\ TrashOK(p)
      /\ UNCHANGED <<targets, adding, pass>>
  BY <1>1, TaskIs
<1>3. /\ DriveInv' /\ \A t \in DOMAIN targets : Steady(t) /\ Live(t)' = Live(t)
      /\ Grows(targets, targets') /\ Grows(dirs, dirs')
  BY <1>1, <1>2, SteadyDrive DEF PlaceInv
<1>4. RowInv' /\ RequestWalks'
  BY <1>1, <1>2, <1>3, RowsStay, RequestsStay DEF PlaceInv
<1>5. Live(pass.target)' = Live(pass.target)
  BY <1>1, <1>2 DEF Live, Within, TankName
<1>6. CASE task' = [task EXCEPT ![p] = Nil]
  <2>1. TaskOK(p)'
    BY <1>2, <1>6 DEF TaskOK
  <2> QED BY <1>1, <1>2, <1>3, <1>4, <1>5, <1>6, <2>1, OtherTasks DEF PlaceInv
<1>7. ASSUME NEW row \in RowsAt(pass.target, p),
             task' = [task EXCEPT ![p] = [@ EXCEPT !.obj = row.remoteID, !.step = "ensure"]]
      PROVE  PlaceInv'
  <2> DEFINE new == [task[p] EXCEPT !.obj = row.remoteID, !.step = "ensure"]
  <2>1. /\ new.act = task[p].act /\ new.walk = task[p].walk /\ new.obj = row.remoteID /\ new.step = "ensure"
    BY <1>2 DEF TaskState
  <2>2. task' = [task EXCEPT ![p] = new] /\ task'[p] = new
    BY <1>2, <1>7
  <2>3. task[p].act = "TRASH"
    BY <1>2 DEF UploadOK
  <2>4. /\ row.remoteID \in Within(pass.target)
        /\ \A r \in RowsAt(pass.target, p) : r.remoteID = row.remoteID
    BY DEF RowsAt, PlaceInv, RowInv, RowsPointHome, OneRowPerKey
  <2> HIDE DEF new
  <2>5. WalkOK(p)'
    BY <1>1, <1>2, <2>1, <2>2 DEF WalkOK, Chain, TankName
  <2>6. UploadOK(p)' /\ TrashOK(p)'
    BY <1>1, <1>2, <2>1, <2>2, <2>3, <2>4 DEF UploadOK, TrashOK, RowsAt, Within
  <2>7. TaskOK(p)'
    BY <2>5, <2>6 DEF TaskOK
  <2> QED BY <1>1, <1>2, <1>3, <1>4, <1>5, <2>2, <2>7, OtherTasks DEF PlaceInv
<1> QED BY <1>6, <1>7 DEF TrashMeta, Done

LEMMA EnsureFolderPlace == ASSUME RelInv, PlaceInv, RelInv', NEW p \in Paths, EnsureFolder(p) PROVE PlaceInv'
<1> DEFINE walk == task[p].walk
           trashing == task[p].act = "TRASH"
           t == pass.target
<1>1. TaskAt(p, "ensure") /\ UNCHANGED <<objs, rows>> /\ walk.rest # <<>>
  BY DEF EnsureFolder
<1>2. /\ task[p] # Nil /\ task[p].step = "ensure" /\ task[p] \in TaskState /\ pass.target \in DOMAIN targets
      /\ task \in [Paths -> TaskState \cup {Nil}]
      /\ WalkOK(p) /\ UploadOK(p) /\ TrashOK(p)
      /\ UNCHANGED <<targets, adding, pass>>
  BY <1>1, TaskIs
<1>3. /\ dirs \in Seq(Folder) /\ Chain(t) \subseteq DOMAIN dirs
      /\ \A f \in DOMAIN dirs : dirs[f].parent \in Chain(t) => f \in Chain(t)
      /\ targets[t].container \in DOMAIN dirs
  BY <1>2, Places DEF PlaceInv, DriveInv
<1>4. walk \in WalkState /\ Head(walk.rest) \in AllNames /\ Tail(walk.rest) \in Seq(AllNames)
  BY <1>1, <1>2 DEF TaskState, WalkState
<1>5. /\ walk.folder \in Chain(t) /\ walk.folder \in DOMAIN dirs /\ ~TankName(walk.folder)
      /\ trashing => Head(walk.rest) = TrashFolderName /\ Tail(walk.rest) = <<>>
      /\ ~trashing => Head(walk.rest) # TrashFolderName /\ Plain(Tail(walk.rest))
  <2>1. walk.folder \in Chain(t) /\ walk.folder \in DOMAIN dirs /\ ~TankName(walk.folder)
    BY <1>1, <1>2, <1>3 DEF WalkOK
  <2>2. trashing => walk.rest = <<TrashFolderName>>
    BY <1>1, <1>2 DEF WalkOK
  <2>3. trashing => Head(walk.rest) = TrashFolderName /\ Tail(walk.rest) = <<>>
    <3>1. \A x : Head(<<x>>) = x /\ Tail(<<x>>) = <<>>
      OBVIOUS
    <3> HIDE DEF walk
    <3> QED BY <2>2, <3>1
  <2>4. ASSUME ~trashing PROVE Head(walk.rest) # TrashFolderName /\ Plain(Tail(walk.rest))
    <3>1. Plain(walk.rest) /\ walk.rest \in Seq(AllNames)
      BY <1>2, <1>4, <2>4 DEF WalkOK, WalkState
    <3>2. Head(walk.rest) = walk.rest[1] /\ 1 \in DOMAIN walk.rest
      BY <1>1, <3>1
    <3>3. \A i \in DOMAIN Tail(walk.rest) : i + 1 \in DOMAIN walk.rest /\ Tail(walk.rest)[i] = walk.rest[i + 1]
      BY <1>1, <3>1
    <3> QED BY <3>1, <3>2, <3>3 DEF Plain
  <2> HIDE DEF walk, trashing
  <2> QED BY <2>1, <2>3, <2>4
\* Where the walk is after the step.
<1> DEFINE Then(w) == /\ w.folder \in DOMAIN dirs' /\ w.folder \in Chain(t)'
                      /\ ~trashing => dirs'[w.folder].name # TrashFolderName /\ Plain(w.rest)
                      /\ trashing => \/ /\ w.rest = <<TrashFolderName>> /\ dirs'[w.folder].name # TrashFolderName
                                     \/ /\ w.rest = <<>> /\ dirs'[w.folder].name = TrashFolderName
<1>6. /\ TreeInv' /\ Grows(dirs, dirs')
      /\ \E w \in WalkState : task' = [task EXCEPT ![p] = [@ EXCEPT !.walk = w]] /\ Then(w)
  <2>1. CASE ~walk.absent
    <3>1. dirs' = dirs /\ Chain(t)' = Chain(t)
      BY <1>2, <2>1 DEF EnsureFolder, Chain
    <3>2. PICK w \in Search(dirs, walk) : task' = [task EXCEPT ![p] = [@ EXCEPT !.walk = w]]
      BY <2>1 DEF EnsureFolder
    <3>3. w \in WalkState
      BY <1>1, <1>3, <1>4, WalkTypes
    <3>4. w = [walk EXCEPT !.absent = TRUE]
          \/ \E f \in Named(dirs, walk.folder, Head(walk.rest)) : w = Walk(f, Tail(walk.rest))
      BY DEF Search
    <3>5. ASSUME w = [walk EXCEPT !.absent = TRUE] PROVE Then(w)
      <4>1. w.folder = walk.folder /\ w.rest = walk.rest
        BY <1>4, <3>5 DEF WalkState
      <4> QED BY <1>2, <1>5, <3>1, <4>1 DEF WalkOK, TankName
    <3>6. ASSUME NEW f \in Named(dirs, walk.folder, Head(walk.rest)), w = Walk(f, Tail(walk.rest)) PROVE Then(w)
      <4>1. w.folder = f /\ w.rest = Tail(walk.rest)
        BY <3>6 DEF Walk
      <4>2. f \in DOMAIN dirs /\ dirs[f].parent = walk.folder /\ dirs[f].name = Head(walk.rest)
        BY DEF Named
      <4>3. f \in Chain(t)
        BY <1>3, <1>5, <4>2
      <4> QED BY <1>5, <3>1, <4>1, <4>2, <4>3
    <3>7. TreeInv' /\ Grows(dirs, dirs')
      BY <3>1 DEF Grows, PlaceInv, DriveInv, TreeInv, TankName
    <3> HIDE DEF Then
    <3> QED BY <3>2, <3>3, <3>4, <3>5, <3>6, <3>7
  <2>2. CASE walk.absent
    <3> DEFINE w == AfterCreate(dirs, walk)
               n == Len(dirs) + 1
    <3>1. dirs' = Created(dirs, walk) /\ task' = [task EXCEPT ![p] = [@ EXCEPT !.walk = w]]
      BY <2>2 DEF EnsureFolder
    <3>2. /\ TreeInv' /\ Grows(dirs, dirs') /\ n \in DOMAIN dirs'
          /\ dirs'[n] = [parent |-> walk.folder, name |-> Head(walk.rest)]
      BY <1>1, <1>4, <1>5, <3>1, TreeGrows DEF PlaceInv, DriveInv
    <3>3. w \in WalkState /\ w.folder = n /\ w.rest = Tail(walk.rest)
      BY <1>1, <1>3, <1>4, WalkTypes DEF AfterCreate, Walk
    <3>4. n \in Chain(t)'
      <4>1. /\ dirs' \in Seq(Folder) /\ Tree(dirs') /\ targets[t].container \in DOMAIN dirs'
        BY <1>3, <3>2 DEF RelInv, RelTypeOK, DriveType, TreeInv, Grows
      <4>2. dirs'[n].parent \in Descendants(dirs', targets[t].container) => n \in Descendants(dirs', targets[t].container)
        BY <3>2, <4>1, DescendantsRule
      <4>3. walk.folder \in Descendants(dirs', targets[t].container)
        BY <1>2, <1>5, <3>2, <1>1, PlacesKept DEF PlaceInv, Chain
      <4> QED BY <1>2, <3>2, <4>2, <4>3 DEF Chain
    <3> HIDE DEF w, n
    <3>5. Then(w)
      BY <1>5, <3>2, <3>3, <3>4
    <3> HIDE DEF Then
    <3> QED BY <3>1, <3>2, <3>3, <3>5
  <2> QED BY <2>1, <2>2
<1>7. DriveInv' /\ \A u \in DOMAIN targets : Steady(u) /\ Live(u)' = Live(u)
  BY <1>1, <1>2, <1>6, SteadyFolders DEF PlaceInv
<1>8. RowInv' /\ RequestWalks'
  BY <1>1, <1>2, <1>6, <1>7, RowsStay, RequestsStay DEF PlaceInv, Grows
<1>9. PICK w \in WalkState : task' = [task EXCEPT ![p] = [@ EXCEPT !.walk = w]] /\ Then(w)
  BY <1>6
<1> DEFINE new == [task[p] EXCEPT !.walk = w]
<1>10. /\ new.act = task[p].act /\ new.walk = w /\ new.obj = task[p].obj /\ new.step = "ensure"
       /\ task' = [task EXCEPT ![p] = new] /\ task'[p] = new
  BY <1>2, <1>9 DEF TaskState
<1> HIDE DEF new
<1>11. WalkOK(p)'
  BY <1>2, <1>9, <1>10 DEF WalkOK, Chain, TankName, Plain
<1>12. /\ Live(pass.target)' = Live(pass.target) /\ Steady(pass.target)
       /\ \A o \in Within(pass.target) : o \in Within(pass.target)'
  <2>1. PICK u \in DOMAIN targets : u = pass.target /\ u = pass'.target
    BY <1>2
  <2>2. Live(u)' = Live(u) /\ Steady(u)
    BY <1>7
  <2>3. Live(u)' = Live(pass.target)' /\ Within(u)' = Within(pass.target)'
    BY <2>1 DEF Live, Within
  <2> QED BY <2>1, <2>2, <2>3 DEF Steady
<1>13. UploadOK(p)' /\ TrashOK(p)'
  BY <1>1, <1>2, <1>10, <1>12 DEF UploadOK, TrashOK, RowsAt
<1>14. TaskOK(p)'
  BY <1>11, <1>13 DEF TaskOK
<1>15. TasksOK'
  BY <1>1, <1>10, <1>12, <1>14, OtherTasks
<1> QED BY <1>7, <1>8, <1>15 DEF PlaceInv

\* Objects keep their places when only contents change.
LEMMA ContentChanges ==
    ASSUME DriveInv, UNCHANGED <<dirs, targets>>, DOMAIN objs' = DOMAIN objs,
           \A o \in DOMAIN objs : objs'[o].folder = objs[o].folder /\ objs'[o].path = objs[o].path
    PROVE  DriveInv' /\ \A t \in DOMAIN targets : Steady(t) /\ Within(t)' = Within(t) /\ Live(t)' = Live(t)
<1>1. TreeInv' /\ ContainersInv'
  BY DEF DriveInv, TreeInv, TankName, ContainersInv, Container
<1>2. \A t \in DOMAIN targets : Chain(t)' = Chain(t) /\ Within(t)' = Within(t) /\ Live(t)' = Live(t)
  BY DEF Chain, Within, Live, TankName
<1>3. \A t \in DOMAIN targets : Steady(t)
  BY <1>2 DEF Steady, TankName, Within
<1>4. ObjectsInv' /\ LiveUnique'
  BY <1>2 DEF DriveInv, ObjectsInv, LiveUnique, Live, Within
<1> QED BY <1>1, <1>2, <1>3, <1>4 DEF DriveInv

\* A new object where the listing had none of its path.
LEMMA NewObject ==
    ASSUME RelInv, DriveInv, UNCHANGED <<dirs, targets>>, NEW t \in DOMAIN targets,
           NEW new \in Object, objs' = Append(objs, new),
           new.folder \in Chain(t), \A l \in Live(t) : objs[l].path # new.path
    PROVE  /\ DriveInv' /\ \A u \in DOMAIN targets : Steady(u)
           /\ Len(objs) + 1 \in Within(t)' /\ Len(objs) + 1 \in Nat
           /\ \A l \in Live(t)' : objs'[l].path # new.path => l \in Live(t) /\ objs'[l].path = objs[l].path
<1> DEFINE n == Len(objs) + 1
<1>1. /\ n \in Nat /\ n \notin DOMAIN objs /\ DOMAIN objs' = DOMAIN objs \cup {n} /\ objs'[n] = new
      /\ \A o \in DOMAIN objs : objs'[o] = objs[o]
  BY Appended DEF RelInv, RelTypeOK, DriveType
<1> HIDE DEF n
<1>2. ASSUME NEW u \in DOMAIN targets
      PROVE  /\ Steady(u) /\ Within(u) \subseteq Within(u)' /\ Live(u)' \subseteq Live(u) \cup {n}
             /\ n \in Within(u)' => new.folder \in Chain(u)
  <2>1. /\ Within(u) \subseteq DOMAIN objs /\ Chain(u)' = Chain(u)
        /\ Within(u)' \subseteq Within(u) \cup {n} /\ Within(u) \subseteq Within(u)'
        /\ n \in Within(u)' => new.folder \in Chain(u)
    BY <1>1 DEF Chain, Within
  <2>2. \A o \in Within(u) : o \in Within(u)' /\ objs'[o] = objs[o]
    BY <1>1, <2>1
  <2>3. Steady(u)
    BY <2>1, <2>2 DEF Steady, TankName
  <2>4. Live(u)' \subseteq Live(u) \cup {n}
    BY <1>1, <2>1 DEF Live, TankName
  <2> QED BY <2>1, <2>3, <2>4
<1>4. n \in Within(t)'
  BY <1>1 DEF Within, Chain
<1>5. TreeInv' /\ ContainersInv'
  BY DEF DriveInv, TreeInv, TankName, ContainersInv, Container
<1>6. ObjectsInv'
  BY <1>1, <1>2, <1>4 DEF DriveInv, ObjectsInv
<1>7. LiveUnique'
  <2> SUFFICES ASSUME NEW u \in DOMAIN targets, NEW o1 \in Live(u)', NEW o2 \in Live(u)',
                      objs'[o1].path = objs'[o2].path, o1 # o2
               PROVE  FALSE
    BY DEF LiveUnique
  <2>1. \A o \in Live(u) : o \in DOMAIN objs
    BY DEF Live, Within
  <2>2. CASE o1 # n /\ o2 # n
    BY <1>1, <1>2, <2>1, <2>2 DEF DriveInv, LiveUnique
  <2>3. ASSUME NEW o \in Live(u), objs[o].path = new.path, n \in Within(u)' PROVE FALSE
    <3>1. /\ dirs \in Seq(Folder) /\ Tree(dirs)
          /\ targets[t].container \in DOMAIN dirs /\ dirs[targets[t].container].parent = 0
          /\ targets[u].container \in DOMAIN dirs /\ dirs[targets[u].container].parent = 0
      BY DEF RelInv, RelTypeOK, DriveType, DriveInv, TreeInv, ContainersInv, Container
    <3>2. new.folder \in Chain(t) \cap Chain(u)
      BY <1>2, <2>3
    <3>3. targets[t].container = targets[u].container
      BY <3>1, <3>2, DescendantsApart DEF Chain
    <3>4. Live(u) = Live(t)
      BY <3>3 DEF Live, Within
    <3> QED BY <2>3, <3>4
  <2>4. CASE o1 = n
    BY <1>1, <1>2, <2>1, <2>3, <2>4 DEF Live
  <2>5. CASE o2 = n
    BY <1>1, <1>2, <2>1, <2>3, <2>5 DEF Live
  <2> QED BY <2>2, <2>4, <2>5
<1>8. \A l \in Live(t)' : objs'[l].path # new.path => l \in Live(t) /\ objs'[l].path = objs[l].path
  BY <1>1, <1>2 DEF Live, Within
<1> QED BY <1>1, <1>2, <1>4, <1>5, <1>6, <1>7, <1>8 DEF DriveInv, n

LEMMA UploadPlace == ASSUME RelInv, PlaceInv, NEW p \in Paths, Upload(p) PROVE PlaceInv'
<1> DEFINE c == LocalNow(p)
           o == IF task[p].obj = Nil THEN Len(objs) + 1 ELSE task[p].obj
           fresh == [folder |-> task[p].walk.folder, path |-> p, content |-> c]
           new == [task[p] EXCEPT !.obj = o, !.md5 = c, !.step = "record"]
<1>1. TaskAt(p, "ensure") /\ UNCHANGED <<dirs, rows>> /\ task[p].act # "TRASH"
  BY DEF Upload
<1>2. PICK t \in DOMAIN targets : t = pass.target
  BY <1>1, TaskIs
<1>3. /\ task[p] # Nil /\ task[p].step = "ensure" /\ task[p] \in TaskState
      /\ task \in [Paths -> TaskState \cup {Nil}]
      /\ WalkOK(p) /\ UploadOK(p) /\ TrashOK(p)
      /\ UNCHANGED <<targets, adding, pass>>
  BY <1>1, TaskIs
<1>4. Within(pass.target)' = Within(t)' /\ Live(pass.target)' = Live(t)' /\ Chain(pass.target)' = Chain(t)'
  BY <1>2, <1>3 DEF Within, Live, Chain
\* What each outcome has to show.
<1>5. ASSUME NEW x, task' = [task EXCEPT ![p] = x], DriveInv', \A u \in DOMAIN targets : Steady(u),
             \A l \in Live(t)' : objs'[l].path # p => l \in Live(t) /\ objs'[l].path = objs[l].path,
             x # Nil => /\ x.act = task[p].act /\ x.walk = task[p].walk /\ x.step = "record"
                        /\ x.obj # Nil /\ x.obj \in Within(t)'
      PROVE  PlaceInv'
  <2>1. task'[p] = x
    BY <1>3, <1>5
  <2>2. TaskOK(p)'
    <3> SUFFICES ASSUME x # Nil PROVE WalkOK(p)' /\ UploadOK(p)' /\ TrashOK(p)'
      BY <2>1 DEF TaskOK
    <3>1. WalkOK(p)'
      BY <1>1, <1>3, <1>5, <2>1 DEF WalkOK, Chain, TankName
    <3>2. UploadOK(p)' /\ TrashOK(p)'
      BY <1>1, <1>4, <1>5, <2>1 DEF UploadOK, TrashOK
    <3> QED BY <3>1, <3>2
  <2>3. Steady(pass.target)
    BY <1>2, <1>5
  <2>4. \A l \in Live(pass.target)' : objs'[l].path # p => l \in Live(pass.target) /\ objs'[l].path = objs[l].path
    BY <1>2, <1>4, <1>5
  <2>5. TasksOK'
    BY <1>1, <1>5, <2>2, <2>3, <2>4, OtherTasks
  <2>6. RowInv' /\ RequestWalks'
    BY <1>1, <1>3, <1>5, RowsStay, RequestsStay DEF PlaceInv, Grows
  <2> QED BY <1>5, <2>5, <2>6 DEF PlaceInv
<1>6. CASE c = Nil
  <2>1. objs' = objs /\ task' = [task EXCEPT ![p] = Nil]
    BY <1>6 DEF Upload, Done
  <2>2. DriveInv' /\ \A u \in DOMAIN targets : Steady(u) /\ Live(u)' = Live(u)
    BY <1>1, <1>3, <2>1, ContentChanges DEF PlaceInv
  <2> QED BY <1>5, <2>1, <2>2
<1>7. CASE c # Nil
  <2>1. task' = [task EXCEPT ![p] = new]
    BY <1>7 DEF Upload
  <2>2. o # Nil
    BY DEF RelInv, RelTypeOK, DriveType
  <2>3. new.act = task[p].act /\ new.walk = task[p].walk /\ new.step = "record" /\ new.obj = o
    BY <1>3 DEF TaskState
  <2>4. c \in Contents
    <3>1. c \in Contents \cup {Nil}
      <4>1. targets[pass.target] \in Target
        BY <1>2 DEF RelInv, RelTypeOK, FoldersType
      <4> QED BY <4>1 DEF LocalNow, TargetOf, Target, RelInv, RelTypeOK, LocalType
    <3> QED BY <1>7, <3>1
  <2>5. CASE task[p].obj = Nil
    <3>1. objs' = Append(objs, fresh)
      BY <1>7, <2>5 DEF Upload
    <3>2. fresh \in Object /\ fresh.folder = task[p].walk.folder /\ fresh.path = p
      BY <1>3, <2>4 DEF Object, TaskState, WalkState
    <3>3. fresh.folder \in Chain(t) /\ \A l \in Live(t) : objs[l].path # fresh.path
      BY <1>1, <1>2, <1>3, <2>5, <3>2 DEF WalkOK, UploadOK
    <3>4. o = Len(objs) + 1
      BY <2>5
    <3> HIDE DEF fresh, new, o
    <3>5. /\ DriveInv' /\ \A u \in DOMAIN targets : Steady(u)
          /\ o \in Within(t)'
          /\ \A l \in Live(t)' : objs'[l].path # fresh.path => l \in Live(t) /\ objs'[l].path = objs[l].path
      BY <1>1, <1>3, <3>1, <3>2, <3>3, <3>4, NewObject DEF PlaceInv
    <3> QED BY <1>5, <2>1, <2>2, <2>3, <3>2, <3>5
  <2>6. CASE task[p].obj # Nil
    <3>1. o = task[p].obj /\ o \in Within(t)
      BY <1>1, <1>2, <1>3, <2>6 DEF UploadOK
    <3>2. objs' = [objs EXCEPT ![o] = [@ EXCEPT !.content = c]]
      BY <1>7, <2>6 DEF Upload
    <3>3. /\ DOMAIN objs' = DOMAIN objs
          /\ \A k \in DOMAIN objs : objs'[k].folder = objs[k].folder /\ objs'[k].path = objs[k].path
      <4>1. \A k \in DOMAIN objs : objs[k] \in Object
        BY DEF RelInv, RelTypeOK, DriveType
      <4> QED BY <3>2, <4>1 DEF Object
    <3>4. DriveInv' /\ \A u \in DOMAIN targets : Steady(u) /\ Within(u)' = Within(u) /\ Live(u)' = Live(u)
      BY <1>1, <1>3, <3>3, ContentChanges DEF PlaceInv
    <3>5. \A l \in Live(t)' : objs'[l].path # p => l \in Live(t) /\ objs'[l].path = objs[l].path
      BY <3>3, <3>4 DEF Live, Within
    <3> HIDE DEF new, o
    <3> QED BY <1>5, <2>1, <2>2, <2>3, <3>1, <3>4, <3>5
  <2> QED BY <2>5, <2>6
<1> QED BY <1>6, <1>7

LEMMA RecordPlace == ASSUME RelInv, PlaceInv, NEW p \in Paths, Record(p) PROVE PlaceInv'
<1> DEFINE new == NewRow(pass.target, p, task[p].obj, task[p].md5, LocalNow(p))
<1>1. TaskAt(p, "record") /\ UNCHANGED <<dirs, objs>> /\ task' = [task EXCEPT ![p] = Nil]
  BY DEF Record, driveVars, Done
<1>2. /\ task[p] # Nil /\ task[p].step = "record" /\ task[p] \in TaskState /\ pass.target \in DOMAIN targets
      /\ task \in [Paths -> TaskState \cup {Nil}]
      /\ WalkOK(p) /\ UploadOK(p) /\ TrashOK(p)
      /\ UNCHANGED <<targets, adding, pass>>
  BY <1>1, TaskIs
<1>3. /\ DriveInv' /\ \A t \in DOMAIN targets : Steady(t) /\ Live(t)' = Live(t)
      /\ Grows(targets, targets') /\ Grows(dirs, dirs')
  BY <1>1, <1>2, SteadyDrive DEF PlaceInv
<1>4. task[p].obj \in Within(pass.target)
  BY <1>2 DEF UploadOK, TrashOK
<1>5. new.rel = pass.target /\ new.path = p /\ new.remoteID = task[p].obj /\ new.status = "SYNCED"
  BY DEF NewRow
<1> HIDE DEF new
<1>6. rows' = rows \/ rows' = (rows \ RowsAt(pass.target, p)) \cup {new}
  BY DEF Record, new
<1>7. \A row \in rows' : row \in rows \/ (row = new /\ RowsAt(pass.target, p) \cap rows' \subseteq {new})
  BY <1>6
<1>8. RowInv'
  <2>1. OneRowPerKey'
    BY <1>5, <1>6 DEF PlaceInv, RowInv, OneRowPerKey, RowsAt
  <2>2. RowsPointHome'
    <3> SUFFICES ASSUME NEW row \in rows'
                 PROVE  /\ row.remoteID \in Within(row.rel)
                        /\ row.status = "TRASHED" => Home(row.remoteID).name = TrashFolderName
      BY <1>1, <1>2 DEF RowsPointHome, Within, Home
    <3>1. CASE row \in rows
      BY <3>1 DEF PlaceInv, RowInv, RowsPointHome
    <3>2. CASE row = new
      BY <1>4, <1>5, <3>2
    <3> QED BY <1>7, <3>1, <3>2
  <2> QED BY <2>1, <2>2 DEF RowInv
<1>9. TasksOK'
  <2>1. TaskOK(p)'
    BY <1>1, <1>2 DEF TaskOK
  <2>2. /\ Live(pass.target)' = Live(pass.target) /\ Steady(pass.target)
        /\ \A l \in Live(pass.target)' : objs'[l].path = objs[l].path
    <3>1. Live(pass.target)' = Live(pass.target)
      BY <1>1, <1>2 DEF Live, Within, TankName
    <3> QED BY <1>1, <1>2, <1>3, <3>1
  <2>3. \A row \in rows' : row.path # p => row \in rows
    BY <1>5, <1>6
  <2> QED BY <1>1, <2>1, <2>2, <2>3, OtherTasks
<1>10. RequestWalks'
  BY <1>2, <1>3, RequestsStay DEF PlaceInv
<1> QED BY <1>3, <1>8, <1>9, <1>10 DEF PlaceInv

LEMMA MarkTrashedPlace == ASSUME RelInv, PlaceInv, NEW p \in Paths, MarkTrashed(p) PROVE PlaceInv'
<1> DEFINE found == RowsAt(pass.target, p)
           Marked(row) == [row EXCEPT !.status = "TRASHED"]
<1>1. /\ TaskAt(p, "mark") /\ UNCHANGED <<dirs, objs>> /\ task' = [task EXCEPT ![p] = Nil]
      /\ rows' = (rows \ found) \cup {Marked(row) : row \in found}
  BY DEF MarkTrashed, driveVars, Done
<1>2. /\ task[p] # Nil /\ task[p].step = "mark" /\ task[p] \in TaskState /\ pass.target \in DOMAIN targets
      /\ task \in [Paths -> TaskState \cup {Nil}]
      /\ WalkOK(p) /\ UploadOK(p) /\ TrashOK(p)
      /\ UNCHANGED <<targets, adding, pass>>
  BY <1>1, TaskIs
<1>3. /\ DriveInv' /\ \A t \in DOMAIN targets : Steady(t) /\ Live(t)' = Live(t)
      /\ Grows(targets, targets') /\ Grows(dirs, dirs')
  BY <1>1, <1>2, SteadyDrive DEF PlaceInv
<1>4. /\ \A row \in found : row.remoteID = task[p].obj
      /\ task[p].obj \in Within(pass.target) /\ Home(task[p].obj).name = TrashFolderName
  BY <1>2 DEF UploadOK, TrashOK, Home, TankName
<1>5. \A row \in found : /\ Marked(row).rel = pass.target /\ Marked(row).path = p
                         /\ Marked(row).remoteID = row.remoteID /\ row \in rows
  BY DEF RowsAt, RelInv, RelTypeOK, Row
<1> HIDE DEF Marked
<1>6. \A row \in rows' : \/ row \in rows /\ row \notin found
                        \/ \E old \in found : row = Marked(old)
  BY <1>1
<1>7. RowInv'
  <2>1. OneRowPerKey'
    <3> SUFFICES ASSUME NEW r1 \in rows', NEW r2 \in rows', r1.rel = r2.rel, r1.path = r2.path PROVE r1 = r2
      BY DEF OneRowPerKey
    <3>1. \A r \in found : \A k \in found : r = k
      BY DEF RowsAt, PlaceInv, RowInv, OneRowPerKey
    <3>2. \A r \in rows \ found : ~(r.rel = pass.target /\ r.path = p)
      BY DEF RowsAt
    <3>3. CASE r1 \in rows \ found /\ r2 \in rows \ found
      BY <3>3 DEF PlaceInv, RowInv, OneRowPerKey
    <3>4. CASE \E old \in found : r1 = Marked(old)
      BY <1>5, <1>6, <3>1, <3>2, <3>4
    <3>5. CASE \E old \in found : r2 = Marked(old)
      BY <1>5, <1>6, <3>1, <3>2, <3>5
    <3> QED BY <1>6, <3>3, <3>4, <3>5
  <2>2. RowsPointHome'
    <3> SUFFICES ASSUME NEW row \in rows'
                 PROVE  /\ row.remoteID \in Within(row.rel)
                        /\ row.status = "TRASHED" => Home(row.remoteID).name = TrashFolderName
      BY <1>1, <1>2 DEF RowsPointHome, Within, Home
    <3>1. CASE row \in rows
      BY <3>1 DEF PlaceInv, RowInv, RowsPointHome
    <3>2. CASE \E old \in found : row = Marked(old)
      BY <1>4, <1>5, <3>2
    <3> QED BY <1>6, <3>1, <3>2
  <2> QED BY <2>1, <2>2 DEF RowInv
<1>8. TasksOK'
  <2>1. TaskOK(p)'
    BY <1>1, <1>2 DEF TaskOK
  <2>2. /\ Live(pass.target)' = Live(pass.target) /\ Steady(pass.target)
        /\ \A l \in Live(pass.target)' : objs'[l].path = objs[l].path
    <3>1. Live(pass.target)' = Live(pass.target)
      BY <1>1, <1>2 DEF Live, Within, TankName
    <3> QED BY <1>1, <1>2, <1>3, <3>1
  <2>3. \A row \in rows' : row.path # p => row \in rows
    BY <1>5, <1>6
  <2> QED BY <1>1, <2>1, <2>2, <2>3, OtherTasks
<1>9. RequestWalks'
  BY <1>2, <1>3, RequestsStay DEF PlaceInv
<1> QED BY <1>3, <1>7, <1>8, <1>9 DEF PlaceInv

\* The object stays in its container.
LEMMA MoveToTankPlace == ASSUME RelInv, PlaceInv, NEW p \in Paths, MoveToTank(p) PROVE PlaceInv'
<1> DEFINE o == task[p].obj
           tank == task[p].walk.folder
           new == [task[p] EXCEPT !.step = "mark"]
<1>1. /\ TaskAt(p, "ensure") /\ UNCHANGED <<dirs, rows>> /\ task[p].act = "TRASH" /\ task[p].walk.rest = <<>>
      /\ objs' = [objs EXCEPT ![o] = [@ EXCEPT !.folder = tank]]
      /\ task' = [task EXCEPT ![p] = new]
  BY DEF MoveToTank
<1>2. PICK t \in DOMAIN targets : t = pass.target
  BY <1>1, TaskIs
<1>3. /\ task[p] # Nil /\ task[p].step = "ensure" /\ task[p] \in TaskState
      /\ task \in [Paths -> TaskState \cup {Nil}]
      /\ WalkOK(p) /\ UploadOK(p) /\ TrashOK(p)
      /\ UNCHANGED <<targets, adding, pass>>
  BY <1>1, TaskIs
<1>4. /\ new.act = "TRASH" /\ new.walk = task[p].walk /\ new.step = "mark" /\ new.obj = o /\ task'[p] = new
  BY <1>1, <1>3 DEF TaskState
<1>5. tank \in Chain(t) /\ TankName(tank) /\ o \in Within(t)
  <2>1. \A x : <<x>> # <<>>
    OBVIOUS
  <2> QED BY <1>1, <1>2, <1>3, <2>1 DEF WalkOK, TrashOK
<1>6. /\ DOMAIN objs' = DOMAIN objs /\ \A k \in DOMAIN objs : k # o => objs'[k] = objs[k]
      /\ o \in DOMAIN objs /\ objs'[o].folder = tank /\ objs'[o].path = objs[o].path
  <2>1. o \in DOMAIN objs /\ objs[o] \in Object
    BY <1>5 DEF Within, RelInv, RelTypeOK, DriveType
  <2> QED BY <1>1, <2>1 DEF Object
<1> HIDE DEF o, tank, new
<1>7. ASSUME NEW u \in DOMAIN targets
      PROVE  Steady(u) /\ Within(u)' = Within(u) /\ Live(u)' \subseteq Live(u) /\ o \notin Live(u)'
  <2>1. /\ Chain(u)' = Chain(u) /\ Within(u) = {k \in DOMAIN objs : objs[k].folder \in Chain(u)}
        /\ Within(u)' = {k \in DOMAIN objs : objs'[k].folder \in Chain(u)}
    BY <1>1, <1>3, <1>6 DEF Chain, Within
  <2>2. o \in Within(u) <=> tank \in Chain(u)
    <3>1. CASE targets[u].container = targets[t].container
      BY <1>5, <3>1 DEF Chain, Within
    <3>2. CASE targets[u].container # targets[t].container
      <4>1. o \notin Within(u)
        BY <1>2, <1>5, <3>2, PlacesApart DEF PlaceInv, DriveInv
      <4>2. /\ dirs \in Seq(Folder) /\ Tree(dirs)
            /\ targets[t].container \in DOMAIN dirs /\ dirs[targets[t].container].parent = 0
            /\ targets[u].container \in DOMAIN dirs /\ dirs[targets[u].container].parent = 0
        BY DEF RelInv, RelTypeOK, DriveType, PlaceInv, DriveInv, TreeInv, ContainersInv, Container
      <4>3. Chain(t) \cap Chain(u) = {}
        BY <3>2, <4>2, DescendantsApart DEF Chain
      <4> QED BY <1>5, <4>1, <4>3
    <3> QED BY <3>1, <3>2
  <2>3. Within(u)' = Within(u)
    BY <1>6, <2>1, <2>2
  <2>4. Live(u)' \subseteq Live(u) /\ o \notin Live(u)'
    BY <1>1, <1>5, <1>6, <2>1, <2>3 DEF Live, TankName
  <2>5. Steady(u)
    BY <1>1, <1>5, <1>6, <2>1, <2>3 DEF Steady, TankName
  <2> QED BY <2>3, <2>4, <2>5
<1>8. DriveInv'
  <2>1. TreeInv' /\ ContainersInv'
    BY <1>1, <1>3 DEF PlaceInv, DriveInv, TreeInv, TankName, ContainersInv, Container
  <2>2. ObjectsInv'
    BY <1>3, <1>6, <1>7 DEF PlaceInv, DriveInv, ObjectsInv
  <2>3. LiveUnique'
    <3> SUFFICES ASSUME NEW u \in DOMAIN targets, NEW o1 \in Live(u)', NEW o2 \in Live(u)',
                        objs'[o1].path = objs'[o2].path
                 PROVE  o1 = o2
      BY <1>3 DEF LiveUnique
    <3>1. o1 \in Live(u) /\ o2 \in Live(u) /\ o1 # o /\ o2 # o
      BY <1>7
    <3>2. o1 \in DOMAIN objs /\ o2 \in DOMAIN objs
      BY <3>1 DEF Live, Within
    <3> QED BY <1>6, <3>1, <3>2 DEF PlaceInv, DriveInv, LiveUnique
  <2> QED BY <2>1, <2>2, <2>3 DEF DriveInv
<1>9. RowInv' /\ RequestWalks'
  BY <1>1, <1>3, <1>7, RowsStay, RequestsStay DEF PlaceInv, Grows
<1>10. TaskOK(p)'
  <2>1. WalkOK(p)'
    BY <1>1, <1>3, <1>4 DEF WalkOK, Chain, TankName
  <2>2. UploadOK(p)'
    BY <1>4 DEF UploadOK
  <2>3. TrashOK(p)'
    <3>1. Within(pass.target)' = Within(t)
      BY <1>2, <1>3, <1>7 DEF Within
    <3>2. \A row \in RowsAt(pass.target, p) : row.remoteID = o
      BY <1>1, <1>3 DEF TrashOK, o
    <3> QED BY <1>1, <1>3, <1>4, <1>5, <1>6, <3>1, <3>2 DEF TrashOK, RowsAt, TankName
  <2> QED BY <2>1, <2>2, <2>3 DEF TaskOK
<1>11. TasksOK'
  <2>1. Live(pass.target)' = Live(t)'
    BY <1>2, <1>3 DEF Live, Within
  <2>2. \A l \in Live(pass.target)' : l \in Live(pass.target) /\ objs'[l].path = objs[l].path
    <3>1. \A l \in Live(t) : l \in DOMAIN objs
      BY DEF Live, Within
    <3> QED BY <1>2, <1>6, <1>7, <2>1, <3>1
  <2>3. Steady(pass.target)
    BY <1>2, <1>7
  <2> QED BY <1>1, <1>10, <2>2, <2>3, OtherTasks
<1> QED BY <1>8, <1>9, <1>11 DEF PlaceInv
-----------------------------------------------------------------------------
LEMMA InitPlace == Init => PlaceInv
<1> SUFFICES ASSUME Init PROVE PlaceInv
  OBVIOUS
<1>1. dirs = <<>> /\ objs = <<>> /\ targets = <<>> /\ rows = {} /\ task = NoTasks
  BY DEF Init
<1>2. DriveInv
  BY <1>1 DEF DriveInv, TreeInv, Tree, ContainersInv, ObjectsInv, LiveUnique
<1>3. RowInv /\ TasksOK
  BY <1>1 DEF RowInv, OneRowPerKey, RowsPointHome, TasksOK, TaskOK, NoTasks
<1>4. RequestWalks
  BY DEF Init, RequestWalks, NotAsked
<1> QED BY <1>2, <1>3, <1>4 DEF PlaceInv

LEMMA NextPlace == ASSUME RelInv, PlaceInv, RelInv', NoTankDirs, [Next]_vars PROVE PlaceInv'
<1>1. CASE RequestStep
  BY <1>1, AddFolderPlace, EnsureContainerPlace, ListFolderPlace, AddTargetPlace DEF RequestStep
<1>2. CASE PassStep
  <2>1. CASE \E p \in Paths : TaskStep(p)
    BY <2>1, TrashMetaPlace, EnsureFolderPlace, UploadPlace, RecordPlace, MoveToTankPlace, MarkTrashedPlace
       DEF TaskStep
  <2> QED BY <1>2, <2>1, OtherPlace, SyncChainPlace DEF PassStep
<1> QED BY <1>1, <1>2, OtherPlace, CrashPlace DEF Next

\* In every reachable state of the folders, the relations and the passes over
\* them every variable has its type: no row is written without the object, the
\* checksum and the date of a file.
THEOREM RelationTypesHold == Spec => []RelTypeOK
<1>1. RelInv => RelTypeOK
  BY DEF RelInv
<1> QED BY <1>1, RelInvHolds, PTL

\* Removing a folder is final (db.go RemoveMirroredFolder): whatever pass was
\* under way, no row of the folder's relations is ever written again, and no
\* relation is added to a folder that is gone.
THEOREM RemovalIsFinal == Spec => []NoOrphanRows
<1>1. RelInv => NoOrphanRows
  BY DEF RelInv
<1> QED BY <1>1, RelInvHolds, PTL

LEMMA PlaceHolds == ASSUME NoTankDirs PROVE Spec => []PlaceInv
<1>1. RelInv /\ PlaceInv /\ RelInv' /\ [Next]_vars => PlaceInv'
  BY NextPlace
<1> QED BY <1>1, InitPlace, RelInvHolds, PTL DEF Spec

\* Whatever passes, handlers and crashes create folders of one name, and
\* however often a pass is repeated, a container never holds two objects for
\* one path outside of its tank (engine.go executePass, client.go EnsureFolder
\* and ListFolderRecursive) - as long as no local directory has the tank's name.
THEOREM OneObject == ASSUME NoTankDirs PROVE Spec => []OneObjectPerPath
<1>1. RelInv /\ PlaceInv => OneObjectPerPath
  <2> SUFFICES ASSUME RelInv, PlaceInv, NEW t \in present,
                      NEW o1 \in {o \in Within(t) : Home(o).name # TrashFolderName},
                      NEW o2 \in {o \in Within(t) : Home(o).name # TrashFolderName},
                      objs[o1].path = objs[o2].path
               PROVE  o1 = o2
    BY DEF OneObjectPerPath
  <2>1. t \in DOMAIN targets
    BY DEF RelInv, RelTypeOK, FoldersType
  <2>2. o1 \in Live(t) /\ o2 \in Live(t)
    BY DEF Live, TankName, Home
  <2> QED BY <2>1, <2>2 DEF PlaceInv, DriveInv, LiveUnique
<1> QED BY <1>1, PlaceHolds, RelInvHolds, PTL

\* A row leads to an object of its own relation's container, and a TRASHED row
\* to one that is in the tank, where the sweep looks for it (engine.go
\* trashRemote, db.go UpsertFileMetadata).
THEOREM RowsAtHome == ASSUME NoTankDirs PROVE Spec => []RowsPointHome
<1>1. PlaceInv => RowsPointHome
  BY DEF PlaceInv, RowInv
<1> QED BY <1>1, PlaceHolds, PTL

\* An object is changed or moved only by the task that knows it.
LEMMA OwnObject ==
    ASSUME RelInv, PlaceInv, NEW p \in Paths, Upload(p) \/ MoveToTank(p),
           NEW k \in DOMAIN objs, objs'[k] # objs[k]
    PROVE  k \in Within(pass.target) /\ pass.target \in DOMAIN targets
<1>1. TaskAt(p, "ensure") /\ task[p].walk.rest = <<>>
  BY DEF Upload, MoveToTank
<1>2. WalkOK(p) /\ UploadOK(p) /\ TrashOK(p) /\ pass.target \in DOMAIN targets
  BY <1>1, TaskIs
<1>3. objs \in Seq(Object)
  BY DEF RelInv, RelTypeOK, DriveType
<1>4. CASE task[p].act = "TRASH"
  <2>1. objs' = [objs EXCEPT ![task[p].obj] = [@ EXCEPT !.folder = task[p].walk.folder]]
    BY <1>4 DEF Upload, MoveToTank
  <2>2. k = task[p].obj
    BY <2>1
  <2>3. task[p].step = "ensure"
    BY <1>1 DEF TaskAt
  <2> QED BY <1>2, <1>4, <2>2, <2>3 DEF TrashOK
<1>5. CASE task[p].act # "TRASH" /\ task[p].obj = Nil
  <2>1. objs' = objs \/ \E new : objs' = Append(objs, new)
    BY <1>5 DEF Upload, MoveToTank
  <2>2. ASSUME NEW new, objs' = Append(objs, new) PROVE FALSE
    <3>1. objs \in Seq(Object \cup {new})
      BY <1>3
    <3>2. objs'[k] = objs[k]
      BY <2>2, <3>1
    <3> QED BY <3>2
  <2> QED BY <2>1, <2>2
<1>6. CASE task[p].act # "TRASH" /\ task[p].obj # Nil
  <2>1. objs' = objs \/ \E new : objs' = [objs EXCEPT ![task[p].obj] = new]
    BY <1>6 DEF Upload, MoveToTank
  <2>2. k = task[p].obj
    BY <2>1
  <2> QED BY <1>2, <1>6, <2>2 DEF UploadOK
<1> QED BY <1>4, <1>5, <1>6

LEMMA StepsApart ==
    ASSUME RelInv, PlaceInv, [Next]_vars, NEW row \in rows, objs'[row.remoteID] # objs[row.remoteID]
    PROVE  TargetOf.container = targets[row.rel].container
<1>1. row.remoteID \in Within(row.rel)
  BY DEF PlaceInv, RowInv, RowsPointHome
<1>2. row.rel \in DOMAIN targets
  BY DEF RelInv, NoOrphanRows, RelTypeOK, FoldersType
<1>3. PICK p \in Paths : Upload(p) \/ MoveToTank(p)
  <2>1. ~UNCHANGED objs
    OBVIOUS
  <2>2. ~RequestStep
    BY <2>1 DEF RequestStep, AddFolder, EnsureContainer, ListFolder, AddTarget, driveVars
  <2>3. ~AdminStep
    BY <2>1 DEF AdminStep, SetPaused, RemoveFolder, Administer, driveVars
  <2>4. PassStep => \E p \in Paths : TaskStep(p)
    BY <2>1 DEF PassStep, BeginPass, EndPass, SyncChain, EndChain, driveVars
  <2>5. ~UserStep /\ ~Crash /\ ~UNCHANGED vars
    BY <2>1 DEF UserStep, UserEdit, Crash, driveVars, vars
  <2>6. \A p \in Paths : TaskStep(p) => Upload(p) \/ MoveToTank(p)
    BY <2>1 DEF TaskStep, TrashMeta, EnsureFolder, Record, MarkTrashed, driveVars
  <2> QED BY <2>2, <2>3, <2>4, <2>5, <2>6 DEF Next
<1>4. row.remoteID \in DOMAIN objs
  BY <1>1 DEF Within
<1>5. row.remoteID \in Within(pass.target) /\ pass.target \in DOMAIN targets
  BY <1>3, <1>4, OwnObject
<1> QED BY <1>1, <1>2, <1>5, PlacesApart DEF PlaceInv, DriveInv, TargetOf

\* Mirrors in different containers never touch each other's objects: a step of a
\* pass changes or moves an object only for a relation of the object's container.
THEOREM MirrorsApart == ASSUME NoTankDirs PROVE Spec => MirrorsAreApart
<1>1. RelInv /\ PlaceInv /\ [Next]_vars
      => [\A row \in rows : objs'[row.remoteID] # objs[row.remoteID]
                            => TargetOf.container = targets[row.rel].container]_vars
  BY StepsApart
<1> QED BY <1>1, PlaceHolds, RelInvHolds, PTL DEF Spec, MirrorsAreApart
=============================================================================
