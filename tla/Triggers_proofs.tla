-------------------------- MODULE Triggers_proofs --------------------------
(***************************************************************************)
(* Proof that no change is forgotten on its way to a pass.                 *)
(***************************************************************************)
EXTENDS Triggers, TLAPS

\* What the daemon starts with satisfies the invariant: the first pass is
\* requested.
LEMMA TriggersInit == ASSUME Init PROVE TriggersInv
<1>1. TriggersTypeOK
  <2>1. unseen \subseteq Files
    BY DEF Init, FilesOf
  <2>2. 0 \in 0..EventSlots
    BY TriggersAssumption
  <2>3. mirrored \subseteq Folders
    BY TriggersAssumption DEF Init
  <2> QED
    BY <2>1, <2>2, <2>3 DEF Init, TriggersTypeOK
<1>2. UnseenInv
  BY DEF Init, UnseenInv, FilesOf
<1>3. NewDirInv /\ ChangeIsOnItsWay
  BY DEF Init, NewDirInv, ChangeIsOnItsWay
<1> QED
  BY <1>1, <1>2, <1>3 DEF TriggersInv

\* A change raises an event, or its directory's own event is still in raw.
LEMMA EditInv == ASSUME TriggersInv, NEW f \in Files, Edit(f) PROVE TriggersInv'
<1> USE DEF Edit, timerVars, loopVars, folderVars, Raised, Unwatched
<1>1. TriggersTypeOK'
  BY TriggersAssumption DEF TriggersInv, TriggersTypeOK, Names
<1>2. UnseenInv' /\ NewDirInv'
  BY DEF TriggersInv, UnseenInv, NewDirInv
<1>3. ASSUME NEW g \in (unseen \ missed)' 
      PROVE \/ (g \in left \/ slot \/ adding \/ sending > 0 \/ queued > 0)'
            \/ \E n \in {g} \cup Dirs : Stirred(n)'
  <2>1. CASE g \in unseen \ missed
    BY <1>3, <2>1 DEF TriggersInv, ChangeIsOnItsWay, Stirred
  <2>2. CASE ~(g \in unseen \ missed)
    <3>1. g = f /\ FolderOf[f] \in AtStart
      BY <1>3, <2>2
    <3>2. CASE Reported(f)
      BY <3>1, <3>2 DEF Stirred
    <3>3. CASE ~Reported(f)
      <4>0. DirOf[f] \in Dirs \cup {Nil} /\ f \notin Dirs /\ Nil \notin made
        BY TriggersAssumption DEF TriggersInv, TriggersTypeOK, Names
      <4>1. DirOf[f] # Nil /\ DirOf[f] \in made /\ DirOf[f] \notin watched
        BY <3>1, <3>3, <4>0 DEF Reported, Present
      <4>2. DirOf[f] \notin missed
        BY <1>3, <2>2, <3>1
      <4>3. DirOf[f] \in raw'
        BY <4>1, <4>2 DEF TriggersInv, NewDirInv
      <4> QED
        BY <4>0, <4>1, <4>3 DEF Stirred
    <3> QED
      BY <3>2, <3>3
  <2> QED
    BY <2>1, <2>2
<1> QED
  BY <1>1, <1>2, <1>3 DEF TriggersInv, ChangeIsOnItsWay

\* A directory that is created where events are reported has one in raw.
LEMMA MkdirInv == ASSUME TriggersInv, NEW d \in Dirs, Mkdir(d) PROVE TriggersInv'
<1> USE DEF Mkdir, timerVars, loopVars, folderVars, counters, Raised
<1>1. TriggersTypeOK'
  BY DEF TriggersInv, TriggersTypeOK, Names
<1>2. UnseenInv'
  BY DEF TriggersInv, UnseenInv
<1>4. ASSUME d \notin missed' PROVE d \in raw'
  BY <1>4, TriggersAssumption DEF TriggersInv, TriggersTypeOK, NewDirInv, Unwatched, Present,
      Reported, Names
<1>5. NewDirInv'
  BY <1>4 DEF TriggersInv, NewDirInv
<1>3. ChangeIsOnItsWay'
  BY DEF TriggersInv, ChangeIsOnItsWay, Stirred
<1> QED
  BY <1>1, <1>2, <1>3, <1>5 DEF TriggersInv

\* handle takes an event over: a directory is watched when its event leaves raw.
LEMMA HandleInv == ASSUME TriggersInv, NEW n \in Names, Handle(n) PROVE TriggersInv'
<1> USE DEF Handle, timerVars, loopVars, folderVars, diskVars, counters
<1>1. TriggersTypeOK'
  BY DEF TriggersInv, TriggersTypeOK, Names
<1>2. UnseenInv' /\ NewDirInv'
  BY DEF TriggersInv, TriggersTypeOK, UnseenInv, NewDirInv
<1>3. ChangeIsOnItsWay'
  BY TriggersAssumption DEF TriggersInv, TriggersTypeOK, ChangeIsOnItsWay, Stirred, Names
<1> QED
  BY <1>1, <1>2, <1>3 DEF TriggersInv

\* The second half of handle: the event waits in a timer now.
LEMMA ArmInv == ASSUME TriggersInv, Arm PROVE TriggersInv'
<1> USE DEF Arm, timerVars, loopVars, folderVars, diskVars, counters
<1>1. TriggersTypeOK'
  BY DEF TriggersInv, TriggersTypeOK
<1>2. UnseenInv' /\ NewDirInv'
  BY DEF TriggersInv, UnseenInv, NewDirInv
<1>3. ASSUME NEW n \in Names, Stirred(n) PROVE Stirred(n)'
  BY <1>3 DEF Stirred, TriggersInv, TriggersTypeOK
<1>4. ChangeIsOnItsWay'
  BY <1>3 DEF TriggersInv, TriggersTypeOK, ChangeIsOnItsWay, Names
<1> QED
  BY <1>1, <1>2, <1>4 DEF TriggersInv

\* A timer that fires leaves its event to a flush.
LEMMA FireInv == ASSUME TriggersInv, NEW m \in Names, Fire(m) PROVE TriggersInv'
<1> USE DEF Fire, timerVars, loopVars, folderVars, diskVars, counters
<1>1. TriggersTypeOK'
  BY DEF TriggersInv, TriggersTypeOK
<1>2. UnseenInv' /\ NewDirInv'
  BY DEF TriggersInv, UnseenInv, NewDirInv
<1>3. ASSUME NEW n \in Names, Stirred(n) PROVE Stirred(n)'
  BY <1>3 DEF Stirred, TriggersInv, TriggersTypeOK
<1>4. ChangeIsOnItsWay'
  BY <1>3 DEF TriggersInv, TriggersTypeOK, ChangeIsOnItsWay, Names
<1> QED
  BY <1>1, <1>2, <1>4 DEF TriggersInv

\* A flush that has the lock is about to send.
LEMMA FlushInv == ASSUME TriggersInv, NEW m \in Names, Flush(m) PROVE TriggersInv'
<1> USE DEF Flush, timerVars, loopVars, folderVars, diskVars, counters
<1>1. TriggersTypeOK'
  BY DEF TriggersInv, TriggersTypeOK
<1>2. UnseenInv' /\ NewDirInv'
  BY DEF TriggersInv, UnseenInv, NewDirInv
<1>3. sending' > 0
  BY DEF TriggersInv, TriggersTypeOK
<1> QED
  BY <1>1, <1>2, <1>3 DEF TriggersInv, ChangeIsOnItsWay

\* What was sent is in the channel.
LEMMA SendInv == ASSUME TriggersInv, Send PROVE TriggersInv'
<1> USE DEF Send, timerVars, loopVars, folderVars, diskVars, counters
<1>1. TriggersTypeOK'
  BY TriggersAssumption DEF TriggersInv, TriggersTypeOK
<1>2. UnseenInv' /\ NewDirInv'
  BY DEF TriggersInv, UnseenInv, NewDirInv
<1>3. queued' > 0
  BY TriggersAssumption DEF TriggersInv, TriggersTypeOK
<1> QED
  BY <1>1, <1>2, <1>3 DEF TriggersInv, ChangeIsOnItsWay

\* Every way to request a pass leaves the request in syncReq.
LEMMA TriggerInv ==
  ASSUME TriggersInv, TakeEvent \/ TakeTick \/ AddTriggers PROVE TriggersInv'
<1> USE DEF TakeEvent, TakeTick, AddTriggers, TriggerSync, timerVars, loopVars, folderVars,
            diskVars, counters
<1>1. TriggersTypeOK'
  <2>1. queued' \in 0..EventSlots
    BY TriggersAssumption DEF TriggersInv, TriggersTypeOK
  <2> QED
    BY <2>1 DEF TriggersInv, TriggersTypeOK
<1>2. UnseenInv' /\ NewDirInv'
  BY DEF TriggersInv, UnseenInv, NewDirInv
<1>3. slot'
  OBVIOUS
<1> QED
  BY <1>1, <1>2, <1>3 DEF TriggersInv, ChangeIsOnItsWay

\* Ticks and the end of a pass take nothing off its way.
LEMMA IdleInv == ASSUME TriggersInv, Poll \/ EndPass PROVE TriggersInv'
<1> USE DEF Poll, EndPass, timerVars, loopVars, folderVars, diskVars, counters
<1>1. TriggersTypeOK'
  BY DEF TriggersInv, TriggersTypeOK
<1>2. UnseenInv' /\ NewDirInv'
  BY DEF TriggersInv, UnseenInv, NewDirInv
<1>3. ChangeIsOnItsWay'
  BY DEF TriggersInv, ChangeIsOnItsWay, Stirred
<1> QED
  BY <1>1, <1>2, <1>3 DEF TriggersInv

\* A pass that begins will read every file of a folder that is not paused.
LEMMA BeginPassInv == ASSUME TriggersInv, BeginPass PROVE TriggersInv'
<1> USE DEF BeginPass, timerVars, folderVars, counters
<1>1. TriggersTypeOK'
  BY DEF TriggersInv, TriggersTypeOK, Covered
<1>2. UnseenInv' /\ NewDirInv'
  BY DEF TriggersInv, UnseenInv, NewDirInv
<1>3. \A f \in (unseen \ missed)' : f \in left'
  BY DEF TriggersInv, TriggersTypeOK, UnseenInv, Covered
<1> QED
  BY <1>1, <1>2, <1>3 DEF TriggersInv, ChangeIsOnItsWay

\* The scan takes one file off the list, and settles that file.
LEMMA ReadInv ==
  ASSUME TriggersInv, NEW f \in Files, Read(f) \/ Skip(f) PROVE TriggersInv'
<1> USE DEF Read, Skip, timerVars, folderVars, counters
<1>1. TriggersTypeOK'
  BY DEF TriggersInv, TriggersTypeOK
<1>2. UnseenInv' /\ NewDirInv'
  BY TriggersAssumption DEF TriggersInv, TriggersTypeOK, UnseenInv, NewDirInv
<1>3. ChangeIsOnItsWay'
  BY DEF TriggersInv, ChangeIsOnItsWay, Stirred
<1> QED
  BY <1>1, <1>2, <1>3 DEF TriggersInv

\* A folder that is added owes its files a pass, which its handler will request.
LEMMA AddFolderInv == ASSUME TriggersInv, NEW m \in Folders, AddFolder(m) PROVE TriggersInv'
<1> USE DEF AddFolder, Asked, timerVars, loopVars, FilesOf
<1>1. TriggersTypeOK'
  BY DEF TriggersInv, TriggersTypeOK
<1>2. UnseenInv' /\ NewDirInv'
  BY TriggersAssumption DEF TriggersInv, TriggersTypeOK, UnseenInv, NewDirInv
<1>3. adding'
  OBVIOUS
<1> QED
  BY <1>1, <1>2, <1>3 DEF TriggersInv, ChangeIsOnItsWay

\* Pausing, resuming and removing a folder leave all events where they are.
LEMMA FolderInv ==
  ASSUME TriggersInv, NEW m \in Folders, PauseFolder(m) \/ RemoveFolder(m) PROVE TriggersInv'
<1> USE DEF PauseFolder, RemoveFolder, Asked, timerVars, loopVars, diskVars, FilesOf
<1>1. TriggersTypeOK'
  BY DEF TriggersInv, TriggersTypeOK
<1>2. UnseenInv' /\ NewDirInv'
  BY TriggersAssumption DEF TriggersInv, TriggersTypeOK, UnseenInv, NewDirInv
<1>3. ChangeIsOnItsWay'
  BY DEF TriggersInv, ChangeIsOnItsWay, Stirred
<1> QED
  BY <1>1, <1>2, <1>3 DEF TriggersInv

\* Steps that change nothing keep the invariant.
LEMMA StutterInv == ASSUME TriggersInv, UNCHANGED vars PROVE TriggersInv'
BY DEF TriggersInv, vars, TriggersTypeOK, UnseenInv, NewDirInv, ChangeIsOnItsWay, Stirred

\* TriggersInv is an invariant: one lemma per action.
LEMMA TriggersInvariance == Spec => []TriggersInv
<1>1. Init => TriggersInv
  BY TriggersInit
<1>2. TriggersInv /\ [Next]_vars => TriggersInv'
  <2> SUFFICES ASSUME TriggersInv, [Next]_vars PROVE TriggersInv'
    OBVIOUS
  <2> USE EditInv, MkdirInv, HandleInv, ArmInv, FireInv, FlushInv, SendInv, TriggerInv, IdleInv,
          BeginPassInv, ReadInv, AddFolderInv, FolderInv, StutterInv
  <2> QED
    BY DEF Next, UserStep, HandleStep, AskStep, PassStep
<1> QED
  BY <1>1, <1>2, PTL DEF Spec

\* Every variable keeps its type; in particular the event channel never holds
\* more than its slots, and only mirrored folders are paused.
THEOREM TriggersTypesHold == Spec => []TriggersTypeOK
<1>1. TriggersInv => TriggersTypeOK
  BY DEF TriggersInv
<1> QED
  BY <1>1, TriggersInvariance, PTL

\* No sequence of changes, timers, requests and passes loses a change, for any
\* number of files, directories, folders and event slots.
THEOREM NoChangeIsForgotten == Spec => []ChangeIsOnItsWay
<1>1. TriggersInv => ChangeIsOnItsWay
  BY DEF TriggersInv
<1> QED
  BY <1>1, TriggersInvariance, PTL
=============================================================================
