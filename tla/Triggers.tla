------------------------------ MODULE Triggers ------------------------------
(***************************************************************************)
(* How a local change reaches a pass: the watcher with its debounce timers *)
(* (core/watcher), the trigger channel and the main loop of the daemon     *)
(* (core/cmd/syncdrived/main.go), the poll ticker, and the handlers of the *)
(* control API that ask for a pass or change what a pass covers.           *)
(*                                                                         *)
(* The fsnotify goroutine, the timers' goroutines, the HTTP handlers and   *)
(* the main loop run concurrently.  What a pass does with a file it has    *)
(* read is the subject of MirrorSync; here a change is seen once a scan    *)
(* has read the file after it.  Directories are created, never removed.    *)
(***************************************************************************)
EXTENDS Integers, FiniteSets, Values

CONSTANTS
    Files,
    Dirs,        \* directories that may be created while the daemon runs
    Folders,     \* folders that are or can be mirrored
    AtStart,     \* those mirrored when the daemon starts
    FolderOf,    \* file or directory -> its folder
    DirOf,       \* file or directory -> the created directory it is in, or Nil
    EventSlots,  \* capacity of Watcher.events
    MaxEdits,    \* bound: changes of files
    MaxAsks,     \* bound: requests to the control API
    MaxFaults,   \* bound: files a scan cannot read
    Allowed      \* which behaviours the instance includes

Names == Files \cup Dirs

\* pause, add and remove: folders are administered; locked: a scan cannot read
\* a file.
Behaviours == {"pause", "add", "remove", "locked"}

ASSUME TriggersAssumption ==
    /\ Files \cap Dirs = {} /\ Nil \notin Names
    /\ AtStart \subseteq Folders
    /\ FolderOf \in [Names -> Folders] /\ DirOf \in [Names -> Dirs \cup {Nil}]
    /\ \A n \in Names : DirOf[n] # Nil => FolderOf[DirOf[n]] = FolderOf[n]
    /\ EventSlots \in Nat \ {0} /\ MaxEdits \in Nat /\ MaxAsks \in Nat /\ MaxFaults \in Nat
    /\ Allowed \subseteq Behaviours

VARIABLES
    made,      \* the directories created so far
    watched,   \* those in the watch set of fsnotify
    mirrored,  \* SQLite: mirrored_folders
    paused,    \* SQLite: is_paused
    unseen,    \* files of mirrored folders no scan has read since they changed
    raw,       \* names with an fsnotify event to handle
    handling,  \* name between the two halves of handle, or Nil
    timer,     \* Watcher.pend: name -> its timer: none, running or fired
    loose,     \* name -> running timers that have dropped out of pend
    flushing,  \* name -> flush goroutines that have not got the lock yet
    sending,   \* flush goroutines that send on Watcher.events
    queued,    \* events in the channel
    ticked,    \* the ticker's channel is full
    slot,      \* syncReq is full
    looping,   \* the main loop: in its select, or in a pass
    left,      \* files the scans of the pass have still to read
    adding,    \* a handler has added a folder and not triggered yet
    missed,    \* history: files and directories the watcher owes nothing (see below)
    edits, asks, faults

diskVars == <<made, unseen, missed>>
folderVars == <<mirrored, paused>>
timerVars == <<timer, loose, flushing, sending>>
loopVars == <<ticked, slot, looping, left>>
counters == <<edits, asks, faults>>
vars == <<made, watched, mirrored, paused, unseen, raw, handling, timer, loose, flushing,
          sending, queued, ticked, slot, looping, left, adding, missed, edits, asks, faults>>

May(b) == b \in Allowed
FilesOf(m) == {f \in Files : FolderOf[f] = m}

\* run: the roots are watched, paused or not, and the first pass is requested.
Init ==
    /\ made = {} /\ watched = {}
    /\ mirrored = AtStart /\ paused \in SUBSET AtStart
    /\ unseen = UNION {FilesOf(m) : m \in AtStart} /\ missed = {}
    /\ raw = {} /\ handling = Nil
    /\ timer = [n \in Names |-> "none"]
    /\ loose = [n \in Names |-> 0] /\ flushing = [n \in Names |-> 0]
    /\ sending = 0 /\ queued = 0
    /\ ticked = FALSE /\ slot = TRUE /\ looping = "select" /\ left = {}
    /\ adding = FALSE
    /\ edits = 0 /\ asks = 0 /\ faults = 0
-----------------------------------------------------------------------------
(* The user, and what fsnotify tells of it.                                 *)

\* The directory of n is in the watch set: AddRoot ran at the start only.
Reported(n) == FolderOf[n] \in AtStart /\ (DirOf[n] = Nil \/ DirOf[n] \in watched)
Raised(n) == raw' = raw \cup IF Reported(n) THEN {n} ELSE {}
Unwatched(n) == FolderOf[n] \notin AtStart \/ DirOf[n] \in missed
Present(n) == DirOf[n] = Nil \/ DirOf[n] \in made

Edit(f) ==
    /\ edits < MaxEdits /\ edits' = edits + 1
    /\ Present(f) /\ Raised(f)
    /\ IF FolderOf[f] \in mirrored
       THEN /\ unseen' = unseen \cup {f}
            /\ missed' = missed \cup IF Unwatched(f) THEN {f} ELSE {}
       ELSE UNCHANGED <<unseen, missed>>
    /\ UNCHANGED <<made, watched, folderVars, handling, timerVars, queued, loopVars, adding,
                   asks, faults>>

\* A directory created in one whose event has not been handled yet is not
\* reported, now or later.
Mkdir(d) ==
    /\ d \notin made /\ made' = made \cup {d}
    /\ Present(d) /\ Raised(d)
    /\ missed' = missed \cup IF Unwatched(d) \/ DirOf[d] \in raw THEN {d} ELSE {}
    /\ UNCHANGED <<watched, folderVars, unseen, handling, timerVars, queued, loopVars,
                   adding, counters>>
-----------------------------------------------------------------------------
(* Watcher.handle, on the goroutine of Run.                                 *)

\* Mutated form: new directories are not watched.
HandleUnwatched(n) ==
    /\ handling = Nil /\ n \in raw
    /\ raw' = raw \ {n} /\ handling' = n
    /\ UNCHANGED <<watched, diskVars, folderVars, timerVars, queued, loopVars, adding, counters>>

\* First half: a new directory joins the watch set.
Handle(n) ==
    /\ handling = Nil /\ n \in raw
    /\ raw' = raw \ {n} /\ handling' = n
    /\ watched' = watched \cup ({n} \cap Dirs)
    /\ UNCHANGED <<diskVars, folderVars, timerVars, queued, loopVars, adding, counters>>

\* Second half, under the lock: a running timer is stopped, one that has fired
\* is past stopping; a new one starts in either case.
Arm ==
    /\ handling # Nil
    /\ timer' = [timer EXCEPT ![handling] = "running"] /\ handling' = Nil
    /\ UNCHANGED <<watched, diskVars, folderVars, raw, loose, flushing, sending, queued,
                   loopVars, adding, counters>>

\* A timer fires: its goroutine calls flush.
Fire(n) ==
    /\ \/ timer[n] = "running" /\ timer' = [timer EXCEPT ![n] = "fired"] /\ UNCHANGED loose
       \/ loose[n] > 0 /\ loose' = [loose EXCEPT ![n] = @ - 1] /\ UNCHANGED timer
    /\ flushing' = [flushing EXCEPT ![n] = @ + 1]
    /\ UNCHANGED <<watched, diskVars, folderVars, raw, handling, sending, queued, loopVars,
                   adding, counters>>

\* flush, under the lock: the entry of pend goes, even if it is by now that of
\* a later timer, which then runs on outside of pend.
Flush(n) ==
    /\ flushing[n] > 0 /\ flushing' = [flushing EXCEPT ![n] = @ - 1]
    /\ loose' = [loose EXCEPT ![n] = @ + IF timer[n] = "running" THEN 1 ELSE 0]
    /\ timer' = [timer EXCEPT ![n] = "none"]
    /\ sending' = sending + 1
    /\ UNCHANGED <<watched, diskVars, folderVars, raw, handling, queued, loopVars, adding, counters>>

\* Mutated form: the send does not wait for a free slot.
SendUnbounded ==
    /\ sending > 0 /\ sending' = sending - 1 /\ queued' = queued + 1
    /\ UNCHANGED <<watched, diskVars, folderVars, raw, handling, timer, loose, flushing,
                   loopVars, adding, counters>>

\* The send blocks while the channel is full.
Send ==
    /\ sending > 0 /\ queued < EventSlots
    /\ sending' = sending - 1 /\ queued' = queued + 1
    /\ UNCHANGED <<watched, diskVars, folderVars, raw, handling, timer, loose, flushing,
                   loopVars, adding, counters>>
-----------------------------------------------------------------------------
(* The main loop of run.                                                    *)

\* TriggerSync: a request that finds the channel full is dropped.
TriggerSync == slot' = TRUE

TakeEvent ==
    /\ looping = "select" /\ queued > 0 /\ queued' = queued - 1 /\ TriggerSync
    /\ UNCHANGED <<watched, diskVars, folderVars, raw, handling, timerVars, ticked, looping,
                   left, adding, counters>>

Poll ==
    /\ ~ticked /\ ticked' = TRUE
    /\ UNCHANGED <<watched, diskVars, folderVars, raw, handling, timerVars, queued, slot,
                   looping, left, adding, counters>>

\* Mutated form: the tick is taken and nothing is triggered.
TakeTickOnly ==
    /\ looping = "select" /\ ticked /\ ticked' = FALSE
    /\ UNCHANGED <<watched, diskVars, folderVars, raw, handling, timerVars, queued, slot,
                   looping, left, adding, counters>>

TakeTick ==
    /\ looping = "select" /\ ticked /\ ticked' = FALSE /\ TriggerSync
    /\ UNCHANGED <<watched, diskVars, folderVars, raw, handling, timerVars, queued,
                   looping, left, adding, counters>>

Covered == {f \in Files : FolderOf[f] \in mirrored \ paused}

\* syncAll: what is mirrored and not paused now is scanned in this pass.
BeginPass ==
    /\ looping = "select" /\ slot /\ slot' = FALSE /\ looping' = "pass"
    /\ left' = Covered
    /\ missed' = missed \cup {f \in unseen : FolderOf[f] \in paused}
    /\ UNCHANGED <<watched, made, unseen, folderVars, raw, handling, timerVars, queued, ticked,
                   adding, counters>>

\* The scan reads a file; one that is not there yet is no loss.
Read(f) ==
    /\ f \in left /\ left' = left \ {f}
    /\ unseen' = unseen \ {f} /\ missed' = missed \ {f}
    /\ UNCHANGED <<watched, made, folderVars, raw, handling, timerVars, queued, ticked, slot,
                   looping, adding, counters>>

\* A locked or unreadable file is skipped.
Skip(f) ==
    /\ May("locked") /\ faults < MaxFaults /\ faults' = faults + 1
    /\ f \in left /\ left' = left \ {f}
    /\ missed' = missed \cup ({f} \cap unseen)
    /\ UNCHANGED <<watched, made, unseen, folderVars, raw, handling, timerVars, queued, ticked,
                   slot, looping, adding, edits, asks>>

\* Mutated form: requests made during the pass count as served by it.
EndPassDrained ==
    /\ looping = "pass" /\ left = {} /\ looping' = "select" /\ slot' = FALSE
    /\ UNCHANGED <<watched, diskVars, folderVars, raw, handling, timerVars, queued, ticked,
                   left, adding, counters>>

EndPass ==
    /\ looping = "pass" /\ left = {} /\ looping' = "select"
    /\ UNCHANGED <<watched, diskVars, folderVars, raw, handling, timerVars, queued, ticked,
                   slot, left, adding, counters>>
-----------------------------------------------------------------------------
(* The control API.                                                         *)

Asked == asks < MaxAsks /\ asks' = asks + 1 /\ UNCHANGED <<edits, faults>>

\* handleAddFolder: the folder is recorded, then a pass is requested.
AddFolder(m) ==
    /\ May("add") /\ Asked
    /\ ~adding /\ adding' = TRUE
    /\ m \notin mirrored /\ mirrored' = mirrored \cup {m}
    /\ unseen' = unseen \cup FilesOf(m) /\ missed' = missed \ FilesOf(m)
    /\ UNCHANGED <<watched, made, paused, raw, handling, timerVars, queued, loopVars>>

AddTriggers ==
    /\ adding /\ adding' = FALSE /\ TriggerSync
    /\ UNCHANGED <<watched, diskVars, folderVars, raw, handling, timerVars, queued, ticked,
                   looping, left, counters>>

\* handlePauseFolder sets or clears the flag and triggers nothing.
PauseFolder(m) ==
    /\ May("pause") /\ Asked
    /\ m \in mirrored
    /\ paused' = IF m \in paused THEN paused \ {m} ELSE paused \cup {m}
    /\ UNCHANGED <<watched, diskVars, mirrored, raw, handling, timerVars, queued, loopVars, adding>>

RemoveFolder(m) ==
    /\ May("remove") /\ Asked
    /\ m \in mirrored /\ mirrored' = mirrored \ {m} /\ paused' = paused \ {m}
    /\ unseen' = unseen \ FilesOf(m) /\ missed' = missed \ FilesOf(m)
    /\ UNCHANGED <<watched, made, raw, handling, timerVars, queued, loopVars, adding>>
-----------------------------------------------------------------------------
UserStep == (\E f \in Files : Edit(f)) \/ (\E d \in Dirs : Mkdir(d))
HandleStep == Arm \/ \E n \in Names : Handle(n)
AskStep == \E m \in Folders : AddFolder(m) \/ PauseFolder(m) \/ RemoveFolder(m)
PassStep == EndPass \/ \E f \in Files : Read(f) \/ Skip(f)

Next == \/ UserStep \/ HandleStep \/ (\E n \in Names : Fire(n) \/ Flush(n)) \/ Send
        \/ TakeEvent \/ Poll \/ TakeTick \/ BeginPass \/ PassStep \/ AskStep \/ AddTriggers

Spec == Init /\ [][Next]_vars

\* The ticker ticks; a pass goes on; of the branches that are ready, the select
\* of the main loop takes each with equal chances.
FairSpec == Spec /\ WF_vars(Poll) /\ WF_vars(TakeTick) /\ WF_vars(BeginPass) /\ WF_vars(PassStep)
-----------------------------------------------------------------------------
\* Types of the variables; the channel holds at most EventSlots events.
TriggersTypeOK ==
    /\ made \subseteq Dirs /\ watched \subseteq Dirs
    /\ mirrored \subseteq Folders /\ paused \subseteq mirrored
    /\ unseen \subseteq Files /\ missed \subseteq unseen \cup made /\ left \subseteq Files
    /\ raw \subseteq Names /\ handling \in Names \cup {Nil}
    /\ timer \in [Names -> {"none", "running", "fired"}]
    /\ loose \in [Names -> Nat] /\ flushing \in [Names -> Nat]
    /\ sending \in Nat /\ queued \in 0..EventSlots
    /\ ticked \in BOOLEAN /\ slot \in BOOLEAN /\ adding \in BOOLEAN
    /\ looping \in {"select", "pass"}
    /\ edits \in Nat /\ asks \in Nat /\ faults \in Nat

\* An event of n is somewhere between fsnotify and the lock of flush.
Stirred(n) == n \in raw \/ handling = n \/ timer[n] = "running" \/ loose[n] > 0 \/ flushing[n] > 0

\* No change is forgotten between the watcher, its timers, the two channels and
\* a running pass: a file that changed is about to be read, or a pass that will
\* read it is requested, or an event that leads to such a request is on its
\* way.  The watcher owes nothing to a file of a folder added since the start,
\* to one that a pass left out as paused or could not read, and to what is in a
\* directory that was created before the one around it was watched.
ChangeIsOnItsWay ==
    \A f \in unseen \ missed :
        \/ f \in left \/ slot \/ adding \/ sending > 0 \/ queued > 0
        \/ \E n \in {f} \cup Dirs : Stirred(n)

\* What makes ChangeIsOnItsWay inductive: only mirrored folders have unseen
\* files, and a directory that is to be watched and is not has its event in raw.
UnseenInv == \A f \in unseen : FolderOf[f] \in mirrored
NewDirInv == \A d \in made \ (watched \cup missed) : d \in raw
TriggersInv == TriggersTypeOK /\ UnseenInv /\ NewDirInv /\ ChangeIsOnItsWay

\* Whatever the watcher misses, the poll makes good: a changed file is read, or
\* its folder is paused or removed.
ChangeIsSeen ==
    \A f \in Files : f \in unseen ~> (f \notin unseen \/ FolderOf[f] \in paused)
=============================================================================
