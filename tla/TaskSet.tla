------------------------------ MODULE TaskSet -------------------------------
(***************************************************************************)
(* What SyncChain relies on when it hands the tasks of a pass to the       *)
(* worker pool, and what module MirrorSync assumes: each task is executed  *)
(* at most once, in any order; unless the daemon is being shut down, the   *)
(* pass does not return before all of them were, and its error is nil      *)
(* exactly when none of them failed.                                       *)
(***************************************************************************)
CONSTANTS Tasks,
          Nil    \* no error; not a task

VARIABLES
    active,   \* a pass is executing
    pending,  \* tasks that were not executed yet
    failed,   \* tasks whose execution failed
    stopped,  \* the daemon's context is cancelled
    verdict   \* what the pass returned: nil, or the error of one task

Init ==
    /\ active = FALSE /\ pending = {} /\ failed = {}
    /\ stopped = FALSE /\ verdict = Nil

Start ==
    /\ ~active /\ ~stopped
    /\ active' = TRUE /\ pending' = Tasks /\ failed' = {} /\ verdict' = Nil
    /\ UNCHANGED stopped

Execute(t) ==
    /\ active /\ t \in pending /\ pending' = pending \ {t}
    /\ failed' \in {failed, failed \cup {t}}
    /\ UNCHANGED <<active, stopped, verdict>>

Return ==
    /\ active /\ active' = FALSE
    /\ verdict' \in failed \cup {Nil}
    /\ stopped \/ (pending = {} /\ (verdict' = Nil <=> failed = {}))
    /\ UNCHANGED <<pending, failed, stopped>>

Stop == stopped' = TRUE /\ UNCHANGED <<active, pending, failed, verdict>>

Restart ==
    /\ stopped /\ ~active
    /\ pending' = {} /\ failed' = {} /\ stopped' = FALSE /\ verdict' = Nil
    /\ UNCHANGED active

Next == Start \/ (\E t \in Tasks : Execute(t)) \/ Return \/ Stop \/ Restart

vars == <<active, pending, failed, stopped, verdict>>
Spec == Init /\ [][Next]_vars
=============================================================================
