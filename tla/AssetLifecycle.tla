--------------------------- MODULE AssetLifecycle ---------------------------
(***************************************************************************)
(* What SyncDrive promises about one cloud object, whatever pass, restore, *)
(* sweep and purge do concurrently: a mirrored object is only ever moved   *)
(* to the holding tank, it can come back from there, and the retention     *)
(* manager destroys it only in the tank and only after the holding period. *)
(***************************************************************************)
EXTENDS Integers

CONSTANTS Assets, HoldingDays

VARIABLES place, since, day

vars == <<place, since, day>>

Init == /\ place = [a \in Assets |-> "none"]
        /\ since = [a \in Assets |-> 0]
        /\ day = 0

Go(a, from, to) ==
    /\ place[a] \in from
    /\ place' = [place EXCEPT ![a] = to]

\* Created by an upload, or by someone else on drive.google.com.
Appear(a) == Go(a, {"none"}, "live") /\ UNCHANGED <<since, day>>

Quarantine(a) ==
    /\ Go(a, {"live"}, "tank")
    /\ since' = [since EXCEPT ![a] = day] /\ UNCHANGED day

Recover(a) == Go(a, {"tank"}, "live") /\ UNCHANGED <<since, day>>

\* The retention sweep.
Expire(a) ==
    /\ Go(a, {"tank"}, "reaped")
    /\ since[a] + HoldingDays <= day
    /\ UNCHANGED <<since, day>>

\* The user empties the tank, or one entry of it.
Purge(a) == Go(a, {"tank"}, "purged") /\ UNCHANGED <<since, day>>

\* Deleted by someone on drive.google.com.
Vanish(a) == Go(a, {"live", "tank"}, "removed") /\ UNCHANGED <<since, day>>

NextDay == day' = day + 1 /\ UNCHANGED <<place, since>>

Next == \/ \E a \in Assets : \/ Appear(a) \/ Quarantine(a) \/ Recover(a)
                             \/ Expire(a) \/ Purge(a) \/ Vanish(a)
        \/ NextDay

Spec == Init /\ [][Next]_vars
=============================================================================
