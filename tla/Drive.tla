------------------------------- MODULE Drive -------------------------------
(***************************************************************************)
(* The objects in the mirror containers on Google Drive, as core/drive     *)
(* acts on them.  A container is identified with its relation: rel is the  *)
(* relation whose container (or whose holding tank) holds the object.  An  *)
(* object never changes its relation or path: uploads update it in place   *)
(* and moves go between a path's folder and the container's own tank.      *)
(*                                                                         *)
(* where:  none    the id has not been used                                *)
(*         live    at its path in the container                            *)
(*         tank    in the hidden holding-tank folder                       *)
(*         removed permanently deleted by someone on drive.google.com      *)
(*         reaped  permanently deleted by the retention sweep              *)
(*         purged  permanently deleted on the user's request               *)
(* since is the day of its last move into the tank.                        *)
(***************************************************************************)
EXTENDS Integers

Places == {"none", "live", "tank", "removed", "reaped", "purged"}

Exists(obj) == obj.where \in {"live", "tank"}

\* Files.Create: a new object at the path.
Create(objs, id, rel, path, content) ==
    [objs EXCEPT ![id] = [rel |-> rel, path |-> path, content |-> content,
                          where |-> "live", since |-> 0]]

\* Files.Update with media: new content, in whatever folder the object is.
Update(objs, id, content) == [objs EXCEPT ![id] = [@ EXCEPT !.content = content]]

MoveToTank(objs, id, day) ==
    LET first == IF objs[id].where = "tank" THEN objs[id].since ELSE day
    IN  [objs EXCEPT ![id] = [@ EXCEPT !.where = "tank", !.since = first]]

MoveToContainer(objs, id) == [objs EXCEPT ![id] = [@ EXCEPT !.where = "live"]]

\* Files.Delete; an object already gone counts as deleted.
PermanentDelete(objs, id, by) ==
    IF Exists(objs[id]) THEN [objs EXCEPT ![id] = [@ EXCEPT !.where = by]] ELSE objs

\* ListFolderRecursive on relation rel's container: the MD5 (the content) of
\* each object in it.  The tank is never listed.
ListFolderRecursive(objs, rel) ==
    {o \in DOMAIN objs : objs[o].rel = rel /\ objs[o].where = "live"}
=============================================================================
