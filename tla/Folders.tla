------------------------------ MODULE Folders -------------------------------
(***************************************************************************)
(* Folders on Google Drive, as core/drive/client.go walks and makes them.  *)
(* A folder is known by its id and several may have one name; dirs[f] is   *)
(* the parent and the name of folder f, and 0 is My Drive.                 *)
(***************************************************************************)
EXTENDS Naturals, Sequences

CONSTANT TrashFolderName

Named(dirs, parent, name) == {f \in DOMAIN dirs : dirs[f] = [parent |-> parent, name |-> name]}

\* A walk of EnsurePath: the folder reached, the names still to find below it,
\* and whether the last search for the first of them came back empty.
Walk(folder, names) == [folder |-> folder, rest |-> names, absent |-> FALSE]

\* Mutated form: the query forgets "in parents".
SearchAnywhere(dirs, walk) ==
    LET found == {f \in DOMAIN dirs : dirs[f].name = Head(walk.rest)}
    IN  IF found = {} THEN {[walk EXCEPT !.absent = TRUE]}
        ELSE {Walk(f, Tail(walk.rest)) : f \in found}

\* EnsureFolder's search: Drive may return any folder of that name.
Search(dirs, walk) ==
    LET found == Named(dirs, walk.folder, Head(walk.rest))
    IN  IF found = {} THEN {[walk EXCEPT !.absent = TRUE]}
        ELSE {Walk(f, Tail(walk.rest)) : f \in found}

\* EnsureFolder's Files.Create, in the search's wake.
Created(dirs, walk) == Append(dirs, [parent |-> walk.folder, name |-> Head(walk.rest)])
AfterCreate(dirs, walk) == Walk(Len(dirs) + 1, Tail(walk.rest))

\* Mutated form: of the folders with one name only the first is walked.
FirstsBelow(dirs, root) ==
    {root} \cup {f \in DOMAIN dirs : /\ dirs[f].parent = root /\ dirs[f].name # TrashFolderName
                                     /\ \A g \in Named(dirs, root, dirs[f].name) : f <= g}

\* The folders ListFolderRecursive walks: every one below the container,
\* except holding tanks.
Below(dirs, root) ==
    LET walked[f \in 0..Len(dirs)] ==
            f = root \/ (f # 0 /\ dirs[f].name # TrashFolderName /\ walked[dirs[f].parent])
    IN  {f \in {root} \cup DOMAIN dirs : walked[f]}

\* Everything in a container, its holding tanks included.
Descendants(dirs, root) ==
    LET within[f \in 0..Len(dirs)] == f = root \/ (f # 0 /\ within[dirs[f].parent])
    IN  {f \in {root} \cup DOMAIN dirs : within[f]}
=============================================================================
