------------------------------- MODULE Merge -------------------------------
(***************************************************************************)
(* The pure decision core of the reconciliation engine (core/sync/merge.go *)
(* and the candidate selection of core/sync/engine.go): the 3-way merge of *)
(* one path over the local scan, the remote listing and the SQLite base    *)
(* row, and the choice of "our" object among same-named Drive objects.     *)
(*                                                                         *)
(* A state is a record, or Nil for a nil pointer.  Nil also stands for the *)
(* empty string in a remote id or an MD5 (Google-native formats have no    *)
(* MD5).  Drive returns the objects of a folder in no particular order, so *)
(* "the first candidate" is any candidate: the operators that pick one     *)
(* return the set of objects the code may end up with.                     *)
(***************************************************************************)
EXTENDS Integers, Values

CONSTANT
    TicksPerSecond  \* resolution of file timestamps, in clock ticks per second

ASSUME TicksAssumption == TicksPerSecond \in Nat \ {0}

Actions == {"NONE", "UPLOAD", "REUPLOAD", "TRASH", "CONFLICT", "DEDUPE", "ADOPT"}

\* time.Truncate(time.Second): FAT-like filesystems store coarse timestamps.
Second(t) == t \div TicksPerSecond

\* Mutated form: the comparison forgets the modification time.
SizeOnlyDiffers(local, base) ==
    IF local = Nil \/ base = Nil
    THEN (local # Nil) # (base # Nil)
    ELSE local.size # base.size

localDiffersFromBase(local, base) ==
    IF local = Nil \/ base = Nil
    THEN (local # Nil) # (base # Nil)
    ELSE \/ local.size # base.size
         \/ Second(local.mtime) # Second(base.mtime)

\* Mutated form: an object that has vanished from the listing is no change.
IgnoresRemoval(remote, base) ==
    IF base = Nil THEN remote # Nil
    ELSE IF remote = Nil THEN FALSE
    ELSE IF remote.id # base.remoteID THEN TRUE
    ELSE IF remote.md5 # Nil /\ base.md5 # Nil THEN remote.md5 # base.md5
    ELSE remote.size # base.size

remoteDiffersFromBase(remote, base) ==
    IF base = Nil THEN remote # Nil
    ELSE IF remote = Nil THEN base.remoteID # Nil
    ELSE IF remote.id # base.remoteID THEN TRUE
    ELSE IF remote.md5 # Nil /\ base.md5 # Nil THEN remote.md5 # base.md5
    ELSE remote.size # base.size

\* "Local Is Law".
Merge(local, remote, base) ==
    LET localChanged  == localDiffersFromBase(local, base)
        remoteChanged == remoteDiffersFromBase(remote, base)
    IN  CASE local = Nil /\ base = Nil -> "NONE"
          [] local = Nil /\ base # Nil -> "TRASH"
          [] local # Nil /\ base = Nil -> "UPLOAD"
          [] OTHER -> IF localChanged /\ remoteChanged THEN "CONFLICT"
                      ELSE IF localChanged THEN "UPLOAD"
                      ELSE IF remoteChanged THEN "REUPLOAD"
                      ELSE "NONE"

\* pickRemote: the ids it may choose among the same-named candidates.
pickRemote(cands, trackedID) ==
    IF cands = {} THEN {Nil}
    ELSE IF trackedID \in cands THEN {trackedID}
    ELSE cands

\* pickRemote's second result: the other candidates with the chosen one's MD5.
redundant(cands, chosen, md5) ==
    {o \in cands \ {chosen} : md5[o] # Nil /\ md5[o] = md5[chosen]}

\* findRemoteTwin: the first relation of the chain 1..n with an object at the
\* path, and any of its objects there; at[r] is relation r's candidates.
findRemoteTwin(n, at) ==
    {t \in (1..n) \X UNION {at[r] : r \in 1..n} :
        /\ t[2] \in at[t[1]]
        /\ \A s \in 1..(t[1] - 1) : at[s] = {}}
=============================================================================
