----------------------------- MODULE MCTriggers -----------------------------
(* A finite instance of Triggers for TLC: folder A is mirrored from the     *)
(* start and gets a new directory with another one in it, folder B can be   *)
(* added.                                                                   *)
EXTENDS Triggers

CONSTANTS A, B, inner, other, dir, sub

FolderOfName == [n \in Names |-> IF n = other THEN B ELSE A]
DirOfName == [n \in Names |-> IF n = inner THEN sub ELSE IF n = sub THEN dir ELSE Nil]
=============================================================================
