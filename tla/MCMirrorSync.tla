---------------------------- MODULE MCMirrorSync ----------------------------
(* Finite instances of MirrorSync for TLC.                                  *)
EXTENDS MirrorSync

\* The contents are numbers: either each has its own size (an edit is seen
\* even within one timestamp second), or all have the same size (only the
\* timestamp tells them apart).
DistinctSizes == [c \in Contents |-> c]
SameSize == [c \in Contents |-> 1]
=============================================================================
