---------------------------- MODULE MCRelations -----------------------------
(* Finite instances of Relations for TLC: every path is in one directory,   *)
(* which has the name of a container, and a root starts with one file.      *)
EXTENDS Relations

OneDir == [p \in Paths |-> <<CHOOSE n \in Names : TRUE>>]
OneFile == [p \in Paths |-> IF p = CHOOSE q \in Paths : TRUE
                            THEN CHOOSE c \in Contents : TRUE ELSE Nil]
=============================================================================
