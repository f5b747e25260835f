------------------------------ MODULE MCSpace ------------------------------
(* Finite instances of Space for TLC: the first account of ten units is    *)
(* half full, the second empty or nearly full, a third of unknown size.    *)
EXTENDS Space

Tens == [a \in Accounts |-> IF a = 3 THEN 0 ELSE 10]
HalfFull == {[a \in Accounts |-> IF a = 1 THEN 5 ELSE 0]}
Crowded == HalfFull \cup {[a \in Accounts |-> IF a = 1 THEN 5 ELSE IF a = 2 THEN 9 ELSE 0]}
=============================================================================
