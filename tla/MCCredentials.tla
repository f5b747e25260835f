--------------------------- MODULE MCCredentials ----------------------------
(* Instances of Credentials: accounts and requests are interchangeable.    *)
EXTENDS Credentials, TLC

Symmetry == Permutations(Accounts) \cup Permutations(Flows)
=============================================================================
