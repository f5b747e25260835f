------------------------------- MODULE Values -------------------------------
(* The value shared by all modules for a nil pointer, SQL NULL and "".      *)
CONSTANT Nil
=============================================================================
