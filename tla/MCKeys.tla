------------------------------- MODULE MCKeys -------------------------------
(* Small instances of Keys: two keys, one resize, and at most one report     *)
(* that a read cuts or change of the stack that overlaps an append.          *)
EXTENDS Keys
=============================================================================
