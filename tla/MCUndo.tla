------------------------------- MODULE MCUndo -------------------------------
(* Small instances of Undo: lines of up to MaxLen characters out of a letter *)
(* and a newline.                                                            *)
EXTENDS Undo

CONSTANTS a, newline, space

MCChar == {a, newline}
=============================================================================
