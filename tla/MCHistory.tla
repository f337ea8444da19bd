----------------------------- MODULE MCHistory ------------------------------
(* Small instances of History: lines over one or two letters, and sources   *)
(* that are empty or hold one line when they are added.                     *)
EXTENDS History

CONSTANTS a, b, newline, space, f, g, mem

OneChar == {a}
TwoChars == {a, b}

\* history-size is not set.
Unlimited == -1

\* The sources added before the first loop.
NoneAdded == << >>
AddedM == <<mem>>

\* A source holds one line when it is added, g none.
LoadedOne == [n \in Added |-> IF n = g THEN << >> ELSE <<<<a>>>>]
=============================================================================
