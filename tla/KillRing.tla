------------------------------ MODULE KillRing ------------------------------
(***************************************************************************)
(* The kill ring that the comments of Buffers.Pop and of yank-pop speak    *)
(* of: the last kills, newest first, at most Size of them.  A kill is      *)
(* added on the top, the oldest one is forgotten when there is no room,    *)
(* and yank-pop rotates the ring: the top goes to the bottom.              *)
(***************************************************************************)
EXTENDS Naturals, Sequences

CONSTANT Size  \* how many kills are kept

VARIABLE ring

\* Kills outlive the line, so that the ring may hold some at the start.
Init == Len(ring) <= Size /\ \A i \in 1 .. Len(ring) : ring[i] # <<>>

Kill ==
  /\ ring' # <<>>
  /\ Head(ring') # <<>>
  /\ Tail(ring') = SubSeq(ring, 1, IF Len(ring) < Size THEN Len(ring) ELSE Size - 1)

\* yank-pop with a numeric argument rotates the ring several times.
Pop == \E n \in 1 .. Len(ring) : ring' = SubSeq(ring, n + 1, Len(ring)) \o SubSeq(ring, 1, n)

Next == Kill \/ Pop

Spec == Init /\ [][Next]_ring
=============================================================================
