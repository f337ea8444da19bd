------------------------------ MODULE UndoList ------------------------------
(***************************************************************************)
(* history.lineHistory: the saved states of one line, as operators.        *)
(* A line history is a record with                                         *)
(*    items  the saved states, oldest first, each a line and a position,   *)
(*    pos    how many undo items, counted from the end, are undone.        *)
(***************************************************************************)
EXTENDS LineCursor

Item == [line : Line, pos : Nat]

LineHistory == [pos : Int, items : Seq(Item)]

NewLineHistory == [pos |-> 0, items |-> << >>]

LastItem(lh) == lh.items[Len(lh.items)]

\* The item n undo steps back.
ItemAt(lh, n) == lh.items[Len(lh.items) - n + 1]

\* Mutant: the lines are not compared.
IsLastAlways(lh, l) == Len(lh.items) > 0

\* Whether the line is the one that was saved last.
IsLast(lh, l) == Len(lh.items) > 0 /\ LastItem(lh).line = l

-----------------------------------------------------------------------------
(* Saving                                                                  *)

\* The cut items[:len-pos] reaches past the end of items when pos < 0: a
\* run-time fault (or stale items, when the array has room for them).
SaveFaults(lh, l) == lh.pos < 0 /\ ~IsLast(lh, l)

\* Sources.Save past its guard and without its deferred Reset.
SaveItem(lh, l, p) ==
  LET n      == Len(lh.items)
      undone == IF lh.pos > n THEN n ELSE lh.pos
  IN  IF IsLast(lh, l)
      THEN [lh EXCEPT !.items[n].pos = CheckAppend(l, p)]
      ELSE [pos   |-> undone,
            items |-> Append(SubSeq(lh.items, 1, n - undone),
                             [line |-> l,
                              pos  |-> CheckCommand(l, CheckAppend(l, p))])]

\* Mutant: the undo position outlives the command that follows an undo.
ResetNever(lh, undoing) == lh

\* Sources.Reset.
Reset(lh, undoing) == IF undoing THEN lh ELSE [lh EXCEPT !.pos = 0]

\* Sources.Save with the flags skip and undoing that the command has raised.
\* A faulting save leaves the history as it is; SaveFaults reports it.
Save(lh, l, p, skip, undoing) ==
  IF ~skip /\ SaveFaults(lh, l)
  THEN lh
  ELSE Reset(IF skip THEN lh ELSE SaveItem(lh, l, p), undoing)

-----------------------------------------------------------------------------
(* Undoing                                                                 *)

\* The undo positions at which Undo stops: past the current one, on an item
\* whose line differs from the current line.
UndoStops(lh, l) ==
  {n \in lh.pos + 1 .. Len(lh.items) : ItemAt(lh, n).line # l}

\* Mutant: the end of the list is not checked after the increment.
UndoToUnchecked(lh, l) ==
  IF UndoStops(lh, l) = {} THEN lh.pos + 1 ELSE Min(UndoStops(lh, l))

\* The position Undo moves to: the first stop, or the end of the list.
UndoTo(lh, l) ==
  IF UndoStops(lh, l) = {} THEN Len(lh.items) ELSE Min(UndoStops(lh, l))
=============================================================================
