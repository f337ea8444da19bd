-------------------------------- MODULE Undo --------------------------------
(***************************************************************************)
(* Editing one line with its undo list.  Every command of the shell ends   *)
(* with Shell.run: the cursor check of execute, then SaveWithCommand.      *)
(* Commands differ in how they use the undo list, which is what the        *)
(* actions below tell apart:                                               *)
(*   TypeChar   self-insert, tab-insert: SkipSave, then insert             *)
(*   MoveChar   forward-char, backward-char: SkipSave, then move           *)
(*   DeleteChar delete-char and the kill commands: Save, then edit         *)
(*   InsertText yank, bracketed-paste-begin: edit, neither Save nor skip   *)
(*   viInsertMode, viCommandMode: the two Vi mode changes                  *)
(*   UndoLast, RedoLast, ViRedo, RevertLine                                *)
(***************************************************************************)
EXTENDS UndoList

CONSTANTS
  MaxLen,     \* bound on the length of the line
  MaxItems,   \* bound on the number of undo items
  Modes,      \* the editing modes the user starts in
  Redoers     \* which redo commands are bound: "redo", "vi-redo"

ASSUME BoundsAssumption ==
  /\ MaxLen \in Nat
  /\ MaxItems \in Nat
  /\ Modes \subseteq {"emacs", "vi-insert"}
  /\ Redoers \subseteq {"redo", "vi-redo"}

VARIABLES
  line,     \* the input line
  pos,      \* the cursor position
  main,     \* the main keymap
  hist,     \* the line history of the line
  fault,    \* the items have been indexed with a negative undo position
  prev      \* history variable: the last command, and the line and the undo
            \* position it was run on

vars == <<line, pos, main, hist, fault, prev>>

\* Shell.init: an empty line, saved as the first undo item.
Init ==
  /\ line = << >>
  /\ pos = 0
  /\ main \in Modes
  /\ hist = [pos |-> 0, items |-> <<[line |-> << >>, pos |-> 0]>>]
  /\ fault = FALSE
  /\ prev = [cmd |-> "none", line |-> << >>, undone |-> 0]

-----------------------------------------------------------------------------
\* Mutant: execute does not check the cursor of a command.
UncheckedPos(m, l, p) == p

\* The cursor check at the end of execute, for the main keymap m.
CheckedPos(m, l, p) ==
  IF m = "vi-command" THEN CheckCommand(l, p) ELSE CheckAppend(l, p)

\* The end of Shell.run for command cmd, which leaves main keymap m, line l,
\* cursor p and history h, and raised the flags skip and undoing.
Finish(cmd, m, l, p, h, skip, undoing) ==
  /\ main' = m
  /\ line' = l
  /\ pos' = CheckedPos(m, l, p)
  /\ hist' = Save(h, l, CheckedPos(m, l, p), skip, undoing)
  /\ fault' = (fault \/ (~skip /\ SaveFaults(h, l)))
  /\ prev' = [cmd |-> cmd, line |-> line, undone |-> hist.pos]

TypeChar(ch) ==
  /\ main # "vi-command"
  /\ Len(line) < MaxLen
  /\ Finish("type", main, Insert(line, pos, <<ch>>), pos + 1, hist, TRUE, FALSE)

MoveChar(p) ==
  Finish("move", main, line, p, hist, TRUE, FALSE)

\* Mutant: the line is not saved before the edit.
DeleteCharUnsaved ==
  /\ Len(hist.items) < MaxItems - 1
  /\ Finish("delete", main, CutRune(line, pos), pos, hist, FALSE, FALSE)

\* Shell.deleteChar: the line is saved before the edit, and again after it.
DeleteChar ==
  /\ Len(hist.items) < MaxItems - 1
  /\ IF SaveFaults(hist, line)
     THEN /\ fault' = TRUE
          /\ UNCHANGED <<line, pos, main, hist, prev>>
     ELSE Finish("delete", main, CutRune(line, pos), pos,
                 Save(hist, line, pos, FALSE, FALSE), FALSE, FALSE)

InsertText(ch) ==
  /\ main # "vi-command"
  /\ Len(line) < MaxLen
  /\ Len(hist.items) < MaxItems
  /\ Finish("insert", main, Insert(line, pos, <<ch>>), pos + 1, hist, FALSE, FALSE)

\* Sources.Undo: the line and cursor of the first differing item further back.
\* The flags are raised whether or not there is one.  From a negative undo
\* position the loop indexes the items past their end.
UndoLast ==
  LET n  == UndoTo(hist, line)
      it == ItemAt(hist, n)
  IN  IF hist.items = << >>
      THEN Finish("undo", main, line, pos, hist, TRUE, TRUE)
      ELSE IF hist.pos < 0
      THEN /\ fault' = TRUE
           /\ UNCHANGED <<line, pos, main, hist, prev>>
      ELSE IF UndoStops(hist, line) = {}
      THEN Finish("undo", main, line, pos, [hist EXCEPT !.pos = n], TRUE, TRUE)
      ELSE Finish("undo", main, it.line, CheckAppend(it.line, it.pos),
                  [hist EXCEPT !.pos = n], TRUE, TRUE)

\* Mutant: one redo goes straight to the newest item.
RedoToNewest ==
  LET n  == IF hist.pos > 1 THEN 1 ELSE hist.pos - 1
      it == ItemAt(hist, n)
  IN  IF n < 1
      THEN Finish("redo", main, line, pos, [hist EXCEPT !.pos = n], TRUE, TRUE)
      ELSE Finish("redo", main, it.line, CheckAppend(it.line, it.pos),
                  [hist EXCEPT !.pos = n], TRUE, TRUE)

\* Sources.Redo: one item up; below 1 only the position moves.
Redo ==
  LET n  == hist.pos - 1
      it == ItemAt(hist, n)
  IN  IF hist.items = << >>
      THEN Finish("redo", main, line, pos, hist, TRUE, TRUE)
      ELSE IF n < 1
      THEN Finish("redo", main, line, pos, [hist EXCEPT !.pos = n], TRUE, TRUE)
      ELSE Finish("redo", main, it.line, CheckAppend(it.line, it.pos),
                  [hist EXCEPT !.pos = n], TRUE, TRUE)

RedoLast ==
  /\ "redo" \in Redoers
  /\ hist.pos > -1   \* bound: each further redo only counts down
  /\ Redo

\* Shell.viInsertMode saves by itself, and its run saves again.
viInsertMode ==
  /\ Len(hist.items) < MaxItems
  /\ IF SaveFaults(hist, line)
     THEN /\ fault' = TRUE
          /\ UNCHANGED <<line, pos, main, hist, prev>>
     ELSE Finish("mode", "vi-insert", line, pos,
                 Save(hist, line, pos, FALSE, FALSE), FALSE, FALSE)

\* Shell.viRedo redoes only when something is undone, else inserts.
ViRedo ==
  /\ main = "vi-command"
  /\ "vi-redo" \in Redoers
  /\ IF hist.pos > 0 THEN Redo ELSE viInsertMode

\* Shell.viCommandMode steps back when leaving insert mode.
viCommandMode ==
  /\ main # "emacs"
  /\ Len(hist.items) < MaxItems
  /\ LET back == main = "vi-insert" /\ ~AtBeginningOfLine(line, pos)
     IN  Finish("mode", "vi-command", line,
                CheckCommand(line, IF back THEN pos - 1 ELSE pos),
                hist, FALSE, FALSE)

\* Sources.Revert: back to the first item, all items dropped.
RevertLine ==
  LET it == hist.items[1]
  IN  IF hist.items = << >>
      THEN Finish("revert", main, line, pos, hist, FALSE, FALSE)
      ELSE Finish("revert", main, it.line, CheckAppend(it.line, it.pos),
                  NewLineHistory, FALSE, FALSE)

Next ==
  /\ ~fault
  /\ \/ \E ch \in Char : TypeChar(ch) \/ InsertText(ch)
     \/ \E p \in {pos - 1, pos + 1} : MoveChar(p)
     \/ DeleteChar
     \/ UndoLast
     \/ RedoLast
     \/ ViRedo
     \/ main = "vi-command" /\ viInsertMode
     \/ viCommandMode
     \/ RevertLine

Spec == Init /\ [][Next]_vars

-----------------------------------------------------------------------------
(* Properties                                                              *)

\* The commands, as the history variable tells them apart.
Commands ==
  {"none", "type", "move", "delete", "insert", "undo", "redo", "mode", "revert"}

\* The variables have their types and the cursor is on the line, as the check
\* at the end of execute ensures for every command.
TypeOK ==
  /\ line \in Line
  /\ pos \in 0 .. Len(line)
  /\ main \in {"emacs", "vi-insert", "vi-command"}
  /\ hist \in LineHistory
  /\ fault \in BOOLEAN
  /\ prev \in [cmd : Commands, line : Line, undone : Int]

\* The undo position never passes the oldest item, and is negative only when
\* the last command was the redo command, which counts down unguarded: every
\* other sequence of undos, redos and edits leaves it within the list.
UndoPosInRange ==
  /\ hist.pos <= Len(hist.items)
  /\ hist.pos < 0 => prev.cmd = "redo" \/ fault

\* Every saved cursor position is one of the line saved with it, so that an
\* undo or a revert never needs to correct it.
ItemsFit ==
  \A i \in 1 .. Len(hist.items) : hist.items[i].pos <= Len(hist.items[i].line)

\* While in the middle of the undo list, the line shown is the item the undo
\* position names: no command that changes the line leaves a stale position.
UndoInSync ==
  hist.pos > 0 => /\ hist.pos <= Len(hist.items)
                  /\ line = ItemAt(hist, hist.pos).line

\* An undo right after a command that saves first gives back the line that
\* command was run on, whatever was undone before it.
UndoRestoresDeleted ==
  [][(prev'.cmd = "undo" /\ prev.cmd = "delete" /\ prev.line # line)
       => line' = prev.line]_vars

\* A redo takes back the undo it follows when that undo started from an undone
\* state, even when the undo has skipped several identical items.
RedoStepsBack ==
  [][(prev'.cmd = "redo" /\ prev.cmd = "undo" /\ prev.undone > 0 /\ prev.line # line)
       => line' = prev.line]_vars

\* Contradicted when "redo" is bound.  Redo's comment: it cancels an undo if
\* any has been made; with none made it still counts the position down, and the
\* next save or undo indexes the items past their end.
NoFault == ~fault
=============================================================================
