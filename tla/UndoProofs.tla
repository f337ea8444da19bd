----------------------------- MODULE UndoProofs -----------------------------
(***************************************************************************)
(* Proofs about Undo, for lines and undo lists of any length over any set  *)
(* of characters.                                                          *)
(*                                                                         *)
(* Every action but the two faulting ones ends in Finish, so the step of   *)
(* the induction is proved once, for Finish (FinishKeeps), and each action *)
(* only has to give the line, the cursor and the history it ends on.       *)
(***************************************************************************)
EXTENDS Undo, LineLemmas

\* What the invariant UndoInSync says of a history and a line.
Sync(lh, l) ==
  lh.pos > 0 => lh.pos <= Len(lh.items) /\ l = ItemAt(lh, lh.pos).line

\* The inductive invariant.
Inv == TypeOK /\ ItemsFit /\ UndoInSync

\* The keymaps the commands are run in.
Keymap == {"emacs", "vi-insert", "vi-command"}

-----------------------------------------------------------------------------
\* Save on a history that is in sync when the undo position survives.
LEMMA SaveKeeps ==
  ASSUME NEW lh \in LineHistory, NEW l \in Line, NEW p \in Int,
         NEW skip \in BOOLEAN, NEW undoing \in BOOLEAN,
         Fits(lh), undoing => skip /\ Sync(lh, l)
  PROVE  /\ Save(lh, l, p, skip, undoing) \in LineHistory
         /\ Fits(Save(lh, l, p, skip, undoing))
         /\ Sync(Save(lh, l, p, skip, undoing), l)
  <1>1. CASE ~skip /\ SaveFaults(lh, l)
    <2>1. Save(lh, l, p, skip, undoing) = lh /\ lh.pos < 0 /\ lh.pos \in Int
      BY <1>1 DEF Save, SaveFaults, LineHistory
    <2> QED
      BY <2>1 DEF Sync
  <1>2. CASE ~(~skip /\ SaveFaults(lh, l))
    <2> DEFINE h == IF skip THEN lh ELSE SaveItem(lh, l, p)
    <2>1. h \in LineHistory /\ Fits(h)
      BY <1>2, SaveItemKeeps
    <2>2. undoing => Sync(h, l)
      OBVIOUS
    <2> HIDE DEF h
    <2>3. Save(lh, l, p, skip, undoing) = Reset(h, undoing)
      BY <1>2 DEF Save, h
    <2>4. CASE undoing
      BY <2>1, <2>2, <2>3, <2>4 DEF Reset
    <2>5. CASE ~undoing
      <3>1. Reset(h, undoing) = [h EXCEPT !.pos = 0]
        BY <2>5 DEF Reset
      <3>2. /\ [h EXCEPT !.pos = 0] \in LineHistory
            /\ [h EXCEPT !.pos = 0].items = h.items
            /\ [h EXCEPT !.pos = 0].pos = 0
        BY <2>1 DEF LineHistory
      <3> QED
        BY <2>1, <2>3, <3>1, <3>2 DEF Fits, Sync
    <2> QED
      BY <2>4, <2>5
  <1> QED
    BY <1>1, <1>2

\* The induction step, for every action that ends in Finish.
LEMMA FinishKeeps ==
  ASSUME Inv,
         NEW cmd \in Commands, NEW m \in Keymap, NEW l \in Line, NEW p \in Int,
         NEW h \in LineHistory, NEW skip \in BOOLEAN, NEW undoing \in BOOLEAN,
         Fits(h), undoing => skip /\ Sync(h, l),
         Finish(cmd, m, l, p, h, skip, undoing)
  PROVE  Inv'
  <1>1. CheckedPos(m, l, p) \in 0 .. Len(l)
    BY CheckAppendRange, CheckCommandRange DEF CheckedPos
  <1>2. /\ main' = m
        /\ line' = l
        /\ pos' = CheckedPos(m, l, p)
        /\ hist' = Save(h, l, CheckedPos(m, l, p), skip, undoing)
        /\ fault' = (fault \/ (~skip /\ SaveFaults(h, l)))
        /\ prev' = [cmd |-> cmd, line |-> line, undone |-> hist.pos]
    BY DEF Finish
  <1>3. /\ hist' \in LineHistory
        /\ Fits(hist')
        /\ Sync(hist', l)
    BY <1>1, <1>2, SaveKeeps DEF Line
  <1>4. TypeOK'
    BY <1>1, <1>2, <1>3 DEF Inv, TypeOK, Keymap, LineHistory
  <1>5. ItemsFit'
    BY <1>3 DEF ItemsFit, Fits
  <1>6. UndoInSync'
    BY <1>2, <1>3 DEF UndoInSync, Sync, ItemAt
  <1> QED
    BY <1>4, <1>5, <1>6 DEF Inv

\* When Undo runs to the end of the list, the line is that of the first item.
LEMMA UndoToEnd ==
  ASSUME NEW lh \in LineHistory, NEW l \in Line,
         lh.pos >= 0, UndoStops(lh, l) = {}, Sync(lh, l), Len(lh.items) > 0
  PROVE  l = ItemAt(lh, Len(lh.items)).line
  <1>1. lh.pos \in Nat /\ Len(lh.items) \in Nat
    BY DEF LineHistory
  <1>2. CASE lh.pos < Len(lh.items)
    <2>1. Len(lh.items) \in lh.pos + 1 .. Len(lh.items)
      BY <1>1, <1>2
    <2> QED
      BY <2>1 DEF UndoStops
  <1>3. CASE ~(lh.pos < Len(lh.items))
    BY <1>1, <1>3 DEF Sync
  <1> QED
    BY <1>2, <1>3

-----------------------------------------------------------------------------
\* The invariant holds initially, and every action keeps it.
LEMMA InitInv == Init => Inv
  <1> SUFFICES ASSUME Init PROVE Inv
    OBVIOUS
  <1>1. [line |-> << >>, pos |-> 0] \in Item
    BY DEF Item, Line
  <1>2. <<[line |-> << >>, pos |-> 0]>> \in Seq(Item)
    BY <1>1
  <1>3. hist \in LineHistory
    BY <1>2 DEF Init, LineHistory
  <1>4. TypeOK
    <2>1. << >> \in Line /\ Len(<< >>) = 0
      BY DEF Line
    <2>2. main \in {"emacs", "vi-insert", "vi-command"}
      BY BoundsAssumption DEF Init
    <2>3. prev \in [cmd : Commands, line : Line, undone : Int]
      BY <2>1 DEF Init, Commands
    <2> QED
      <3>1. line \in Line /\ pos \in 0 .. Len(line)
        BY <2>1 DEF Init
      <3>2. fault \in BOOLEAN
        BY DEF Init
      <3> QED
        BY <1>3, <2>2, <2>3, <3>1, <3>2 DEF TypeOK
  <1>5. ItemsFit
    BY DEF Init, ItemsFit
  <1>6. UndoInSync
    BY DEF Init, UndoInSync
  <1> QED
    BY <1>4, <1>5, <1>6 DEF Inv

\* Undo keeps the invariant.
LEMMA UndoKeeps ==
  ASSUME Inv, UndoLast
  PROVE  Inv'
  <1> DEFINE n  == UndoTo(hist, line)
             it == ItemAt(hist, n)
  <1>1. /\ hist \in LineHistory /\ Fits(hist) /\ Sync(hist, line)
        /\ line \in Line /\ pos \in Int /\ main \in Keymap
        /\ hist.pos \in Int /\ Len(hist.items) \in Nat
    BY DEF Inv, TypeOK, ItemsFit, Fits, UndoInSync, Sync, Keymap, LineHistory
  <1>2. CASE hist.items = << >>
    <2>1. Finish("undo", main, line, pos, hist, TRUE, TRUE)
      BY <1>2 DEF UndoLast
    <2> QED
      BY <1>1, <2>1, FinishKeeps DEF Commands
  <1>3. CASE hist.items # << >> /\ hist.pos < 0
    <2>1. fault' = TRUE /\ UNCHANGED <<line, pos, main, hist, prev>>
      BY <1>3 DEF UndoLast
    <2> QED
      BY <2>1 DEF Inv, TypeOK, ItemsFit, UndoInSync, ItemAt
  <1>4. CASE hist.items # << >> /\ ~(hist.pos < 0) /\ UndoStops(hist, line) = {}
    <2>1. n = Len(hist.items) /\ Len(hist.items) > 0
      BY <1>1, <1>4 DEF UndoTo, LineHistory
    <2>2. line = ItemAt(hist, Len(hist.items)).line
      BY <1>1, <1>4, <2>1, UndoToEnd
    <2>3. Finish("undo", main, line, pos, [hist EXCEPT !.pos = n], TRUE, TRUE)
      BY <1>4 DEF UndoLast
    <2>4. /\ [hist EXCEPT !.pos = n] \in LineHistory /\ Fits([hist EXCEPT !.pos = n])
          /\ Sync([hist EXCEPT !.pos = n], line)
      BY <1>1, <2>1, <2>2, MovePos DEF Sync, ItemAt
    <2> HIDE DEF n
    <2> QED
      BY <1>1, <2>3, <2>4, FinishKeeps DEF Commands
  <1>5. CASE hist.items # << >> /\ ~(hist.pos < 0) /\ UndoStops(hist, line) # {}
    <2>1. hist.pos >= 0
      BY <1>1, <1>5
    <2>2. n \in 1 .. Len(hist.items)
      BY <1>1, <1>5, <2>1, UndoToStop
    <2>3. Len(hist.items) - n + 1 \in 1 .. Len(hist.items)
      BY <1>1, <2>2
    <2>4. it.line \in Line /\ CheckAppend(it.line, it.pos) \in Int
      <3>1. it.line \in Line /\ it.pos \in Int
        BY <1>1, <2>3, ItemType DEF ItemAt
      <3>2. CheckAppend(it.line, it.pos) \in 0 .. Len(it.line)
        BY <3>1, CheckAppendRange
      <3> QED
        BY <3>1, <3>2 DEF Line
    <2>5. /\ [hist EXCEPT !.pos = n] \in LineHistory /\ Fits([hist EXCEPT !.pos = n])
          /\ Sync([hist EXCEPT !.pos = n], it.line)
      BY <1>1, <2>2, MovePos DEF Sync, ItemAt
    <2>6. Finish("undo", main, it.line, CheckAppend(it.line, it.pos),
                 [hist EXCEPT !.pos = n], TRUE, TRUE)
      BY <1>5 DEF UndoLast
    <2> HIDE DEF it, n
    <2> QED
      BY <1>1, <2>4, <2>5, <2>6, FinishKeeps DEF Commands
  <1> QED
    BY <1>2, <1>3, <1>4, <1>5

\* Redo keeps the invariant.
LEMMA RedoKeeps ==
  ASSUME Inv, Redo
  PROVE  Inv'
  <1> DEFINE n  == hist.pos - 1
             it == ItemAt(hist, n)
  <1>1. /\ hist \in LineHistory /\ Fits(hist) /\ Sync(hist, line)
        /\ line \in Line /\ pos \in Int /\ main \in Keymap
        /\ hist.pos \in Int /\ n \in Int /\ Len(hist.items) \in Nat
    BY DEF Inv, TypeOK, ItemsFit, Fits, UndoInSync, Sync, Keymap, LineHistory
  <1>2. CASE hist.items = << >>
    <2>1. Finish("redo", main, line, pos, hist, TRUE, TRUE)
      BY <1>2 DEF Redo
    <2> QED
      BY <1>1, <2>1, FinishKeeps DEF Commands
  <1>3. CASE hist.items # << >> /\ n < 1
    <2>1. Finish("redo", main, line, pos, [hist EXCEPT !.pos = n], TRUE, TRUE)
      BY <1>3 DEF Redo
    <2>2. /\ [hist EXCEPT !.pos = n] \in LineHistory /\ Fits([hist EXCEPT !.pos = n])
          /\ Sync([hist EXCEPT !.pos = n], line)
      BY <1>1, <1>3, MovePos DEF Sync
    <2> HIDE DEF n
    <2> QED
      BY <1>1, <2>1, <2>2, FinishKeeps DEF Commands
  <1>4. CASE hist.items # << >> /\ ~(n < 1)
    <2>1. n \in 1 .. Len(hist.items) /\ Len(hist.items) - n + 1 \in 1 .. Len(hist.items)
      BY <1>1, <1>4 DEF Sync
    <2>2. it.line \in Line /\ CheckAppend(it.line, it.pos) \in Int
      <3>1. it.line \in Line /\ it.pos \in Int
        BY <1>1, <2>1, ItemType DEF ItemAt
      <3>2. CheckAppend(it.line, it.pos) \in 0 .. Len(it.line)
        BY <3>1, CheckAppendRange
      <3> QED
        BY <3>1, <3>2 DEF Line
    <2>3. /\ [hist EXCEPT !.pos = n] \in LineHistory /\ Fits([hist EXCEPT !.pos = n])
          /\ Sync([hist EXCEPT !.pos = n], it.line)
      BY <1>1, <2>1, MovePos DEF Sync, ItemAt
    <2>4. Finish("redo", main, it.line, CheckAppend(it.line, it.pos),
                 [hist EXCEPT !.pos = n], TRUE, TRUE)
      BY <1>4 DEF Redo
    <2> HIDE DEF it, n
    <2> QED
      BY <1>1, <2>2, <2>3, <2>4, FinishKeeps DEF Commands
  <1> QED
    BY <1>2, <1>3, <1>4

\* Entering insert mode keeps it.
LEMMA InsertModeKeeps ==
  ASSUME Inv, viInsertMode
  PROVE  Inv'
  <1> DEFINE h == Save(hist, line, pos, FALSE, FALSE)
  <1>1. hist \in LineHistory /\ Fits(hist) /\ line \in Line /\ pos \in Int
    BY DEF Inv, TypeOK, ItemsFit, Fits
  <1>2. h \in LineHistory /\ Fits(h)
    BY <1>1, SaveKeeps
  <1>3. CASE SaveFaults(hist, line)
    BY <1>3 DEF viInsertMode, Inv, TypeOK, ItemsFit, UndoInSync
  <1>4. CASE ~SaveFaults(hist, line)
    <2>1. Finish("mode", "vi-insert", line, pos, h, FALSE, FALSE)
      BY <1>4 DEF viInsertMode
    <2> HIDE DEF h
    <2> QED
      BY <1>1, <1>2, <2>1, FinishKeeps DEF Commands, Keymap
  <1> QED
    BY <1>3, <1>4

\* Revert keeps it.
LEMMA RevertKeeps ==
  ASSUME Inv, RevertLine
  PROVE  Inv'
  <1> DEFINE it == hist.items[1]
  <1>1. /\ hist \in LineHistory /\ Fits(hist) /\ line \in Line /\ pos \in Int
        /\ main \in Keymap
    BY DEF Inv, TypeOK, ItemsFit, Fits, Keymap
  <1>2. CASE hist.items = << >>
    <2>1. Finish("revert", main, line, pos, hist, FALSE, FALSE)
      BY <1>2 DEF RevertLine
    <2> QED
      BY <1>1, <2>1, FinishKeeps DEF Commands
  <1>3. CASE hist.items # << >>
    <2>1. 1 \in 1 .. Len(hist.items)
      BY <1>1, <1>3 DEF LineHistory
    <2>2. it.line \in Line /\ it.pos \in Int
      BY <1>1, <2>1, ItemType
    <2>3. CheckAppend(it.line, it.pos) \in Int
      BY <2>2, CheckAppendRange
    <2>4. NewLineHistory \in LineHistory /\ Fits(NewLineHistory)
      BY DEF NewLineHistory, LineHistory, Fits
    <2>5. Finish("revert", main, it.line, CheckAppend(it.line, it.pos),
                 NewLineHistory, FALSE, FALSE)
      BY <1>3 DEF RevertLine
    <2> HIDE DEF it
    <2> QED
      BY <1>1, <2>2, <2>3, <2>4, <2>5, FinishKeeps DEF Commands
  <1> QED
    BY <1>2, <1>3

\* The invariant is inductive.
LEMMA NextInv == Inv /\ [Next]_vars => Inv'
  <1> SUFFICES ASSUME Inv, [Next]_vars PROVE Inv'
    OBVIOUS
  <1>1. /\ hist \in LineHistory /\ Fits(hist) /\ Sync(hist, line)
        /\ line \in Line /\ pos \in Int /\ main \in Keymap
    BY DEF Inv, TypeOK, ItemsFit, Fits, UndoInSync, Sync, Keymap
  <1>2. ASSUME NEW ch \in Char, TypeChar(ch) PROVE Inv'
    <2> DEFINE l == Insert(line, pos, <<ch>>)
               p == pos + 1
    <2>1. l \in Line /\ p \in Int
      BY <1>1, InsertType
    <2>2. Finish("type", main, l, p, hist, TRUE, FALSE)
      BY <1>2 DEF TypeChar
    <2> HIDE DEF l, p
    <2> QED
      BY <1>1, <2>1, <2>2, FinishKeeps DEF Commands
  <1>3. ASSUME NEW ch \in Char, InsertText(ch) PROVE Inv'
    <2> DEFINE l == Insert(line, pos, <<ch>>)
               p == pos + 1
    <2>1. l \in Line /\ p \in Int
      BY <1>1, InsertType
    <2>2. Finish("insert", main, l, p, hist, FALSE, FALSE)
      BY <1>3 DEF InsertText
    <2> HIDE DEF l, p
    <2> QED
      BY <1>1, <2>1, <2>2, FinishKeeps DEF Commands
  <1>4. ASSUME NEW p \in {pos - 1, pos + 1}, MoveChar(p) PROVE Inv'
    <2>1. p \in Int
      BY <1>1
    <2>2. Finish("move", main, line, p, hist, TRUE, FALSE)
      BY <1>4 DEF MoveChar
    <2> QED
      BY <1>1, <2>1, <2>2, FinishKeeps DEF Commands
  <1>5. CASE DeleteChar
    <2> DEFINE h == Save(hist, line, pos, FALSE, FALSE)
    <2>1. CASE SaveFaults(hist, line)
      <3>1. fault' = TRUE /\ UNCHANGED <<line, pos, main, hist, prev>>
        BY <1>5, <2>1 DEF DeleteChar
      <3> QED
        BY <3>1 DEF Inv, TypeOK, ItemsFit, UndoInSync, ItemAt
    <2>2. CASE ~SaveFaults(hist, line)
      <3>1. Finish("delete", main, CutRune(line, pos), pos, h, FALSE, FALSE)
        BY <1>5, <2>2 DEF DeleteChar
      <3>2. h \in LineHistory /\ Fits(h) /\ CutRune(line, pos) \in Line
        BY <1>1, SaveKeeps, CutRuneType
      <3> HIDE DEF h
      <3> QED
        BY <1>1, <3>1, <3>2, FinishKeeps DEF Commands
    <2> QED
      BY <2>1, <2>2
  <1>6. CASE RedoLast
    BY <1>6, RedoKeeps DEF RedoLast
  <1>7. CASE ViRedo
    BY <1>7, RedoKeeps, InsertModeKeeps DEF ViRedo
  <1>8. CASE viCommandMode
    <2> DEFINE back == main = "vi-insert" /\ ~AtBeginningOfLine(line, pos)
               p    == CheckCommand(line, IF back THEN pos - 1 ELSE pos)
    <2>1. p \in Int
      BY <1>1, CheckCommandRange
    <2>2. Finish("mode", "vi-command", line, p, hist, FALSE, FALSE)
      BY <1>8 DEF viCommandMode
    <2> HIDE DEF p
    <2> QED
      BY <1>1, <2>1, <2>2, FinishKeeps DEF Commands, Keymap
  <1>9. CASE UNCHANGED vars
    BY <1>9 DEF vars, Inv, TypeOK, ItemsFit, UndoInSync, ItemAt
  <1> QED
    BY <1>2, <1>3, <1>4, <1>5, <1>6, <1>7, <1>8, <1>9, UndoKeeps, InsertModeKeeps, RevertKeeps
       DEF Next

\* Every command leaves the cursor on the line and the history well formed
\* (the check at the end of Shell.execute).
THEOREM TypeCorrect == Spec => []TypeOK
  <1>1. Inv => TypeOK
    BY DEF Inv
  <1> QED
    BY <1>1, InitInv, NextInv, PTL DEF Spec

\* Saved positions fit the line saved with them (Sources.Save).
THEOREM SavedPositionsFit == Spec => []ItemsFit
  <1>1. Inv => ItemsFit
    BY DEF Inv
  <1> QED
    BY <1>1, InitInv, NextInv, PTL DEF Spec

\* While undoing, the line shown is the item at the undo position
\* (Sources.Undo, Redo and the deferred Reset of Save).
THEOREM UndoSynchronised == Spec => []UndoInSync
  <1>1. Inv => UndoInSync
    BY DEF Inv
  <1> QED
    BY <1>1, InitInv, NextInv, PTL DEF Spec

-----------------------------------------------------------------------------
\* What a save or a reset does to an undo position that is not negative.
LEMMA SaveNonNegative ==
  ASSUME NEW lh \in LineHistory, NEW l, NEW p,
         NEW skip \in BOOLEAN, NEW undoing \in BOOLEAN, lh.pos >= 0
  PROVE  Save(lh, l, p, skip, undoing).pos >= 0
  <1>1. lh.pos \in Nat /\ Len(lh.items) \in Nat
    BY DEF LineHistory
  <1>2. SaveItem(lh, l, p).pos >= 0
    <2>1. CASE IsLast(lh, l)
      BY <1>1, <2>1 DEF SaveItem, LineHistory
    <2>2. CASE ~IsLast(lh, l)
      BY <1>1, <2>2 DEF SaveItem
    <2> QED
      BY <2>1, <2>2
  <1> DEFINE h == IF skip THEN lh ELSE SaveItem(lh, l, p)
  <1>3. h.pos >= 0
    BY <1>1, <1>2
  <1>4. CASE undoing
    <2>1. Reset(h, undoing).pos >= 0
      BY <1>3, <1>4 DEF Reset
    <2> QED
      BY <1>1, <2>1 DEF Save
  <1>5. CASE ~undoing
    <2>1. DOMAIN lh = {"pos", "items"}
      BY DEF LineHistory
    <2>2. "pos" \in DOMAIN h
      BY <2>1 DEF SaveItem
    <2> HIDE DEF h
    <2>3. Reset(h, undoing).pos = 0
      BY <1>5, <2>2 DEF Reset
    <2> QED
      BY <1>1, <2>3 DEF Save, h
  <1> QED
    BY <1>4, <1>5

\* The reset at the end of a command that is not an undo or a redo.
LEMMA FinishResets ==
  ASSUME NEW cmd, NEW m, NEW l, NEW p, NEW h \in LineHistory,
         NEW skip \in BOOLEAN, Finish(cmd, m, l, p, h, skip, FALSE)
  PROVE  hist'.pos = 0 \/ fault'
  <1> DEFINE g == IF skip THEN h ELSE SaveItem(h, l, CheckedPos(m, l, p))
  <1>1. "pos" \in DOMAIN g
    BY DEF SaveItem, LineHistory
  <1>2. CASE ~skip /\ SaveFaults(h, l)
    BY <1>2 DEF Finish
  <1>3. CASE ~(~skip /\ SaveFaults(h, l))
    <2>1. hist' = Reset(g, FALSE)
      BY <1>3 DEF Finish, Save
    <2> HIDE DEF g
    <2> QED
      BY <1>1, <2>1 DEF Reset
  <1> QED
    BY <1>2, <1>3

\* An undo or a redo leaves the undo position it has moved to.
LEMMA FinishUndoing ==
  ASSUME NEW cmd, NEW m, NEW l, NEW p, NEW h, Finish(cmd, m, l, p, h, TRUE, TRUE)
  PROVE  hist' = h /\ prev'.cmd = cmd
  BY DEF Finish, Save, Reset

\* The undo position never passes the oldest item, and is negative only right
\* after the unguarded redo command (Shell.redo), whatever is bound.  The list
\* is then not empty, which is why an undo on an empty one keeps the position.
THEOREM UndoPosSafe == Spec => []UndoPosInRange
  <1> DEFINE Low == hist.pos < 0 => fault \/ (prev.cmd = "redo" /\ hist.items # << >>)
  <1>1. Init => Low
    BY DEF Init
  <1>2. Inv /\ Low /\ [Next]_vars => Low'
    <2> SUFFICES ASSUME Inv, Low, [Next]_vars PROVE Low'
      OBVIOUS
    <2>1. hist \in LineHistory /\ hist.pos \in Int /\ Len(hist.items) \in Nat
      BY DEF Inv, TypeOK, LineHistory
    <2>2. ASSUME NEW cmd, NEW m, NEW l, NEW p, NEW h \in LineHistory,
                 NEW skip \in BOOLEAN, Finish(cmd, m, l, p, h, skip, FALSE)
          PROVE  Low'
      <3>1. hist'.pos = 0 \/ fault'
        BY <2>2, FinishResets
      <3>2. CASE hist'.pos = 0
        BY <3>2
      <3>3. CASE fault'
        BY <3>3
      <3> QED
        BY <3>1, <3>2, <3>3
    <2>3. Save(hist, line, pos, FALSE, FALSE) \in LineHistory
      <3>1. Fits(hist) /\ line \in Line /\ pos \in Int
        BY DEF Inv, TypeOK, ItemsFit, Fits
      <3> QED
        BY <2>1, <3>1, SaveKeeps
    <2>4. ASSUME NEW ch \in Char, TypeChar(ch) \/ InsertText(ch) PROVE Low'
      BY <2>1, <2>2, <2>4 DEF TypeChar, InsertText
    <2>5. ASSUME NEW p, MoveChar(p) PROVE Low'
      BY <2>1, <2>2, <2>5 DEF MoveChar
    <2>6. CASE DeleteChar
      BY <2>2, <2>3, <2>6 DEF DeleteChar
    <2>7. CASE ~fault /\ UndoLast
      <3>1. CASE hist.items = << >>
        <4>1. hist' = hist
          BY <2>7, <3>1, FinishUndoing DEF UndoLast
        <4> QED
          BY <2>7, <3>1, <4>1
      <3>2. CASE hist.items # << >> /\ hist.pos < 0
        BY <2>7, <3>2 DEF UndoLast
      <3>3. CASE hist.items # << >> /\ ~(hist.pos < 0)
        <4> DEFINE n == UndoTo(hist, line)
        <4>1. n \in Int /\ n >= 0
          <5>1. CASE UndoStops(hist, line) = {}
            BY <2>1, <5>1 DEF UndoTo
          <5>2. CASE UndoStops(hist, line) # {}
            BY <2>1, <3>3, <5>2, UndoToStop DEF Inv, TypeOK
          <5> QED
            BY <5>1, <5>2
        <4> HIDE DEF n
        <4>2. hist' = [hist EXCEPT !.pos = n]
          BY <2>7, <3>3, FinishUndoing DEF UndoLast, n
        <4> QED
          BY <2>1, <4>1, <4>2 DEF LineHistory
      <3> QED
        BY <3>1, <3>2, <3>3
    <2>8. CASE ~fault /\ Redo
      <3>1. CASE hist.items = << >>
        <4>1. hist' = hist
          BY <2>8, <3>1, FinishUndoing DEF Redo
        <4> QED
          BY <2>8, <3>1, <4>1
      <3>2. CASE hist.items # << >>
        <4>1. hist' = [hist EXCEPT !.pos = hist.pos - 1] /\ prev'.cmd = "redo"
          BY <2>8, <3>2, FinishUndoing DEF Redo
        <4> QED
          BY <2>1, <3>2, <4>1 DEF LineHistory
      <3> QED
        BY <3>1, <3>2
    <2>9. CASE viInsertMode
      BY <2>2, <2>3, <2>9 DEF viInsertMode
    <2>10. CASE viCommandMode
      BY <2>1, <2>2, <2>10 DEF viCommandMode
    <2>11. CASE RevertLine
      <3>1. NewLineHistory \in LineHistory
        BY DEF NewLineHistory, LineHistory
      <3> QED
        BY <2>1, <2>2, <2>11, <3>1 DEF RevertLine
    <2>12. CASE UNCHANGED vars
      BY <2>12 DEF vars
    <2> QED
      BY <2>4, <2>5, <2>6, <2>7, <2>8, <2>9, <2>10, <2>11, <2>12
      DEF Next, RedoLast, ViRedo
  <1>3. Inv /\ Low => UndoPosInRange
    BY DEF Inv, TypeOK, UndoInSync, UndoPosInRange, LineHistory
  <1> QED
    BY <1>1, <1>2, <1>3, InitInv, NextInv, PTL DEF Spec

\* Where the redo command is not bound, only vi-redo, which asks for an undone
\* item first (Shell.viRedo), no save and no undo indexes the items out of
\* range: the undo position is never negative.
THEOREM UndoNeverFaults ==
  ASSUME "redo" \notin Redoers
  PROVE  Spec => []NoFault
  <1> DEFINE Pos == hist.pos >= 0 /\ ~fault
  <1>1. Init => Pos
    BY DEF Init
  <1>2. Inv /\ Pos /\ [Next]_vars => Pos'
    <2> SUFFICES ASSUME Inv, Pos, [Next]_vars PROVE Pos'
      OBVIOUS
    <2>1. hist \in LineHistory /\ hist.pos \in Int /\ Len(hist.items) \in Nat
      BY DEF Inv, TypeOK, LineHistory
    <2>2. ASSUME NEW cmd, NEW m, NEW l, NEW p, NEW h \in LineHistory,
                 NEW skip \in BOOLEAN, NEW undoing \in BOOLEAN, h.pos >= 0,
                 Finish(cmd, m, l, p, h, skip, undoing)
          PROVE  Pos'
      <3>1. hist'.pos >= 0
        BY <2>2, SaveNonNegative DEF Finish
      <3>2. ~SaveFaults(h, l)
        BY <2>2 DEF SaveFaults, LineHistory
      <3>3. ~fault'
        BY <2>2, <3>2 DEF Finish
      <3> QED
        BY <3>1, <3>3
    <2>3. ASSUME NEW k \in Int, k >= 0
          PROVE  [hist EXCEPT !.pos = k] \in LineHistory /\ [hist EXCEPT !.pos = k].pos >= 0
      BY <2>1, <2>3 DEF LineHistory
    <2>4. ASSUME NEW ch \in Char, TypeChar(ch) \/ InsertText(ch) PROVE Pos'
      BY <2>1, <2>2, <2>4 DEF TypeChar, InsertText
    <2>5. ASSUME NEW p, MoveChar(p) PROVE Pos'
      BY <2>1, <2>2, <2>5 DEF MoveChar
    <2>6. Save(hist, line, pos, FALSE, FALSE) \in LineHistory /\ Save(hist, line, pos, FALSE, FALSE).pos >= 0
      <3>1. Fits(hist) /\ line \in Line /\ pos \in Int
        BY DEF Inv, TypeOK, ItemsFit, Fits
      <3> QED
        BY <2>1, <3>1, SaveKeeps, SaveNonNegative
    <2>7. CASE DeleteChar
      <3>1. CASE SaveFaults(hist, line)
        BY <2>1, <3>1 DEF SaveFaults
      <3>2. CASE ~SaveFaults(hist, line)
        BY <2>2, <2>6, <2>7, <3>2 DEF DeleteChar
      <3> QED
        BY <3>1, <3>2
    <2>8. CASE UndoLast
      <3>1. CASE hist.items = << >>
        BY <2>1, <2>2, <2>8, <3>1 DEF UndoLast
      <3>2. CASE hist.items # << >>
        <4>1. UndoTo(hist, line) \in Int /\ UndoTo(hist, line) >= 0
          <5>1. CASE UndoStops(hist, line) = {}
            BY <2>1, <5>1 DEF UndoTo
          <5>2. CASE UndoStops(hist, line) # {}
            BY <2>1, <5>2, UndoToStop DEF Inv, TypeOK
          <5> QED
            BY <5>1, <5>2
        <4>2. ~(hist.pos < 0)
          BY <2>1
        <4> QED
          BY <2>2, <2>3, <2>8, <3>2, <4>1, <4>2 DEF UndoLast
      <3> QED
        BY <3>1, <3>2
    <2>9. CASE viInsertMode
      <3>1. ~SaveFaults(hist, line)
        BY <2>1 DEF SaveFaults
      <3> QED
        BY <2>2, <2>6, <2>9, <3>1 DEF viInsertMode
    <2>10. CASE ViRedo
      <3>1. CASE hist.pos > 0
        <4>1. hist.pos - 1 \in Int /\ hist.pos - 1 >= 0
          BY <2>1, <3>1
        <4> QED
          BY <2>1, <2>2, <2>3, <2>10, <3>1, <4>1 DEF ViRedo, Redo
      <3>2. CASE ~(hist.pos > 0)
        BY <2>9, <2>10, <3>2 DEF ViRedo
      <3> QED
        BY <3>1, <3>2
    <2>11. CASE viCommandMode
      BY <2>1, <2>2, <2>11 DEF viCommandMode
    <2>12. CASE RevertLine
      <3>1. NewLineHistory \in LineHistory /\ NewLineHistory.pos >= 0
        BY DEF NewLineHistory, LineHistory
      <3> QED
        BY <2>1, <2>2, <2>12, <3>1 DEF RevertLine
    <2>13. CASE UNCHANGED vars
      BY <2>13 DEF vars
    <2> QED
      BY <2>4, <2>5, <2>7, <2>8, <2>9, <2>10, <2>11, <2>12, <2>13 DEF Next, RedoLast
  <1>3. Pos => NoFault
    BY DEF NoFault
  <1> QED
    BY <1>1, <1>2, <1>3, InitInv, NextInv, PTL DEF Spec

-----------------------------------------------------------------------------
(* What an undo and a redo give back                                       *)

\* Which command a step is, as far as the undo list is concerned.
LEMMA StepKinds ==
  ASSUME [Next]_vars
  PROVE  \/ fault' /\ UNCHANGED prev
         \/ UNCHANGED vars
         \/ DeleteChar /\ ~SaveFaults(hist, line)
         \/ UndoLast /\ prev'.cmd = "undo"
         \/ Redo /\ prev'.cmd = "redo"
         \/ prev'.cmd \notin {"delete", "undo", "redo"}
  <1>1. ASSUME NEW cmd, NEW m, NEW l, NEW p, NEW h, NEW skip, NEW undoing,
               Finish(cmd, m, l, p, h, skip, undoing)
        PROVE  prev'.cmd = cmd
    BY <1>1 DEF Finish
  <1>2. ASSUME NEW ch \in Char, TypeChar(ch) \/ InsertText(ch)
        PROVE  prev'.cmd \notin {"delete", "undo", "redo"}
    <2>1. prev'.cmd \in {"type", "insert"}
      BY <1>1, <1>2 DEF TypeChar, InsertText
    <2> QED
      BY <2>1
  <1>3. ASSUME NEW p, MoveChar(p) PROVE prev'.cmd = "move"
    BY <1>1, <1>3 DEF MoveChar
  <1>4. CASE DeleteChar
    BY <1>4 DEF DeleteChar
  <1>5. CASE UndoLast
    BY <1>1, <1>5 DEF UndoLast
  <1>6. ASSUME Redo PROVE prev'.cmd = "redo"
    BY <1>1, <1>6 DEF Redo
  <1>7. ASSUME viInsertMode PROVE (fault' /\ UNCHANGED prev) \/ prev'.cmd = "mode"
    BY <1>1, <1>7 DEF viInsertMode
  <1>8. ASSUME viCommandMode PROVE prev'.cmd = "mode"
    BY <1>1, <1>8 DEF viCommandMode
  <1>9. ASSUME RevertLine PROVE prev'.cmd = "revert"
    BY <1>1, <1>9 DEF RevertLine
  <1>10. CASE UNCHANGED vars
    BY <1>10
  <1>11. CASE Next
    BY <1>2, <1>3, <1>4, <1>5, <1>6, <1>7, <1>8, <1>9, <1>11 DEF Next, RedoLast, ViRedo
  <1> QED
    BY <1>10, <1>11

\* So with the reset that ends the save.
LEMMA SaveLast ==
  ASSUME NEW lh \in LineHistory, NEW l \in Line, NEW p \in Int, Fits(lh), ~SaveFaults(lh, l)
  PROVE  /\ Save(lh, l, p, FALSE, FALSE).pos = 0
         /\ Saved(lh, l, Save(lh, l, p, FALSE, FALSE).items)
  <1> DEFINE g == SaveItem(lh, l, p)
  <1>1. g \in LineHistory
    BY SaveItemKeeps
  <1>2. Save(lh, l, p, FALSE, FALSE) = [g EXCEPT !.pos = 0]
    BY DEF Save, Reset
  <1>3. Saved(lh, l, g.items)
    BY SaveItemLast
  <1> HIDE DEF g
  <1>4. [g EXCEPT !.pos = 0].pos = 0 /\ [g EXCEPT !.pos = 0].items = g.items
    BY <1>1 DEF LineHistory
  <1> QED
    BY <1>2, <1>3, <1>4

\* After a command that saves first, the line it was run on is the item before
\* the last.
Deleted(lh, l, before) ==
  /\ lh.pos = 0 /\ Len(lh.items) \in Nat \ {0} /\ LastItem(lh).line = l
  /\ before # l => Len(lh.items) > 1 /\ lh.items[Len(lh.items) - 1].line = before

\* Shell.deleteChar.
LEMMA DeleteDeletes ==
  ASSUME Inv, DeleteChar, ~SaveFaults(hist, line)
  PROVE  Deleted(hist', line', line) /\ prev'.line = line
  <1> DEFINE h == Save(hist, line, pos, FALSE, FALSE)
             l == CutRune(line, pos)
             p == CheckedPos(main, l, pos)
             g == Save(h, l, p, FALSE, FALSE)
  <1>1. hist \in LineHistory /\ Fits(hist) /\ line \in Line /\ pos \in Int
    BY DEF Inv, TypeOK, ItemsFit, Fits
  <1>2. h \in LineHistory /\ Fits(h) /\ l \in Line
    BY <1>1, SaveKeeps, CutRuneType
  <1>3. h.pos = 0 /\ Saved(hist, line, h.items)
    BY <1>1, SaveLast
  <1>4. Finish("delete", main, l, pos, h, FALSE, FALSE)
    BY DEF DeleteChar
  <1> HIDE DEF h, l
  <1>5. line' = l /\ hist' = g /\ prev'.line = line
    BY <1>4 DEF Finish
  <1>6. p \in Int
    BY <1>1, <1>2, CheckAppendRange, CheckCommandRange DEF CheckedPos
  <1>7. ~SaveFaults(h, l)
    BY <1>3 DEF SaveFaults
  <1> HIDE DEF p
  <1>8. g.pos = 0 /\ Saved(h, l, g.items)
    BY <1>2, <1>6, <1>7, SaveLast
  <1>9. Len(h.items) \in Nat \ {0} /\ LastItem(h).line = line
    BY <1>3 DEF Saved, LastItem
  <1>10. Len(h.items) > 0
    BY <1>9
  <1> HIDE DEF g
  <1>11. Deleted(g, l, line)
    BY <1>3, <1>8, <1>9, <1>10 DEF Saved, Deleted, LastItem
  <1> QED
    BY <1>5, <1>11

\* An undo goes back to the first item that differs.
LEMMA UndoGoes ==
  ASSUME Inv, UndoLast, prev'.cmd = "undo", prev.cmd # "undo" \/ ~fault',
         hist.items # << >>
  PROVE  /\ hist.pos \in Nat /\ prev'.line = line /\ prev'.undone = hist.pos
         /\ UndoStops(hist, line) = {} => line' = line
         /\ UndoStops(hist, line) # {} =>
              /\ Min(UndoStops(hist, line)) \in UndoStops(hist, line)
              /\ \A m \in UndoStops(hist, line) : Min(UndoStops(hist, line)) <= m
              /\ hist' = [hist EXCEPT !.pos = Min(UndoStops(hist, line))]
              /\ line' = ItemAt(hist, Min(UndoStops(hist, line))).line
  <1> DEFINE S == UndoStops(hist, line)
             n == UndoTo(hist, line)
             it == ItemAt(hist, n)
  <1>1. hist \in LineHistory /\ hist.pos \in Int /\ Len(hist.items) \in Nat
    BY DEF Inv, TypeOK, LineHistory
  <1>2. hist.pos >= 0
    <2> SUFFICES ASSUME hist.pos < 0 PROVE FALSE
      BY <1>1
    <2>1. fault' = TRUE /\ UNCHANGED prev
      BY DEF UndoLast
    <2> QED
      BY <2>1
  <1>3. ~(hist.pos < 0)
    BY <1>1, <1>2
  <1>4. CASE S = {}
    <2>1. Finish("undo", main, line, pos, [hist EXCEPT !.pos = n], TRUE, TRUE)
      BY <1>3, <1>4 DEF UndoLast
    <2> QED
      BY <1>1, <1>2, <1>4, <2>1 DEF Finish
  <1>5. CASE S # {}
    <2>1. Finish("undo", main, it.line, CheckAppend(it.line, it.pos),
                 [hist EXCEPT !.pos = n], TRUE, TRUE)
      BY <1>3, <1>5 DEF UndoLast
    <2>2. n = Min(S)
      BY <1>5 DEF UndoTo
    <2>3. S \in SUBSET Int /\ \A m \in S : 0 <= m
      BY <1>1, <1>2 DEF UndoStops
    <2> HIDE DEF S
    <2>4. Min(S) \in S /\ \A m \in S : Min(S) <= m
      BY <1>5, <2>3, MinInRange
    <2> HIDE DEF n, it
    <2>5. line' = it.line /\ hist' = [hist EXCEPT !.pos = n]
          /\ prev'.line = line /\ prev'.undone = hist.pos
      BY <2>1 DEF Finish, Save, Reset
    <2> QED
      BY <1>1, <1>2, <1>5, <2>2, <2>4, <2>5 DEF S, it
  <1> QED
    BY <1>4, <1>5

\* An undo right after a command that saves first gives back the line that the
\* command was run on (Sources.Undo and Sources.Save), whatever was undone,
\* redone or skipped before: for undo lists of any length.
THEOREM UndoGivesBack == Spec => UndoRestoresDeleted
  <1> DEFINE D == prev.cmd = "delete" => fault \/ Deleted(hist, line, prev.line)
             A == (prev'.cmd = "undo" /\ prev.cmd = "delete" /\ prev.line # line)
                    => line' = prev.line
  <1>1. Init => D
    BY DEF Init
  <1>2. ASSUME Inv, D, [Next]_vars PROVE D'
    <2>1. CASE fault' /\ UNCHANGED prev
      BY <2>1
    <2>2. CASE UNCHANGED vars
      BY <1>2, <2>2 DEF vars, Deleted, LastItem
    <2>3. CASE DeleteChar /\ ~SaveFaults(hist, line)
      <3>1. Deleted(hist', line', line) /\ prev'.line = line
        BY <1>2, <2>3, DeleteDeletes
      <3> QED
        BY <3>1 DEF Deleted, LastItem
    <2>4. CASE prev'.cmd # "delete"
      BY <2>4
    <2> QED
      BY <1>2, <2>1, <2>2, <2>3, <2>4, StepKinds
  <1>3. ASSUME Inv, D, [Next]_vars PROVE [A]_vars
    <2> SUFFICES ASSUME ~UNCHANGED vars, prev'.cmd = "undo", prev.cmd = "delete", prev.line # line
                 PROVE  line' = prev.line
      OBVIOUS
    <2>1. Next /\ ~fault
      BY <1>3 DEF Next
    <2>2. UndoLast
      <3>1. ~(DeleteChar /\ ~SaveFaults(hist, line))
        <4> SUFFICES ASSUME DeleteChar, ~SaveFaults(hist, line) PROVE prev'.cmd = "delete"
          OBVIOUS
        <4> QED
          BY DEF DeleteChar, Finish
      <3> QED
        BY <1>3, <3>1, StepKinds
    <2> DEFINE S == UndoStops(hist, line)
               n == Len(hist.items)
    <2>3. /\ hist.pos = 0 /\ n \in Nat \ {0} /\ n > 1 /\ hist.items[n].line = line
          /\ hist.items[n - 1].line = prev.line /\ hist.items # << >>
      BY <1>3, <2>1 DEF Deleted, LastItem
    <2>4. S = {m \in 1 .. n : hist.items[n - m + 1].line # line}
      BY <2>3 DEF UndoStops, ItemAt
    <2>5. 2 \in S /\ 1 \notin S /\ \A m \in S : m >= 1 /\ m \in Int
      <3>1. n - 2 + 1 = n - 1 /\ n - 1 + 1 = n /\ 2 \in 1 .. n
        BY <2>3
      <3> QED
        BY <2>3, <2>4, <3>1
    <2>6. /\ Min(S) \in S /\ \A m \in S : Min(S) <= m
          /\ line' = ItemAt(hist, Min(S)).line
      BY <1>3, <2>2, <2>3, <2>5, UndoGoes
    <2> HIDE DEF S
    <2>7. Min(S) = 2
      BY <2>5, <2>6
    <2>8. ItemAt(hist, 2).line = prev.line
      <3>1. n - 2 + 1 = n - 1
        BY <2>3
      <3> QED
        BY <2>3, <3>1 DEF ItemAt
    <2> QED
      BY <2>6, <2>7, <2>8
  <1> QED
    BY <1>1, <1>2, <1>3, InitInv, NextInv, PTL DEF Spec, UndoRestoresDeleted

\* The item that an undo has come from, one redo away.
Undone(lh, before) ==
  lh.pos \in Int /\ lh.pos > 1 /\ lh.items # << >> /\ ItemAt(lh, lh.pos - 1).line = before

\* Sources.Undo, from a line that is itself one of the items.
LEMMA UndoLeaves ==
  ASSUME Inv, UndoLast, prev'.cmd = "undo", ~fault', hist.pos > 0, line' # line
  PROVE  Undone(hist', line)
  <1> DEFINE S == UndoStops(hist, line)
             k == Min(S)
             N == Len(hist.items)
             q == hist.pos
  <1>1. hist \in LineHistory /\ q \in Int /\ N \in Nat /\ q > 0
    BY DEF Inv, TypeOK, LineHistory
  <1>2. q <= N /\ line = ItemAt(hist, q).line
    BY DEF Inv, UndoInSync
  <1>3. hist.items # << >>
    BY <1>1, <1>2
  <1>4. S = {m \in q + 1 .. N : ItemAt(hist, m).line # line}
    BY DEF UndoStops
  <1>5. /\ S # {} /\ k \in S /\ (\A m \in S : k <= m)
        /\ hist' = [hist EXCEPT !.pos = k]
    BY <1>3, UndoGoes
  <1> HIDE DEF S, k, N, q
  <1>6. k \in q + 1 .. N
    BY <1>4, <1>5
  <1>7. ItemAt(hist, k - 1).line = line
    <2>1. CASE k - 1 = q
      BY <1>2, <2>1
    <2>2. CASE k - 1 # q
      <3>1. k - 1 \in q + 1 .. N /\ ~(k <= k - 1)
        BY <1>1, <1>6, <2>2
      <3>2. k - 1 \notin S
        BY <1>5, <3>1
      <3> QED
        BY <1>4, <3>1, <3>2
    <2> QED
      BY <2>1, <2>2
  <1>8. hist'.pos = k /\ hist'.items = hist.items
    BY <1>1, <1>5 DEF LineHistory
  <1>9. k \in Int /\ k > 1
    BY <1>1, <1>6
  <1> QED
    BY <1>3, <1>7, <1>8, <1>9 DEF Undone, ItemAt

\* A redo takes back the undo it follows, however many items the undo has
\* skipped, when that undo started from an undone state (Sources.Redo).
THEOREM RedoTakesBack == Spec => RedoStepsBack
  <1> DEFINE R == prev.cmd = "undo" /\ prev.undone > 0 /\ prev.line # line
                    => fault \/ Undone(hist, prev.line)
             A == (prev'.cmd = "redo" /\ prev.cmd = "undo" /\ prev.undone > 0 /\ prev.line # line)
                    => line' = prev.line
  <1>1. Init => R
    BY DEF Init
  <1>2. ASSUME Inv, R, [Next]_vars PROVE R'
    <2>1. CASE fault' /\ UNCHANGED prev
      BY <2>1
    <2>2. CASE UNCHANGED vars
      BY <1>2, <2>2 DEF vars, Undone, ItemAt
    <2>3. CASE UndoLast /\ prev'.cmd = "undo"
      <3> SUFFICES ASSUME prev'.undone > 0, prev'.line # line', ~fault'
                   PROVE  Undone(hist', prev'.line)
        BY DEF Undone, ItemAt
      <3>1. CASE hist.items = << >>
        <4>1. Finish("undo", main, line, pos, hist, TRUE, TRUE)
          BY <2>3, <3>1 DEF UndoLast
        <4> QED
          BY <4>1 DEF Finish
      <3>2. CASE hist.items # << >>
        <4>1. prev'.line = line /\ prev'.undone = hist.pos
          BY <1>2, <2>3, <3>2, UndoGoes
        <4> QED
          BY <1>2, <2>3, <4>1, UndoLeaves
      <3> QED
        BY <3>1, <3>2
    <2>4. CASE prev'.cmd # "undo"
      BY <2>4
    <2>5. CASE DeleteChar /\ ~SaveFaults(hist, line)
      <3>1. prev'.cmd = "delete"
        BY <2>5 DEF DeleteChar, Finish
      <3> QED
        BY <3>1
    <2> QED
      BY <1>2, <2>1, <2>2, <2>3, <2>4, <2>5, StepKinds
  <1>3. ASSUME Inv, R, [Next]_vars PROVE [A]_vars
    <2> SUFFICES ASSUME ~UNCHANGED vars, prev'.cmd = "redo", prev.cmd = "undo",
                        prev.undone > 0, prev.line # line
                 PROVE  line' = prev.line
      OBVIOUS
    <2>1. Next /\ ~fault
      BY <1>3 DEF Next
    <2>2. Redo
      <3>1. ~(DeleteChar /\ ~SaveFaults(hist, line))
        <4> SUFFICES ASSUME DeleteChar, ~SaveFaults(hist, line) PROVE prev'.cmd = "delete"
          OBVIOUS
        <4> QED
          BY DEF DeleteChar, Finish
      <3> QED
        BY <1>3, <3>1, StepKinds
    <2> DEFINE n == hist.pos - 1
               it == ItemAt(hist, n)
    <2>3. hist.items # << >> /\ hist.pos \in Int /\ hist.pos > 1 /\ it.line = prev.line
      BY <1>3, <2>1 DEF Undone
    <2>4. ~(n < 1)
      BY <2>3
    <2>5. Finish("redo", main, it.line, CheckAppend(it.line, it.pos),
                 [hist EXCEPT !.pos = n], TRUE, TRUE)
      BY <2>2, <2>3, <2>4 DEF Redo
    <2> QED
      BY <2>3, <2>5 DEF Finish
  <1> QED
    BY <1>1, <1>2, <1>3, InitInv, NextInv, PTL DEF Spec, RedoStepsBack
=============================================================================
