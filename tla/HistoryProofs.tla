---------------------------- MODULE HistoryProofs ----------------------------
(***************************************************************************)
(* Proofs about History, for any number of sources and for lines and undo  *)
(* lists of any length.                                                    *)
(*                                                                         *)
(* The methods of the struct are operators on a record, so that a command  *)
(* is proved in two parts: which fields it may touch at all (Only), and    *)
(* that the fields it touches keep their types (Typed).  The first part    *)
(* holds of every record with the fields of the struct; the second also    *)
(* needs the position to be one that the undo lists are kept for.          *)
(***************************************************************************)
EXTENDS History, LineLemmas, FiniteSetTheorems

\* The fields of the Sources struct.
Fields == {"line", "pos", "names", "list", "sourcePos", "hpos", "cpos", "skip",
           "undoing", "lines", "infer", "accepted", "acceptHold", "acceptLine", "fault"}

\* t is s but for the fields F.
Only(s, t, F) ==
  DOMAIN s = Fields /\ DOMAIN t = Fields /\ \A f \in Fields \ F : t[f] = s[f]

\* What a save touches, and what a command that moves through the lines does.
Saving == {"lines", "skip", "undoing"}
Moving == Saving \cup {"line", "pos", "hpos", "cpos", "fault"}

\* What showing another line touches.
Showing == {"line", "pos", "hpos", "cpos", "fault"}

\* The undo lists of the sources: no undo position is negative here, because
\* the commands bound in this module do not include redo.
Histories == {lh \in LineHistory : lh.pos >= 0 /\ Fits(lh)}

\* The types of the sources and of the index into them.
TypedSources(s) ==
  /\ s.names \in Seq(Names) /\ s.sourcePos \in Int
  /\ DOMAIN s.list \subseteq Names /\ \A n \in DOMAIN s.list : s.list[n] \in Seq(Line)

\* The types of what the commands that move through the lines change.
TypedMoving(s) ==
  /\ s.line \in Line /\ s.pos \in Int /\ s.cpos \in Int /\ s.acceptLine \in Line
  /\ s.hpos \in -1 .. MaxHist
  /\ s.lines \in [Names -> [Slots -> Histories]]

\* The type of the struct.
Typed(s) == DOMAIN s = Fields /\ TypedSources(s) /\ TypedMoving(s)

\* The slots of the undo lists are enough for the sources.
Bounded(s) == \A n \in DOMAIN s.list : Len(s.list[n]) <= MaxHist

\* The cursor is on the line.
OnLine(s) == s.pos \in 0 .. Len(s.line)

-----------------------------------------------------------------------------
(* Fields                                                                  *)

\* Changes of several fields, one after the other.
LEMMA OnlyTrans ==
  ASSUME NEW s, NEW t, NEW u, NEW F, Only(s, t, F), Only(t, u, F)
  PROVE  Only(s, u, F)
  BY DEF Only

\* A frame may be widened.
LEMMA OnlyMore ==
  ASSUME NEW s, NEW t, NEW F, NEW G, F \subseteq G, Only(s, t, F)
  PROVE  Only(s, t, G)
  BY DEF Only

\* The active source is the same when its fields are.
LEMMA SameCurrent ==
  ASSUME NEW s, NEW t, Only(s, t, Moving)
  PROVE  /\ t.names = s.names /\ t.list = s.list /\ t.sourcePos = s.sourcePos
         /\ Name(t) = Name(s) /\ Current(t) = Current(s)
         /\ HasCurrent(t) <=> HasCurrent(s)
         /\ TypedSources(t) <=> TypedSources(s)
         /\ Bounded(t) <=> Bounded(s)
  <1>1. t.names = s.names /\ t.list = s.list /\ t.sourcePos = s.sourcePos
    BY DEF Only, Moving, Saving, Fields
  <1> QED
    BY <1>1 DEF Name, Current, HasCurrent, TypedSources, Bounded

\* Frames: which fields each method of the struct may change.
LEMMA SetLineHistoryOnly ==
  ASSUME NEW s, DOMAIN s = Fields, NEW lh
  PROVE  Only(s, SetLineHistory(s, lh), {"lines"})
  BY DEF Only, SetLineHistory, Fields

\* SetLine changes the line and puts the cursor on it.
LEMMA SetLineOnly ==
  ASSUME NEW s, DOMAIN s = Fields, NEW l, NEW p
  PROVE  /\ Only(s, SetLine(s, l, p), {"line", "pos"})
         /\ SetLine(s, l, p).line = l /\ SetLine(s, l, p).pos = CheckAppend(l, p)
  BY DEF Only, SetLine, Fields

\* Sources.Reset.
LEMMA ResetStateOnly ==
  ASSUME NEW s, DOMAIN s = Fields
  PROVE  Only(s, ResetState(s), Saving)
  <1> DEFINE r == [s EXCEPT !.skip = FALSE, !.undoing = FALSE]
  <1>1. Only(s, r, Saving)
    BY DEF Only, Fields, Saving
  <1>2. ASSUME NEW lh PROVE Only(r, SetLineHistory(r, lh), Saving)
    BY <1>1, SetLineHistoryOnly, OnlyMore DEF Only, Saving
  <1> HIDE DEF r
  <1>3. ResetState(s) = r \/ \E lh : ResetState(s) = SetLineHistory(r, lh)
    BY DEF ResetState, r
  <1> QED
    BY <1>1, <1>2, <1>3, OnlyTrans

\* Sources.Save.
LEMMA SaveStateOnly ==
  ASSUME NEW s, DOMAIN s = Fields
  PROVE  Only(s, SaveState(s), Saving)
  <1>1. ASSUME NEW lh PROVE Only(s, SetLineHistory(s, lh), Saving)
    BY SetLineHistoryOnly, OnlyMore DEF Saving
  <1>2. SaveState(s) = ResetState(s) \/ \E lh : SaveState(s) = ResetState(SetLineHistory(s, lh))
    BY DEF SaveState
  <1>3. CASE SaveState(s) = ResetState(s)
    BY <1>3, ResetStateOnly
  <1>4. ASSUME NEW lh, SaveState(s) = ResetState(SetLineHistory(s, lh))
        PROVE  Only(s, SaveState(s), Saving)
    <2>1. DOMAIN SetLineHistory(s, lh) = Fields
      BY <1>1 DEF Only
    <2> QED
      BY <1>1, <1>4, <2>1, ResetStateOnly, OnlyTrans
  <1> QED
    BY <1>2, <1>3, <1>4

\* Sources.Undo.
LEMMA UndoStateOnly ==
  ASSUME NEW s, DOMAIN s = Fields
  PROVE  Only(s, UndoState(s), Saving \cup {"line", "pos"})
  <1> DEFINE r == [s EXCEPT !.skip = TRUE, !.undoing = TRUE]
             F == Saving \cup {"line", "pos"}
  <1>1. Only(s, r, F)
    BY DEF Only, Fields, Saving
  <1>2. ASSUME NEW lh PROVE Only(r, SetLineHistory(r, lh), F)
    BY <1>1, SetLineHistoryOnly, OnlyMore DEF Only, Saving
  <1>3. ASSUME NEW lh, NEW l, NEW p
        PROVE  Only(r, SetLine(SetLineHistory(r, lh), l, p), F)
    <2> DEFINE t == SetLineHistory(r, lh)
    <2>1. DOMAIN t = Fields
      BY <1>2 DEF Only
    <2> HIDE DEF t
    <2>2. Only(t, SetLine(t, l, p), F)
      BY <2>1, SetLineOnly, OnlyMore
    <2> QED
      BY <1>2, <2>2, OnlyTrans DEF t
  <1> HIDE DEF r
  <1>4. \/ UndoState(s) = r
        \/ \E lh : UndoState(s) = SetLineHistory(r, lh)
        \/ \E lh, l, p : UndoState(s) = SetLine(SetLineHistory(r, lh), l, p)
    BY DEF UndoState, r
  <1> HIDE DEF F
  <1> QED
    BY <1>1, <1>2, <1>3, <1>4, OnlyTrans DEF F

\* Sources.Revert.
LEMMA RevertStateOnly ==
  ASSUME NEW s, DOMAIN s = Fields
  PROVE  Only(s, RevertState(s), Saving \cup {"line", "pos"})
  <1> DEFINE F == Saving \cup {"line", "pos"}
  <1>1. Only(s, s, F)
    BY DEF Only
  <1>2. ASSUME NEW lh, NEW l, NEW p
        PROVE  Only(s, ResetState(SetLine(SetLineHistory(s, lh), l, p)), F)
    <2> DEFINE t == SetLineHistory(s, lh)
               u == SetLine(t, l, p)
    <2>1. Only(s, t, F)
      BY SetLineHistoryOnly, OnlyMore DEF Saving
    <2>2. DOMAIN t = Fields
      BY <2>1 DEF Only
    <2> HIDE DEF t
    <2>3. Only(t, u, F)
      BY <2>2, SetLineOnly, OnlyMore
    <2>4. DOMAIN u = Fields
      BY <2>3 DEF Only
    <2> HIDE DEF u
    <2>5. Only(u, ResetState(u), F)
      BY <2>4, ResetStateOnly, OnlyMore
    <2> HIDE DEF F
    <2>6. Only(s, ResetState(u), F)
      BY <2>1, <2>3, <2>5, OnlyTrans
    <2> QED
      BY <2>6 DEF t, u
  <1>3. \/ RevertState(s) = s
        \/ \E lh, l, p : RevertState(s) = ResetState(SetLine(SetLineHistory(s, lh), l, p))
    BY DEF RevertState
  <1> QED
    BY <1>1, <1>2, <1>3

\* A line that cannot be fetched.
LEMMA GetLineFaultOnly ==
  ASSUME NEW s, DOMAIN s = Fields
  PROVE  Only(s, GetLineFault(s), {"fault"})
  BY DEF Only, GetLineFault, Fields

\* Sources.setLineCursorMatch.
LEMMA CursorMatchOnly ==
  ASSUME NEW s, DOMAIN s = Fields, NEW l
  PROVE  Only(s, setLineCursorMatch(s, l), {"line", "pos", "cpos"})
  <1>1. ASSUME NEW c PROVE Only(s, [s EXCEPT !.cpos = c], {"line", "pos", "cpos"})
    BY DEF Only, Fields
  <1>2. ASSUME NEW c, NEW p PROVE Only(s, SetLine([s EXCEPT !.cpos = c], l, p), {"line", "pos", "cpos"})
    <2> DEFINE t == [s EXCEPT !.cpos = c]
    <2>1. Only(s, t, {"line", "pos", "cpos"}) /\ DOMAIN t = Fields
      BY <1>1 DEF Only
    <2> HIDE DEF t
    <2>2. Only(t, SetLine(t, l, p), {"line", "pos", "cpos"})
      BY <2>1, SetLineOnly, OnlyMore
    <2> QED
      BY <2>1, <2>2, OnlyTrans DEF t
  <1> QED
    BY <1>2 DEF setLineCursorMatch

\* Sources.restoreLineBuffer.
LEMMA RestoreOnly ==
  ASSUME NEW s, DOMAIN s = Fields
  PROVE  Only(s, restoreLineBuffer(s), {"line", "pos", "hpos"})
  <1> DEFINE r == [s EXCEPT !.hpos = -1]
             F == {"line", "pos", "hpos"}
  <1>1. Only(s, r, F) /\ DOMAIN r = Fields
    BY DEF Only, Fields
  <1> HIDE DEF r
  <1>2. ASSUME NEW l, NEW p PROVE Only(r, SetLine(r, l, p), F)
    BY <1>1, SetLineOnly, OnlyMore
  <1>3. \/ restoreLineBuffer(s) = r
        \/ \E l, p : restoreLineBuffer(s) = SetLine(r, l, p)
    BY DEF restoreLineBuffer, r
  <1> HIDE DEF F
  <1> QED
    BY <1>1, <1>2, <1>3, OnlyTrans DEF F

\* The line a walk shows.
LEMMA WalkLineOnly ==
  ASSUME NEW s, DOMAIN s = Fields
  PROVE  Only(s, WalkLine(s), {"line", "pos", "cpos", "fault"})
  <1>1. Only(s, GetLineFault(s), {"line", "pos", "cpos", "fault"})
    BY GetLineFaultOnly, OnlyMore
  <1>2. ASSUME NEW l PROVE Only(s, setLineCursorMatch(s, l), {"line", "pos", "cpos", "fault"})
    BY CursorMatchOnly, OnlyMore
  <1>3. \/ WalkLine(s) = GetLineFault(s)
        \/ \E l : WalkLine(s) = setLineCursorMatch(s, l)
    BY DEF WalkLine
  <1> QED
    BY <1>1, <1>2, <1>3

\* The second half of Sources.Walk.
LEMMA WalkToOnly ==
  ASSUME NEW s, DOMAIN s = Fields, NEW to
  PROVE  Only(s, WalkTo(s, to), Showing)
  <1>1. ASSUME NEW i PROVE Only(s, [s EXCEPT !.hpos = i], Showing)
    BY DEF Only, Fields, Showing
  <1>2. Only(s, restoreLineBuffer(s), Showing)
    BY RestoreOnly, OnlyMore DEF Showing
  <1>3. ASSUME NEW i PROVE Only(s, WalkLine([s EXCEPT !.hpos = i]), Showing)
    <2> DEFINE t == [s EXCEPT !.hpos = i]
    <2>1. Only(s, t, Showing) /\ DOMAIN t = Fields
      BY <1>1 DEF Only
    <2> HIDE DEF t
    <2>2. Only(t, WalkLine(t), Showing)
      BY <2>1, WalkLineOnly, OnlyMore DEF Showing
    <2> QED
      BY <2>1, <2>2, OnlyTrans DEF t
  <1>4. \/ WalkTo(s, to) = [s EXCEPT !.hpos = -1]
        \/ WalkTo(s, to) = restoreLineBuffer(s)
        \/ \E i : WalkTo(s, to) = WalkLine([s EXCEPT !.hpos = i])
    BY DEF WalkTo
  <1> QED
    BY <1>1, <1>2, <1>3, <1>4

\* Leaving the input line: it is saved, and the position moves to 0.
LEMMA LeftOnly ==
  ASSUME NEW s, DOMAIN s = Fields
  PROVE  Only(s, [SaveState([s EXCEPT !.skip = FALSE]) EXCEPT !.cpos = -1, !.hpos = 0], Moving)
  <1> DEFINE t == [s EXCEPT !.skip = FALSE]
             u == SaveState(t)
  <1>1. Only(s, t, Moving) /\ DOMAIN t = Fields
    BY DEF Only, Fields, Moving, Saving
  <1> HIDE DEF t
  <1>2. Only(t, u, Moving) /\ DOMAIN u = Fields
    BY <1>1, SaveStateOnly, OnlyMore DEF Moving, Only
  <1> HIDE DEF u
  <1>3. Only(u, [u EXCEPT !.cpos = -1, !.hpos = 0], Moving)
    BY <1>2 DEF Only, Fields, Moving, Saving
  <1>4. Only(s, [u EXCEPT !.cpos = -1, !.hpos = 0], Moving)
    BY <1>1, <1>2, <1>3, OnlyTrans
  <1> QED
    BY <1>4 DEF u, t

\* Sources.Walk.
LEMMA WalkOnly ==
  ASSUME NEW s, DOMAIN s = Fields, NEW n
  PROVE  Only(s, Walk(s, n), Moving)
  <1> DEFINE left == [SaveState([s EXCEPT !.skip = FALSE]) EXCEPT !.cpos = -1, !.hpos = 0]
  <1>1. Only(s, left, Moving) /\ DOMAIN left = Fields
    BY LeftOnly DEF Only
  <1>2. Only(s, s, Moving)
    BY DEF Only
  <1>3. \/ Walk(s, n) = s
        \/ Walk(s, n) = WalkTo(left, left.hpos + n)
        \/ Walk(s, n) = WalkTo(s, s.hpos + n)
    BY DEF Walk
  <1> HIDE DEF left
  <1>4. ASSUME NEW t, DOMAIN t = Fields, NEW to PROVE Only(t, WalkTo(t, to), Moving)
    BY <1>4, WalkToOnly, OnlyMore DEF Moving, Showing
  <1> QED
    BY <1>1, <1>2, <1>3, <1>4, OnlyTrans

\* Sources.Fetch.
LEMMA FetchOnly ==
  ASSUME NEW s, DOMAIN s = Fields, NEW i
  PROVE  Only(s, Fetch(s, i), Moving)
  <1>1. Only(s, s, Moving)
    BY DEF Only
  <1>2. ASSUME NEW l PROVE Only(s, setLineCursorMatch(s, l), Moving)
    BY CursorMatchOnly, OnlyMore DEF Moving
  <1> QED
    BY <1>1, <1>2 DEF Fetch

\* Sources.getLine.
LEMMA SaveMainOnly ==
  ASSUME NEW s, DOMAIN s = Fields
  PROVE  Only(s, SaveMain(s), Saving)
  <1> DEFINE t == [s EXCEPT !.skip = FALSE]
             u == SaveState(t)
  <1>1. Only(s, t, Saving) /\ DOMAIN t = Fields
    BY DEF Only, Fields, Saving
  <1> HIDE DEF t
  <1>2. Only(t, u, Saving) /\ DOMAIN u = Fields
    BY <1>1, SaveStateOnly DEF Only
  <1> HIDE DEF u
  <1>3. Only(u, [u EXCEPT !.skip = s.skip], Saving)
    BY <1>2 DEF Only, Fields, Saving
  <1>4. Only(s, [u EXCEPT !.skip = s.skip], Saving)
    BY <1>1, <1>2, <1>3, OnlyTrans
  <1>5. Only(s, s, Saving)
    BY DEF Only
  <1> QED
    BY <1>4, <1>5 DEF u, t, SaveMain

\* Sources.InsertMatch.
LEMMA InsertMatchOnly ==
  ASSUME NEW s, DOMAIN s = Fields, NEW given, NEW usePos, NEW fwd, NEW regex
  PROVE  Only(s, InsertMatch(s, given, usePos, fwd, regex), Moving)
  <1> DEFINE s1 == SaveMain(s)
             g  == GetLineFault(s1)
             t  == InsertMatch(s, given, usePos, fwd, regex)
  <1>1. Only(s, s1, Moving) /\ DOMAIN s1 = Fields
    BY SaveMainOnly, OnlyMore DEF Only, Moving
  <1>2. \/ t = s \/ t = s1 \/ t = g
        \/ t = [s1 EXCEPT !.hpos = -1]
        \/ t = UndoState([s1 EXCEPT !.hpos = -1]) \/ t = UndoState([g EXCEPT !.hpos = -1])
        \/ \E i, l, p : t = SetLine([s1 EXCEPT !.hpos = i], l, p)
    BY DEF InsertMatch
  <1> HIDE DEF s1, t
  <1>3. Only(s1, g, Moving) /\ DOMAIN g = Fields
    BY <1>1, GetLineFaultOnly, OnlyMore DEF Only, Moving
  <1> HIDE DEF g
  <1>4. ASSUME NEW r, DOMAIN r = Fields, NEW i
        PROVE  Only(r, [r EXCEPT !.hpos = i], Moving)
    BY <1>4 DEF Only, Fields, Moving, Saving
  <1>5. ASSUME NEW r, DOMAIN r = Fields, NEW i
        PROVE  Only(r, UndoState([r EXCEPT !.hpos = i]), Moving)
    <2> DEFINE q == [r EXCEPT !.hpos = i]
    <2>1. Only(r, q, Moving) /\ DOMAIN q = Fields
      BY <1>4, <1>5 DEF Only
    <2> HIDE DEF q
    <2>2. Only(q, UndoState(q), Moving)
      BY <2>1, UndoStateOnly, OnlyMore DEF Moving
    <2> QED
      BY <2>1, <2>2, OnlyTrans DEF q
  <1>6. ASSUME NEW i, NEW l, NEW p
        PROVE  Only(s1, SetLine([s1 EXCEPT !.hpos = i], l, p), Moving)
    <2> DEFINE q == [s1 EXCEPT !.hpos = i]
    <2>1. Only(s1, q, Moving) /\ DOMAIN q = Fields
      BY <1>1, <1>4 DEF Only
    <2> HIDE DEF q
    <2>2. Only(q, SetLine(q, l, p), Moving)
      BY <2>1, SetLineOnly, OnlyMore DEF Moving
    <2> QED
      BY <2>1, <2>2, OnlyTrans DEF q
  <1>7. Only(s, s, Moving) /\ Only(s, g, Moving)
    BY <1>1, <1>3, OnlyTrans DEF Only
  <1>8. ASSUME NEW r, Only(s1, r, Moving) PROVE Only(s, r, Moving)
    BY <1>1, <1>8, OnlyTrans
  <1>9. ASSUME NEW r, Only(g, r, Moving) PROVE Only(s, r, Moving)
    BY <1>7, <1>9, OnlyTrans
  <1> SUFFICES Only(s, t, Moving)
    BY DEF t
  <1>10. CASE t = s \/ t = s1 \/ t = g
    BY <1>1, <1>7, <1>10
  <1>11. CASE t = [s1 EXCEPT !.hpos = -1]
    BY <1>1, <1>4, <1>8, <1>11
  <1>12. CASE t = UndoState([s1 EXCEPT !.hpos = -1])
    BY <1>1, <1>5, <1>8, <1>12
  <1>13. CASE t = UndoState([g EXCEPT !.hpos = -1])
    BY <1>3, <1>5, <1>9, <1>13
  <1>14. CASE \E i, l, p : t = SetLine([s1 EXCEPT !.hpos = i], l, p)
    BY <1>6, <1>8, <1>14
  <1> QED
    BY <1>2, <1>10, <1>11, <1>12, <1>13, <1>14

\* Sources.InferNext.
LEMMA InferNextOnly ==
  ASSUME NEW s, DOMAIN s = Fields
  PROVE  Only(s, InferNext(s), Moving)
  <1>1. Only(s, s, Moving)
    BY DEF Only
  <1>2. Only(s, GetLineFault(s), Moving)
    BY GetLineFaultOnly, OnlyMore DEF Moving
  <1>3. ASSUME NEW l, NEW p PROVE Only(s, SetLine(s, l, p), Moving)
    BY SetLineOnly, OnlyMore DEF Moving
  <1>4. \/ InferNext(s) = s \/ InferNext(s) = GetLineFault(s)
        \/ \E l, p : InferNext(s) = SetLine(s, l, p)
    BY DEF InferNext
  <1> QED
    BY <1>1, <1>2, <1>3, <1>4

\* What history.Init infers.
LEMMA InferLineOnly ==
  ASSUME NEW s, DOMAIN s = Fields
  PROVE  Only(s, InferLine(s), Moving)
  <1>1. Only(s, s, Moving) /\ Only(s, InferNext(s), Moving) /\ Only(s, Walk(s, -1), Moving)
    BY InferNextOnly, WalkOnly DEF Only
  <1>2. InferLine(s) = s \/ InferLine(s) = InferNext(s) \/ InferLine(s) = Walk(s, -1)
    BY DEF InferLine
  <1> QED
    BY <1>1, <1>2

\* Sources.LineAccepted.
LEMMA LineAcceptedOnly ==
  ASSUME NEW s, DOMAIN s = Fields
  PROVE  Only(s, LineAccepted(s), Saving)
  BY DEF Only, Fields, Saving, LineAccepted

\* Sources.SkipSave.
LEMMA SkipOnly ==
  ASSUME NEW s, DOMAIN s = Fields
  PROVE  Only(s, Skip(s), Saving) /\ Skip(s).lines = s.lines
  BY DEF Only, Fields, Saving, Skip

-----------------------------------------------------------------------------
(* Undo lists                                                              *)

\* An undo list with no item.
LEMMA NewHistory == NewLineHistory \in Histories
  BY DEF NewLineHistory, Histories, LineHistory, Fits

\* A save never faults here, and leaves a list that is not empty.
LEMMA SaveHistory ==
  ASSUME NEW lh \in Histories, NEW l \in Line, NEW p \in Int
  PROVE  SaveItem(lh, l, p) \in Histories /\ SaveItem(lh, l, p).items # << >>
  <1>1. lh \in LineHistory /\ lh.pos \in Nat /\ lh.items \in Seq(Item) /\ Fits(lh)
    BY DEF Histories, LineHistory
  <1>2. ~SaveFaults(lh, l)
    BY <1>1 DEF SaveFaults
  <1>3. SaveItem(lh, l, p) \in LineHistory /\ Fits(SaveItem(lh, l, p))
    BY <1>1, <1>2, SaveItemKeeps
  <1>4. SaveItem(lh, l, p).pos >= 0 /\ SaveItem(lh, l, p).items # << >>
    <2>1. CASE IsLast(lh, l)
      BY <1>1, <2>1 DEF SaveItem, IsLast, LineHistory
    <2>2. CASE ~IsLast(lh, l)
      <3> DEFINE n == Len(lh.items)
                 undone == IF lh.pos > n THEN n ELSE lh.pos
                 kept == SubSeq(lh.items, 1, n - undone)
      <3>1. undone \in 0 .. n /\ n \in Nat
        BY <1>1
      <3> HIDE DEF undone
      <3>2. kept \in Seq(Item)
        BY <1>1, <3>1
      <3> HIDE DEF kept
      <3>3. \E it : SaveItem(lh, l, p) = [pos |-> undone, items |-> Append(kept, it)]
        BY <2>2 DEF SaveItem, undone, kept
      <3>4. ASSUME NEW it PROVE Append(kept, it) # << >>
        <4>1. Len(Append(kept, it)) = Len(kept) + 1 /\ Len(kept) \in Nat
          BY <3>2
        <4> QED
          BY <4>1
      <3> QED
        BY <3>1, <3>3, <3>4
    <2> QED
      BY <2>1, <2>2
  <1> QED
    BY <1>3, <1>4 DEF Histories

\* An undo position may be moved freely.
LEMMA MoveHistory ==
  ASSUME NEW lh \in Histories, NEW k \in Nat
  PROVE  [lh EXCEPT !.pos = k] \in Histories /\ [lh EXCEPT !.pos = k].items = lh.items
  <1> DEFINE g == [lh EXCEPT !.pos = k]
  <1>1. lh \in LineHistory /\ Fits(lh)
    BY DEF Histories
  <1>2. g \in LineHistory /\ g.pos = k /\ g.items = lh.items /\ Fits(g)
    BY <1>1, MovePos
  <1> HIDE DEF g
  <1>3. g \in Histories /\ g.items = lh.items
    BY <1>2 DEF Histories
  <1> QED
    BY <1>3 DEF g

\* A reset keeps the items.
LEMMA ResetHistory ==
  ASSUME NEW lh \in Histories, NEW undoing
  PROVE  Reset(lh, undoing) \in Histories /\ Reset(lh, undoing).items = lh.items
  BY MoveHistory DEF Reset

\* The last item of a list that is not empty.
LEMMA LastItemType ==
  ASSUME NEW lh \in Histories, lh.items # << >>
  PROVE  LastItem(lh).line \in Line /\ LastItem(lh).pos \in Nat
  <1>1. lh \in LineHistory /\ Len(lh.items) \in 1 .. Len(lh.items)
    BY DEF Histories, LineHistory
  <1> QED
    BY <1>1, ItemType DEF LastItem

\* The undo list that Undo leaves, and the item it shows.
LEMMA UndoHistory ==
  ASSUME NEW lh \in Histories, NEW l \in Line
  PROVE  /\ [lh EXCEPT !.pos = UndoTo(lh, l)] \in Histories
         /\ [lh EXCEPT !.pos = UndoTo(lh, l)].items = lh.items
         /\ UndoStops(lh, l) # {} =>
              LET it == ItemAt(lh, UndoTo(lh, l)) IN it.line \in Line /\ it.pos \in Nat
  <1>1. lh \in LineHistory /\ lh.pos \in Nat /\ Len(lh.items) \in Nat /\ Fits(lh)
    BY DEF Histories, LineHistory
  <1>2. UndoStops(lh, l) # {} => UndoTo(lh, l) \in 1 .. Len(lh.items)
    BY <1>1, UndoToStop
  <1>3. UndoStops(lh, l) = {} => UndoTo(lh, l) = Len(lh.items)
    BY DEF UndoTo
  <1>4. UndoTo(lh, l) \in Nat
    BY <1>1, <1>2, <1>3
  <1>5. UndoStops(lh, l) # {} =>
          LET it == ItemAt(lh, UndoTo(lh, l)) IN it.line \in Line /\ it.pos \in Nat
    <2> SUFFICES ASSUME UndoStops(lh, l) # {}
                 PROVE  LET it == ItemAt(lh, UndoTo(lh, l)) IN it.line \in Line /\ it.pos \in Nat
      OBVIOUS
    <2>1. Len(lh.items) - UndoTo(lh, l) + 1 \in 1 .. Len(lh.items)
      BY <1>1, <1>2
    <2> QED
      BY <1>1, <2>1, ItemType DEF ItemAt
  <1> QED
    BY <1>4, <1>5, MoveHistory

-----------------------------------------------------------------------------
(* Types                                                                   *)

\* A struct a command may be run on.
Ok(s) == Typed(s) /\ Bounded(s) /\ OnLine(s)

\* The line of the active source at hand, and its undo list.
LEMMA CurrentTyped ==
  ASSUME NEW s, Typed(s), Bounded(s), HasCurrent(s)
  PROVE  /\ Name(s) \in Names /\ Current(s) \in Seq(Line)
         /\ Len(Current(s)) \in 0 .. MaxHist
         /\ Slot(s) \in Slots /\ GetLineHistory(s) \in Histories
  <1>1. Name(s) \in DOMAIN s.list /\ Name(s) \in Names
    BY DEF HasCurrent, Typed, TypedSources
  <1>2. Current(s) \in Seq(Line) /\ Len(Current(s)) \in 0 .. MaxHist
    BY <1>1, SourcesAssumption DEF Current, Typed, TypedSources, Bounded
  <1>3. Slot(s) \in Slots
    BY <1>2, SourcesAssumption DEF Slot, Slots, Typed, TypedMoving
  <1> QED
    BY <1>1, <1>2, <1>3 DEF GetLineHistory, Typed, TypedMoving

\* Only the fields a move touches have to be looked at.
LEMMA MovingTyped ==
  ASSUME NEW s, NEW t, Typed(s), Only(s, t, Moving), TypedMoving(t)
  PROVE  Typed(t) /\ (Bounded(s) => Bounded(t))
  BY SameCurrent DEF Typed, Only

\* The undo list of the line at hand may be replaced.
LEMMA SetLineHistoryTyped ==
  ASSUME NEW s, Ok(s), HasCurrent(s), NEW lh \in Histories
  PROVE  Ok(SetLineHistory(s, lh))
  <1> DEFINE t == SetLineHistory(s, lh)
  <1>1. Only(s, t, {"lines"}) /\ Only(s, t, Moving)
    BY SetLineHistoryOnly, OnlyMore DEF Ok, Typed, Moving, Saving
  <1>2. s.lines \in [Names -> [Slots -> Histories]] /\ DOMAIN s = Fields
    BY DEF Ok, Typed, TypedMoving
  <1>3. Name(s) \in Names /\ Slot(s) \in Slots
    BY CurrentTyped DEF Ok
  <1>4. t.lines = [s.lines EXCEPT ![Name(s)] = [@ EXCEPT ![Slot(s)] = lh]]
    BY <1>2 DEF SetLineHistory, Fields
  <1>5. [s.lines[Name(s)] EXCEPT ![Slot(s)] = lh] \in [Slots -> Histories]
    BY <1>2, <1>3
  <1>6. t.lines \in [Names -> [Slots -> Histories]]
    BY <1>2, <1>4, <1>5
  <1> HIDE DEF t
  <1>7. /\ t.line = s.line /\ t.pos = s.pos /\ t.cpos = s.cpos /\ t.hpos = s.hpos
        /\ t.acceptLine = s.acceptLine
    BY <1>1 DEF Only, Fields
  <1>8. TypedMoving(t) /\ OnLine(t)
    BY <1>6, <1>7 DEF Ok, Typed, TypedMoving, OnLine
  <1>9. Ok(t)
    BY <1>1, <1>8, MovingTyped DEF Ok
  <1> QED
    BY <1>9 DEF t

\* The line may be replaced, with any cursor.
LEMMA SetLineTyped ==
  ASSUME NEW s, Typed(s), Bounded(s), NEW l \in Line, NEW p \in Int
  PROVE  Ok(SetLine(s, l, p))
  <1> DEFINE t == SetLine(s, l, p)
  <1>1. /\ Only(s, t, {"line", "pos"}) /\ Only(s, t, Moving)
        /\ t.line = l /\ t.pos = CheckAppend(l, p)
    BY SetLineOnly, OnlyMore DEF Typed, Moving
  <1> HIDE DEF t
  <1>2. t.pos \in 0 .. Len(t.line) /\ t.pos \in Int
    BY <1>1, CheckAppendRange
  <1>3. /\ t.lines = s.lines /\ t.cpos = s.cpos /\ t.hpos = s.hpos
        /\ t.acceptLine = s.acceptLine
    BY <1>1 DEF Only, Fields
  <1>4. TypedMoving(t) /\ OnLine(t)
    BY <1>1, <1>2, <1>3 DEF Typed, TypedMoving, OnLine
  <1>5. Ok(t)
    BY <1>1, <1>4, MovingTyped DEF Ok
  <1> QED
    BY <1>5 DEF t

\* Changes of the flags and of the position.
LEMMA FlagsTyped ==
  ASSUME NEW s, NEW t, Ok(s), Only(s, t, {"skip", "undoing", "fault"})
  PROVE  Ok(t) /\ Only(s, t, Moving)
  <1>1. Only(s, t, Moving)
    BY OnlyMore DEF Moving, Saving
  <1>2. /\ t.lines = s.lines /\ t.cpos = s.cpos /\ t.hpos = s.hpos
        /\ t.acceptLine = s.acceptLine /\ t.line = s.line /\ t.pos = s.pos
    BY DEF Only, Fields
  <1>3. TypedMoving(t) /\ OnLine(t)
    BY <1>2 DEF Ok, Typed, TypedMoving, OnLine
  <1> QED
    BY <1>1, <1>3, MovingTyped DEF Ok

\* The position may be moved to any that has a slot.
LEMMA PositionTyped ==
  ASSUME NEW s, Ok(s), NEW i \in -1 .. MaxHist
  PROVE  /\ Ok([s EXCEPT !.hpos = i]) /\ Only(s, [s EXCEPT !.hpos = i], {"hpos"})
         /\ [s EXCEPT !.hpos = i].hpos = i
  <1> DEFINE t == [s EXCEPT !.hpos = i]
  <1>1. Only(s, t, {"hpos"}) /\ t.hpos = i
    BY DEF Only, Fields, Ok, Typed
  <1>2. Only(s, t, Moving)
    BY <1>1, OnlyMore DEF Moving
  <1> HIDE DEF t
  <1>3. /\ t.lines = s.lines /\ t.cpos = s.cpos
        /\ t.acceptLine = s.acceptLine /\ t.line = s.line /\ t.pos = s.pos
    BY <1>1 DEF Only, Fields
  <1>4. TypedMoving(t) /\ OnLine(t)
    BY <1>1, <1>3 DEF Ok, Typed, TypedMoving, OnLine
  <1>5. Ok(t)
    BY <1>2, <1>4, MovingTyped DEF Ok
  <1> QED
    BY <1>1, <1>5 DEF t

\* Types: each method of the struct keeps them.
LEMMA ResetStateTyped ==
  ASSUME NEW s, Ok(s)
  PROVE  Ok(ResetState(s))
  <1> DEFINE r == [s EXCEPT !.skip = FALSE, !.undoing = FALSE]
  <1>1. Only(s, r, {"skip", "undoing", "fault"})
    BY DEF Only, Fields, Ok, Typed
  <1> HIDE DEF r
  <1>2. Ok(r) /\ Only(s, r, Moving)
    BY <1>1, FlagsTyped
  <1>3. CASE HasCurrent(s)
    <2>1. HasCurrent(r)
      BY <1>2, <1>3, SameCurrent
    <2>2. Reset(GetLineHistory(s), s.undoing) \in Histories
      BY <1>3, CurrentTyped, ResetHistory DEF Ok
    <2> QED
      BY <1>2, <1>3, <2>1, <2>2, SetLineHistoryTyped DEF ResetState, r
  <1>4. CASE ~HasCurrent(s)
    BY <1>2, <1>4 DEF ResetState, r
  <1> QED
    BY <1>3, <1>4

\* Sources.Save.
LEMMA SaveStateTyped ==
  ASSUME NEW s, Ok(s)
  PROVE  Ok(SaveState(s))
  <1>1. CASE s.skip \/ ~HasCurrent(s)
    BY <1>1, ResetStateTyped DEF SaveState
  <1>2. CASE ~(s.skip \/ ~HasCurrent(s))
    <2> DEFINE lh == SaveItem(GetLineHistory(s), s.line, s.pos)
    <2>1. s.line \in Line /\ s.pos \in Int
      BY DEF Ok, Typed, TypedMoving
    <2>2. lh \in Histories
      BY <1>2, <2>1, CurrentTyped, SaveHistory DEF Ok
    <2> HIDE DEF lh
    <2>3. Ok(SetLineHistory(s, lh))
      BY <1>2, <2>2, SetLineHistoryTyped
    <2>4. SaveState(s) = ResetState(SetLineHistory(s, lh))
      BY <1>2 DEF SaveState, lh
    <2> QED
      BY <2>3, <2>4, ResetStateTyped
  <1> QED
    BY <1>1, <1>2

\* Sources.Undo.
LEMMA UndoStateTyped ==
  ASSUME NEW s, Ok(s)
  PROVE  Ok(UndoState(s))
  <1> DEFINE r == [s EXCEPT !.skip = TRUE, !.undoing = TRUE]
             lh == GetLineHistory(s)
             n == UndoTo(lh, s.line)
             lh1 == [lh EXCEPT !.pos = n]
             it == ItemAt(lh, n)
             t == SetLineHistory(r, lh1)
  <1>1. Only(s, r, {"skip", "undoing", "fault"})
    BY DEF Only, Fields, Ok, Typed
  <1> HIDE DEF r
  <1>2. Ok(r) /\ Only(s, r, Moving)
    BY <1>1, FlagsTyped
  <1>3. \/ UndoState(s) = r
        \/ HasCurrent(s) /\ UndoState(s) = t
        \/ /\ HasCurrent(s) /\ UndoStops(lh, s.line) # {}
           /\ UndoState(s) = SetLine(t, it.line, it.pos)
    BY DEF UndoState, r
  <1>4. ASSUME HasCurrent(s)
        PROVE  /\ Ok(t)
               /\ UndoStops(lh, s.line) # {} => it.line \in Line /\ it.pos \in Nat
    <2>1. HasCurrent(r)
      BY <1>2, <1>4, SameCurrent
    <2>2. lh \in Histories /\ s.line \in Line
      BY <1>4, CurrentTyped DEF Ok, Typed, TypedMoving
    <2> HIDE DEF lh
    <2>3. lh1 \in Histories
      BY <2>2, UndoHistory
    <2>4. UndoStops(lh, s.line) # {} => it.line \in Line /\ it.pos \in Nat
      BY <2>2, UndoHistory
    <2> HIDE DEF lh1
    <2>5. Ok(t)
      BY <1>2, <2>1, <2>3, SetLineHistoryTyped
    <2> QED
      BY <2>4, <2>5
  <1> HIDE DEF t, it, lh
  <1>5. ASSUME HasCurrent(s), UndoStops(lh, s.line) # {}
        PROVE  Ok(SetLine(t, it.line, it.pos))
    BY <1>4, <1>5, SetLineTyped DEF Ok
  <1> QED
    BY <1>2, <1>3, <1>4, <1>5

\* Sources.Revert.
LEMMA RevertStateTyped ==
  ASSUME NEW s, Ok(s)
  PROVE  Ok(RevertState(s))
  <1> DEFINE lh == GetLineHistory(s)
             it == lh.items[1]
             lh1 == [lh EXCEPT !.items = << >>]
             t == SetLineHistory(s, lh1)
  <1>1. CASE ~HasCurrent(s) \/ lh.items = << >>
    BY <1>1 DEF RevertState
  <1>2. CASE ~(~HasCurrent(s) \/ lh.items = << >>)
    <2>1. lh \in Histories
      BY <1>2, CurrentTyped DEF Ok
    <2>2. RevertState(s) = ResetState(SetLine(t, it.line, it.pos))
      BY <1>2 DEF RevertState
    <2> HIDE DEF lh
    <2>3. lh \in LineHistory /\ 1 \in 1 .. Len(lh.items)
      BY <1>2, <2>1 DEF Histories, LineHistory
    <2>4. it.line \in Line /\ it.pos \in Nat
      BY <2>3, ItemType
    <2>5. lh1 \in Histories
      <3>1. lh1 \in LineHistory /\ lh1.pos = lh.pos /\ lh1.items = << >>
        <4>1. << >> \in Seq(Item)
          OBVIOUS
        <4> QED
          BY <2>3, <4>1 DEF LineHistory
      <3> HIDE DEF lh1
      <3> QED
        BY <2>1, <3>1 DEF Histories, Fits
    <2> HIDE DEF lh1
    <2>6. Ok(t)
      BY <1>2, <2>5, SetLineHistoryTyped
    <2> HIDE DEF t, it
    <2>7. Ok(SetLine(t, it.line, it.pos))
      BY <2>4, <2>6, SetLineTyped DEF Ok
    <2> QED
      BY <2>2, <2>7, ResetStateTyped
  <1> QED
    BY <1>1, <1>2

\* A line that a source gives without an error is one of its lines.
LEMMA GetLineTyped ==
  ASSUME NEW s, Typed(s), Bounded(s), HasCurrent(s), NEW i \in Int, ~GetLineFails(s, i)
  PROVE  GetLine(s, i) \in Line
  <1>1. Current(s) \in Seq(Line)
    BY CurrentTyped
  <1>2. CASE Len(Current(s)) = 0
    BY <1>2 DEF GetLine, Line
  <1>3. CASE Len(Current(s)) # 0
    <2>1. i \in 0 .. Len(Current(s)) - 1
      BY <1>1, <1>3 DEF GetLineFails
    <2>2. i + 1 \in 1 .. Len(Current(s))
      BY <1>1, <2>1
    <2> QED
      BY <1>1, <1>3, <2>2 DEF GetLine
  <1> QED
    BY <1>2, <1>3

\* A line that cannot be fetched.
LEMMA GetLineFaultTyped ==
  ASSUME NEW s, Ok(s)
  PROVE  Ok(GetLineFault(s))
  <1>1. Only(s, GetLineFault(s), {"skip", "undoing", "fault"})
    BY GetLineFaultOnly, OnlyMore DEF Ok, Typed
  <1> QED
    BY <1>1, FlagsTyped

\* Sources.setLineCursorMatch.
LEMMA CursorMatchTyped ==
  ASSUME NEW s, Ok(s), NEW l \in Line
  PROVE  Ok(setLineCursorMatch(s, l))
  <1> DEFINE c == IF s.cpos = -1 /\ Len(s.line) > 0 THEN s.pos ELSE s.cpos
             t == [s EXCEPT !.cpos = c]
             p == IF PreservePoint /\ Len(l) > c /\ c # -1 THEN c ELSE Len(l)
  <1>1. c \in Int /\ DOMAIN s = Fields
    BY DEF Ok, Typed, TypedMoving
  <1> HIDE DEF c
  <1>2. Only(s, t, {"cpos"}) /\ t.cpos = c
    BY <1>1 DEF Only, Fields
  <1>3. p \in Int
    BY <1>1 DEF Line
  <1>4. Only(s, t, Moving)
    BY <1>2, OnlyMore DEF Moving
  <1>5. setLineCursorMatch(s, l) = SetLine(t, l, p)
    BY DEF setLineCursorMatch, c
  <1> HIDE DEF t, p
  <1>6. /\ t.lines = s.lines /\ t.hpos = s.hpos
        /\ t.acceptLine = s.acceptLine /\ t.line = s.line /\ t.pos = s.pos
    BY <1>2 DEF Only, Fields
  <1>7. TypedMoving(t)
    BY <1>1, <1>2, <1>6 DEF Ok, Typed, TypedMoving
  <1>8. Typed(t) /\ Bounded(t)
    BY <1>4, <1>7, MovingTyped DEF Ok
  <1> QED
    BY <1>3, <1>5, <1>8, SetLineTyped

\* Sources.restoreLineBuffer.
LEMMA RestoreTyped ==
  ASSUME NEW s, Ok(s), HasCurrent(s)
  PROVE  Ok(restoreLineBuffer(s)) /\ restoreLineBuffer(s).hpos = -1
  <1> DEFINE r == [s EXCEPT !.hpos = -1]
             lh == GetLineHistory(r)
  <1>0. -1 \in -1 .. MaxHist
    BY SourcesAssumption
  <1>1. Ok(r) /\ Only(s, r, {"hpos"}) /\ r.hpos = -1
    BY <1>0, PositionTyped
  <1>2. Only(s, r, Moving)
    BY <1>1, OnlyMore DEF Moving
  <1>3. restoreLineBuffer(s) =
          IF lh.items = << >> THEN r ELSE SetLine(r, LastItem(lh).line, LastItem(lh).pos)
    BY DEF restoreLineBuffer
  <1> HIDE DEF r
  <1>4. HasCurrent(r)
    BY <1>2, SameCurrent
  <1>5. lh \in Histories
    BY <1>1, <1>4, CurrentTyped DEF Ok
  <1> HIDE DEF lh
  <1>6. CASE lh.items = << >>
    BY <1>1, <1>3, <1>6
  <1>7. CASE lh.items # << >>
    <2> DEFINE l == LastItem(lh).line
               p == LastItem(lh).pos
    <2>1. l \in Line /\ p \in Int
      BY <1>5, <1>7, LastItemType
    <2> HIDE DEF l, p
    <2>2. Ok(SetLine(r, l, p))
      BY <1>1, <2>1, SetLineTyped DEF Ok
    <2>3. SetLine(r, l, p).hpos = -1
      BY <1>1, SetLineOnly DEF Only, Fields
    <2> QED
      BY <1>3, <1>7, <2>2, <2>3 DEF l, p
  <1> QED
    BY <1>6, <1>7

\* The line a walk shows.
LEMMA WalkLineTyped ==
  ASSUME NEW s, Ok(s), HasCurrent(s)
  PROVE  Ok(WalkLine(s))
  <1> DEFINE lh == GetLineHistory(s)
             i == Len(Current(s)) - s.hpos
  <1>1. i \in Int /\ lh \in Histories
    BY CurrentTyped DEF Ok, Typed, TypedMoving
  <1>2. CASE lh.items # << >>
    <2>1. LastItem(lh).line \in Line
      BY <1>1, <1>2, LastItemType
    <2>2. WalkLine(s) = setLineCursorMatch(s, LastItem(lh).line)
      BY <1>2 DEF WalkLine
    <2> HIDE DEF lh
    <2> QED
      BY <2>1, <2>2, CursorMatchTyped
  <1>3. CASE lh.items = << >> /\ GetLineFails(s, i)
    BY <1>3, GetLineFaultTyped DEF WalkLine
  <1>4. CASE lh.items = << >> /\ ~GetLineFails(s, i)
    <2>1. WalkLine(s) = setLineCursorMatch(s, GetLine(s, i))
      BY <1>4 DEF WalkLine
    <2> HIDE DEF i
    <2> QED
      BY <1>1, <1>4, <2>1, GetLineTyped, CursorMatchTyped DEF Ok
  <1> QED
    BY <1>2, <1>3, <1>4

\* The second half of Sources.Walk.
LEMMA WalkToTyped ==
  ASSUME NEW s, Ok(s), HasCurrent(s), NEW to \in Int
  PROVE  Ok(WalkTo(s, to))
  <1> DEFINE len == Len(Current(s))
             i == IF to > len THEN len ELSE to
             t == [s EXCEPT !.hpos = i]
  <1>1. len \in 0 .. MaxHist /\ -1 \in -1 .. MaxHist
    BY CurrentTyped, SourcesAssumption DEF Ok
  <1>2. CASE to < -1
    BY <1>1, <1>2, PositionTyped DEF WalkTo
  <1>3. CASE to = 0
    BY <1>3, RestoreTyped DEF WalkTo
  <1>4. CASE ~(to < -1) /\ to # 0
    <2>1. WalkTo(s, to) = WalkLine(t)
      BY <1>4 DEF WalkTo
    <2>2. i \in -1 .. MaxHist
      BY <1>1, <1>4, SourcesAssumption
    <2> HIDE DEF i
    <2>3. Ok(t) /\ Only(s, t, Moving)
      BY <2>2, PositionTyped, OnlyMore DEF Moving
    <2> HIDE DEF t
    <2>4. HasCurrent(t)
      BY <2>3, SameCurrent
    <2> QED
      BY <2>1, <2>3, <2>4, WalkLineTyped
  <1> QED
    BY <1>2, <1>3, <1>4

\* Leaving the input line.
LEMMA LeftTyped ==
  ASSUME NEW s, Ok(s)
  PROVE  LET left == [SaveState([s EXCEPT !.skip = FALSE]) EXCEPT !.cpos = -1, !.hpos = 0]
         IN  Ok(left) /\ left.hpos = 0
  <1> DEFINE t == [s EXCEPT !.skip = FALSE]
             u == SaveState(t)
             left == [u EXCEPT !.cpos = -1, !.hpos = 0]
  <1>1. Only(s, t, {"skip", "undoing", "fault"})
    BY DEF Only, Fields, Ok, Typed
  <1> HIDE DEF t
  <1>2. Ok(t)
    BY <1>1, FlagsTyped
  <1>3. Ok(u)
    BY <1>2, SaveStateTyped
  <1> HIDE DEF u
  <1>4. Only(u, left, {"cpos", "hpos"}) /\ left.hpos = 0 /\ left.cpos = -1
    BY <1>3 DEF Only, Fields, Ok, Typed
  <1> HIDE DEF left
  <1>5. Only(u, left, Moving)
    BY <1>4, OnlyMore DEF Moving
  <1>6. /\ left.lines = u.lines /\ left.acceptLine = u.acceptLine
        /\ left.line = u.line /\ left.pos = u.pos
    BY <1>4 DEF Only, Fields
  <1>7. TypedMoving(left) /\ OnLine(left)
    BY <1>3, <1>4, <1>6, SourcesAssumption DEF Ok, Typed, TypedMoving, OnLine
  <1>8. Ok(left)
    BY <1>3, <1>5, <1>7, MovingTyped DEF Ok
  <1> QED
    BY <1>4, <1>8 DEF left, u, t

\* Sources.Walk.
LEMMA WalkTyped ==
  ASSUME NEW s, Ok(s), NEW n \in Int
  PROVE  Ok(Walk(s, n))
  <1> DEFINE left == [SaveState([s EXCEPT !.skip = FALSE]) EXCEPT !.cpos = -1, !.hpos = 0]
  <1>1. Ok(left) /\ left.hpos = 0 /\ Only(s, left, Moving)
    BY LeftTyped, LeftOnly DEF Ok, Typed
  <1>2. \/ Walk(s, n) = s
        \/ HasCurrent(s) /\ Walk(s, n) = WalkTo(left, left.hpos + n)
        \/ HasCurrent(s) /\ Walk(s, n) = WalkTo(s, s.hpos + n)
    BY DEF Walk
  <1> HIDE DEF left
  <1>3. HasCurrent(s) => HasCurrent(left)
    BY <1>1, SameCurrent
  <1>4. s.hpos \in Int
    BY DEF Ok, Typed, TypedMoving
  <1> QED
    BY <1>1, <1>2, <1>3, <1>4, WalkToTyped

\* Sources.Fetch.
LEMMA FetchTyped ==
  ASSUME NEW s, Ok(s), NEW i \in Int
  PROVE  Ok(Fetch(s, i))
  <1>1. CASE HasCurrent(s) /\ i \in 0 .. Len(Current(s)) - 1
    <2>1. ~GetLineFails(s, i)
      BY <1>1 DEF GetLineFails
    <2> QED
      BY <1>1, <2>1, GetLineTyped, CursorMatchTyped DEF Fetch, Ok
  <1>2. CASE ~(HasCurrent(s) /\ i \in 0 .. Len(Current(s)) - 1)
    BY <1>2 DEF Fetch
  <1> QED
    BY <1>1, <1>2

\* What a scan of the lines finds: a line that the source gives, at a position
\* the undo lists have a slot for.  A backward scan from a position of the
\* source asks for none that the source does not have.
LEMMA MatchFacts ==
  ASSUME NEW s, Typed(s), Bounded(s), HasCurrent(s),
         NEW cline, NEW usePos, NEW fwd, NEW regex
  PROVE  LET m == match(s, cline, usePos, fwd, regex)
         IN  /\ m.found => /\ m.pos \in Int /\ ~GetLineFails(s, m.pos)
                           /\ FromEnd(s, m.pos) \in 0 .. MaxHist
                           /\ ~fwd => FromEnd(s, m.pos) \in 1 .. Len(Current(s))
             /\ ~fwd /\ s.hpos <= Len(Current(s)) => ~m.failed
  <1> DEFINE m       == match(s, cline, usePos, fwd, regex)
             len     == Len(Current(s))
             start   == IF usePos /\ s.hpos > -1 THEN len - s.hpos
                        ELSE IF fwd THEN -1 ELSE len
             visited == IF fwd THEN start + 1 .. len ELSE 0 .. start - 1
             matches(l) == IF regex THEN \E l1 \in Suffixes(l) : IsPrefix(cline, l1)
                           ELSE IsPrefix(cline, l)
             stops   == {i \in visited : GetLineFails(s, i) \/ matches(GetLine(s, i))}
             first   == IF fwd THEN Min(stops) ELSE Max(stops)
  <1>1. len \in 0 .. MaxHist /\ len \in Nat /\ s.hpos \in -1 .. MaxHist /\ MaxHist \in Nat
    BY CurrentTyped, SourcesAssumption DEF Typed, TypedMoving
  <1> HIDE DEF len
  <1>2. /\ start \in Int /\ start <= len + 1
        /\ ~fwd => start <= len
        /\ fwd => start >= -1 \/ start >= len - MaxHist
    BY <1>1
  <1>3. m = IF stops = {} THEN [found |-> FALSE, failed |-> FALSE, pos |-> 0]
            ELSE IF GetLineFails(s, first) THEN [found |-> FALSE, failed |-> TRUE, pos |-> 0]
            ELSE [found |-> TRUE, failed |-> FALSE, pos |-> first]
    BY DEF match, len
  <1>4. fwd => start >= -1 \/ start = len - s.hpos
    BY <1>1
  <1> HIDE DEF start, matches, m
  <1>5. visited \subseteq Int /\ stops \subseteq visited
    BY <1>1, <1>2
  <1>6. ASSUME stops # {} PROVE first \in visited
    <2>1. CASE fwd
      <3>1. \A t \in stops : start + 1 <= t
        BY <1>1, <1>2, <1>5, <2>1
      <3> HIDE DEF stops
      <3>2. stops \in SUBSET Int /\ start + 1 \in Int
        BY <1>2, <1>5
      <3>3. Min(stops) \in stops
        BY <1>6, <3>1, <3>2, MinInRange
      <3> QED
        BY <2>1, <3>3, <1>5
    <2>2. CASE ~fwd
      <3>1. \A t \in stops : t <= start
        BY <1>1, <1>2, <1>5, <2>2
      <3> HIDE DEF stops
      <3>2. stops \in SUBSET Int
        BY <1>5
      <3>3. Max(stops) \in stops
        BY <1>2, <1>6, <3>1, <3>2, MaxInRange
      <3> QED
        BY <2>2, <3>3, <1>5
    <2> QED
      BY <2>1, <2>2
  <1> HIDE DEF stops, first
  <1>7. ASSUME m.found
        PROVE  /\ m.pos \in Int /\ ~GetLineFails(s, m.pos)
               /\ len - m.pos \in 0 .. MaxHist
               /\ ~fwd => len - m.pos \in 1 .. len
    <2>1. stops # {} /\ ~GetLineFails(s, first) /\ m.pos = first
      BY <1>3, <1>7
    <2>2. first \in visited
      BY <1>6, <2>1
    <2>3. CASE fwd
      BY <1>1, <1>2, <1>4, <2>1, <2>2, <2>3
    <2>4. CASE ~fwd
      BY <1>1, <1>2, <2>1, <2>2, <2>4
    <2> QED
      BY <2>3, <2>4
  <1>8. ASSUME ~fwd, s.hpos <= len, m.failed PROVE FALSE
    <2>1. stops # {} /\ GetLineFails(s, first)
      BY <1>3, <1>8
    <2>2. first \in 0 .. len - 1
      BY <1>1, <1>2, <1>6, <1>8, <2>1
    <2> QED
      BY <2>1, <2>2 DEF GetLineFails, len
  <1> QED
    BY <1>7, <1>8 DEF m, len, FromEnd

\* Sources.getLine.
LEMMA SaveMainTyped ==
  ASSUME NEW s, Ok(s)
  PROVE  Ok(SaveMain(s))
  <1> DEFINE t == [s EXCEPT !.skip = FALSE]
             u == SaveState(t)
             v == [u EXCEPT !.skip = s.skip]
  <1>1. Only(s, t, {"skip", "undoing", "fault"})
    BY DEF Only, Fields, Ok, Typed
  <1> HIDE DEF t
  <1>2. Ok(u)
    BY <1>1, FlagsTyped, SaveStateTyped
  <1> HIDE DEF u
  <1>3. Only(u, v, {"skip", "undoing", "fault"})
    BY <1>2 DEF Only, Fields, Ok, Typed
  <1>4. Ok(v)
    BY <1>2, <1>3, FlagsTyped
  <1>5. SaveMain(s) = v \/ SaveMain(s) = s
    BY DEF SaveMain, v, u, t
  <1> QED
    BY <1>4, <1>5

\* The pattern of a search that is given none.
LEMMA MatchItemTyped ==
  ASSUME NEW s, Ok(s), HasCurrent(s)
  PROVE  MatchItem(s).line \in Line /\ MatchItem(s).pos \in Nat
  <1> DEFINE lh == s.lines[Name(s)][0]
  <1>1. Name(s) \in Names /\ 0 \in Slots
    BY CurrentTyped, SourcesAssumption DEF Ok, Slots
  <1>2. lh \in Histories
    BY <1>1 DEF Ok, Typed, TypedMoving
  <1>3. MatchItem(s) = IF lh.items = << >> THEN [line |-> << >>, pos |-> 0] ELSE LastItem(lh)
    BY DEF MatchItem
  <1> HIDE DEF lh
  <1> QED
    BY <1>2, <1>3, LastItemType DEF Line

\* Sources.InsertMatch.
LEMMA InsertMatchTyped ==
  ASSUME NEW s, Ok(s), NEW given, NEW usePos, NEW fwd, NEW regex
  PROVE  Ok(InsertMatch(s, given, usePos, fwd, regex))
  <1> DEFINE s1    == SaveMain(s)
             it    == IF given THEN [line |-> s.line, pos |-> s.pos] ELSE MatchItem(s1)
             cline == Slice(it.line, 0, it.pos)
             m     == match(s1, cline, usePos, fwd, regex)
             g     == GetLineFault(s1)
             found == GetLine(s1, m.pos)
             k     == IF it.pos # 0 THEN it.pos ELSE Len(found)
             t     == InsertMatch(s, given, usePos, fwd, regex)
  <1>1. Ok(s1) /\ Only(s, s1, Moving)
    BY SaveMainTyped, SaveMainOnly, OnlyMore DEF Moving, Ok, Typed
  <1>2. \/ t = s \/ t = s1 \/ t = g
        \/ t = [s1 EXCEPT !.hpos = -1]
        \/ t = UndoState([s1 EXCEPT !.hpos = -1]) \/ t = UndoState([g EXCEPT !.hpos = -1])
        \/ /\ HasCurrent(s) /\ m.found
           /\ t = SetLine([s1 EXCEPT !.hpos = FromEnd(s1, m.pos)], found, k)
    BY DEF InsertMatch
  <1> HIDE DEF t
  <1> SUFFICES Ok(t)
    BY DEF t
  <1> HIDE DEF s1, g, cline
  <1>3. Ok(g)
    BY <1>1, GetLineFaultTyped DEF g
  <1>4. -1 \in -1 .. MaxHist
    BY SourcesAssumption
  <1>5. Ok([s1 EXCEPT !.hpos = -1]) /\ Ok([g EXCEPT !.hpos = -1])
    BY <1>1, <1>3, <1>4, PositionTyped
  <1>6. Ok(UndoState([s1 EXCEPT !.hpos = -1])) /\ Ok(UndoState([g EXCEPT !.hpos = -1]))
    BY <1>5, UndoStateTyped
  <1>7. ASSUME HasCurrent(s), m.found
        PROVE  Ok(SetLine([s1 EXCEPT !.hpos = FromEnd(s1, m.pos)], found, k))
    <2>1. HasCurrent(s1)
      BY <1>1, <1>7, SameCurrent
    <2>2. /\ m.pos \in Int /\ ~GetLineFails(s1, m.pos)
          /\ FromEnd(s1, m.pos) \in 0 .. MaxHist
      BY <1>1, <1>7, <2>1, MatchFacts DEF Ok
    <2>3. it.pos \in Int
      BY <1>1, <2>1, MatchItemTyped DEF Ok, Typed, TypedMoving
    <2> HIDE DEF m, it
    <2>4. found \in Line
      BY <1>1, <2>1, <2>2, GetLineTyped DEF Ok
    <2> HIDE DEF found
    <2>5. k \in Int
      BY <2>3, <2>4 DEF Line
    <2> HIDE DEF k
    <2>6. FromEnd(s1, m.pos) \in -1 .. MaxHist
      BY <2>2, SourcesAssumption
    <2>7. Ok([s1 EXCEPT !.hpos = FromEnd(s1, m.pos)])
      BY <1>1, <2>6, PositionTyped
    <2> QED
      BY <2>4, <2>5, <2>7, SetLineTyped DEF Ok
  <1> HIDE DEF m, found, k
  <1> QED
    BY <1>1, <1>2, <1>3, <1>5, <1>6, <1>7

\* Sources.InferNext.
LEMMA InferNextTyped ==
  ASSUME NEW s, Ok(s)
  PROVE  Ok(InferNext(s))
  <1> DEFINE m == match(s, s.line, FALSE, FALSE, FALSE)
             l == GetLine(s, m.pos + 1)
  <1>1. \/ InferNext(s) = s \/ InferNext(s) = GetLineFault(s)
        \/ /\ HasCurrent(s) /\ m.found /\ ~GetLineFails(s, m.pos + 1)
           /\ InferNext(s) = SetLine(s, l, Len(l))
    BY DEF InferNext
  <1>2. ASSUME HasCurrent(s), m.found, ~GetLineFails(s, m.pos + 1)
        PROVE  Ok(SetLine(s, l, Len(l)))
    <2>1. m.pos \in Int
      BY <1>2, MatchFacts DEF Ok
    <2> HIDE DEF m
    <2>2. l \in Line
      BY <1>2, <2>1, GetLineTyped DEF Ok
    <2> HIDE DEF l
    <2>3. Len(l) \in Int
      BY <2>2 DEF Line
    <2> QED
      BY <2>2, <2>3, SetLineTyped DEF Ok
  <1> HIDE DEF m, l
  <1> QED
    BY <1>1, <1>2, GetLineFaultTyped

\* Sources.Suggest.
LEMMA SuggestTyped ==
  ASSUME NEW s, Ok(s), NEW l \in Line
  PROVE  Suggest(s, l) \in Line
  <1> DEFINE m == match(s, l, FALSE, FALSE, FALSE)
  <1>1. CASE l = << >> \/ ~HasCurrent(s) \/ ~m.found
    BY <1>1 DEF Suggest
  <1>2. CASE ~(l = << >> \/ ~HasCurrent(s) \/ ~m.found)
    <2>1. m.pos \in Int /\ ~GetLineFails(s, m.pos)
      BY <1>2, MatchFacts DEF Ok
    <2>2. Suggest(s, l) = GetLine(s, m.pos)
      BY <1>2 DEF Suggest
    <2> HIDE DEF m
    <2> QED
      BY <1>2, <2>1, <2>2, GetLineTyped DEF Ok
  <1> QED
    BY <1>1, <1>2

\* What history.Init infers.
LEMMA InferLineTyped ==
  ASSUME NEW s, Ok(s)
  PROVE  Ok(InferLine(s))
  BY InferNextTyped, WalkTyped DEF InferLine

\* Sources.LineAccepted.
LEMMA LineAcceptedTyped ==
  ASSUME NEW s, Ok(s)
  PROVE  Ok(LineAccepted(s))
  <1> DEFINE new == [n \in Names |-> [i \in Slots |-> NewLineHistory]]
             t == [s EXCEPT !.lines = new]
  <1>1. new \in [Names -> [Slots -> Histories]]
    BY NewHistory
  <1> HIDE DEF new
  <1>2. Only(s, t, {"lines"}) /\ t.lines = new
    BY DEF Only, Fields, Ok, Typed
  <1>3. LineAccepted(s) = t \/ LineAccepted(s) = s
    BY DEF LineAccepted, new
  <1> HIDE DEF t
  <1>4. Only(s, t, Moving)
    BY <1>2, OnlyMore DEF Moving, Saving
  <1>5. /\ t.cpos = s.cpos /\ t.hpos = s.hpos
        /\ t.acceptLine = s.acceptLine /\ t.line = s.line /\ t.pos = s.pos
    BY <1>2 DEF Only, Fields
  <1>6. TypedMoving(t) /\ OnLine(t)
    BY <1>1, <1>2, <1>5 DEF Ok, Typed, TypedMoving, OnLine
  <1>7. Ok(t)
    BY <1>4, <1>6, MovingTyped DEF Ok
  <1> QED
    BY <1>3, <1>7

-----------------------------------------------------------------------------
(* Writing and accepting                                                   *)

\* Trimming gives a line that starts and ends with no blank, and trimming it
\* again changes nothing.
LEMMA TrimSpaceFacts ==
  ASSUME NEW l \in Line
  PROVE  TrimSpace(l) \in Line /\ TrimSpace(TrimSpace(l)) = TrimSpace(l)
  <1> DEFINE Ink(x) == {i \in 1 .. Len(x) : ~IsBlank(x[i])}
             a == Min(Ink(l))
             b == Max(Ink(l))
             t == SubSeq(l, a, b)
  <1>1. \A x : TrimSpace(x) = IF Ink(x) = {} THEN << >> ELSE SubSeq(x, Min(Ink(x)), Max(Ink(x)))
    BY DEF TrimSpace
  <1>2. ASSUME NEW x \in Seq(Char), Ink(x) # {}
        PROVE  /\ Min(Ink(x)) \in Ink(x) /\ \A y \in Ink(x) : Min(Ink(x)) <= y
               /\ Max(Ink(x)) \in Ink(x) /\ \A y \in Ink(x) : y <= Max(Ink(x))
    <2> DEFINE T == Ink(x)
    <2>1. /\ T \in SUBSET Int /\ T # {} /\ T \subseteq Nat
          /\ \A y \in T : y <= Len(x)
      BY <1>2
    <2>2. Len(x) \in Int
      OBVIOUS
    <2> HIDE DEF T
    <2>3. Min(T) \in T /\ \A y \in T : Min(T) <= y
      BY <2>1, MinInSet
    <2>4. Max(T) \in T /\ \A y \in T : y <= Max(T)
      BY <2>1, <2>2, MaxInRange
    <2> QED
      BY <2>3, <2>4 DEF T
  <1>3. CASE Ink(l) = {}
    <2>1. Ink(<< >>) = {}
      OBVIOUS
    <2> HIDE DEF Ink
    <2>2. TrimSpace(l) = << >> /\ TrimSpace(<< >>) = << >>
      BY <1>1, <1>3, <2>1
    <2>3. << >> \in Line
      BY DEF Line
    <2> QED
      BY <2>2, <2>3
  <1>4. CASE Ink(l) # {}
    <2>1. /\ a \in 1 .. Len(l) /\ b \in 1 .. Len(l) /\ a <= b
          /\ ~IsBlank(l[a]) /\ ~IsBlank(l[b])
      BY <1>2, <1>4 DEF Line
    <2>2. TrimSpace(l) = t
      BY <1>1, <1>4
    <2> HIDE DEF a, b
    <2>3. /\ t \in Line /\ Len(t) = b - a + 1
          /\ \A i \in 1 .. b - a + 1 : t[i] = l[a + i - 1]
      BY <2>1 DEF Line
    <2>4. 1 \in 1 .. Len(t) /\ Len(t) \in 1 .. Len(t) /\ t[1] = l[a] /\ t[Len(t)] = l[b]
      <3>1. 1 \in 1 .. b - a + 1 /\ b - a + 1 \in 1 .. b - a + 1
        BY <2>1
      <3>2. t[1] = l[a + 1 - 1] /\ t[b - a + 1] = l[a + (b - a + 1) - 1]
        BY <2>3, <3>1
      <3>3. a + 1 - 1 = a /\ a + (b - a + 1) - 1 = b
        BY <2>1
      <3> QED
        BY <2>3, <3>1, <3>2, <3>3
    <2> HIDE DEF t
    <2>5. 1 \in Ink(t) /\ Len(t) \in Ink(t)
      BY <2>1, <2>4
    <2>6. Ink(t) \subseteq 1 .. Len(t)
      OBVIOUS
    <2> HIDE DEF Ink
    <2>7. Min(Ink(t)) = 1 /\ Max(Ink(t)) = Len(t)
      <3>1. t \in Seq(Char) /\ Ink(t) # {}
        BY <2>3, <2>5 DEF Line
      <3>2. /\ Min(Ink(t)) \in Ink(t) /\ Min(Ink(t)) <= 1
            /\ Max(Ink(t)) \in Ink(t) /\ Len(t) <= Max(Ink(t))
        BY <1>2, <2>5, <3>1
      <3>3. Len(t) \in Nat
        BY <3>1
      <3> QED
        BY <2>6, <3>2, <3>3
    <2>8. TrimSpace(t) = SubSeq(t, 1, Len(t))
      BY <1>1, <2>5, <2>7
    <2>9. SubSeq(t, 1, Len(t)) = t
      BY <2>3 DEF Line
    <2> QED
      BY <2>2, <2>3, <2>8, <2>9
  <1> QED
    BY <1>3, <1>4

\* What a source may hold after the line l has been written to it.
Appended(ls, ls1, l) ==
  /\ ls1 \in Seq(Line) /\ Front(ls1) = ls
  /\ TrimSpace(Last(ls1)) = TrimSpace(l) /\ TrimSpace(l) # << >>
  /\ ls # << >> => Last(ls1) # Last(ls)

\* A line at the end of a source.
LEMMA AppendFacts ==
  ASSUME NEW ls \in Seq(Line), NEW l \in Line
  PROVE  /\ Append(ls, l) \in Seq(Line) /\ Front(Append(ls, l)) = ls
         /\ Last(Append(ls, l)) = l
  <1>1. Append(ls, l) \in Seq(Line) /\ Len(Append(ls, l)) = Len(ls) + 1 /\ Len(ls) \in Nat
    OBVIOUS
  <1>2. Append(ls, l)[Len(ls) + 1] = l
    OBVIOUS
  <1>3. SubSeq(Append(ls, l), 1, Len(ls)) = ls
    OBVIOUS
  <1> QED
    BY <1>1, <1>2, <1>3 DEF Front, Last

\* A write appends the line, unless the source has it at its end.
LEMMA WriteToFacts ==
  ASSUME NEW n, NEW ls \in Seq(Line), NEW l \in Line, TrimSpace(l) # << >>,
         ls # << >> /\ Last(ls) # << >> => TrimSpace(Last(ls)) # TrimSpace(l)
  PROVE  WriteTo(n, ls, l) = ls \/ Appended(ls, WriteTo(n, ls, l), l)
  <1> DEFINE t == TrimSpace(l)
  <1>1. t \in Line /\ TrimSpace(t) = t
    BY TrimSpaceFacts
  <1>2. l # << >>
    <2>1. TrimSpace(<< >>) = << >>
      BY DEF TrimSpace
    <2> QED
      BY <2>1
  <1>3. CASE n \notin Files
    <2>1. WriteTo(n, ls, l) = Append(ls, l)
      BY <1>3 DEF WriteTo
    <2>2. ls # << >> => Last(ls) # l
      BY <1>2
    <2> QED
      BY <2>1, <2>2, AppendFacts DEF Appended
  <1>4. CASE n \in Files /\ (t = << >> \/ (ls # << >> /\ Last(ls) = t))
    BY <1>4 DEF WriteTo
  <1>5. CASE n \in Files /\ ~(t = << >> \/ (ls # << >> /\ Last(ls) = t))
    <2>1. WriteTo(n, ls, l) = Append(ls, t)
      BY <1>5 DEF WriteTo
    <2> HIDE DEF t
    <2>2. /\ Append(ls, t) \in Seq(Line) /\ Front(Append(ls, t)) = ls
          /\ Last(Append(ls, t)) = t
      BY <1>1, AppendFacts
    <2> QED
      BY <1>1, <1>5, <2>1, <2>2 DEF Appended, t
  <1> QED
    BY <1>3, <1>4, <1>5

\* Write visits some of the sources, none of which ends with the line.
LEMMA WriteSetsFacts ==
  ASSUME NEW s, NEW l, NEW w \in WriteSets(s, l), NEW n \in w
  PROVE  s.list[n] # << >> /\ Last(s.list[n]) # << >>
            => TrimSpace(Last(s.list[n])) # TrimSpace(l)
  <1> DEFINE open == {k \in DOMAIN s.list : MaxEntries # 0 /\ MaxEntries < Len(s.list[k])}
             same == {k \in open : /\ s.list[k] # << >>
                                   /\ Last(s.list[k]) # << >>
                                   /\ TrimSpace(Last(s.list[k])) = TrimSpace(l)}
  <1>1. WriteSets(s, l) = IF same = {} THEN {open} ELSE SUBSET (open \ same)
    BY DEF WriteSets
  <1>2. n \in open /\ n \notin same
    <2> HIDE DEF open, same
    <2> QED
      BY <1>1
  <1> QED
    BY <1>2

\* The sources after a write, each with the line at its end or as it was.
Wrote(s, t) ==
  /\ DOMAIN t.list = DOMAIN s.list
  /\ \A n \in DOMAIN s.list :
       \/ t.list[n] = s.list[n]
       \/ t.infer = s.infer /\ Appended(s.list[n], t.list[n], s.line)

\* Sources.Write: a source is left alone or has the line at its end.
LEMMA WriteFacts ==
  ASSUME NEW s, DOMAIN s = Fields, TypedSources(s), s.line \in Line,
         NEW infer, NEW t \in Write(s, infer)
  PROVE  /\ Only(s, t, {"list", "infer"}) /\ TypedSources(t) /\ Wrote(s, t)
         /\ t.infer = s.infer \/ (infer /\ t.infer = TRUE)
  <1>1. CASE infer
    <2>1. t = [s EXCEPT !.infer = TRUE]
      BY <1>1 DEF Write
    <2>2. Only(s, t, {"infer"}) /\ t.infer = TRUE
      BY <2>1 DEF Only, Fields
    <2>3. t.list = s.list /\ t.names = s.names /\ t.sourcePos = s.sourcePos
      BY <2>2 DEF Only, Fields
    <2> QED
      BY <1>1, <2>2, <2>3, OnlyMore DEF Wrote, TypedSources
  <1>2. CASE ~infer /\ TrimSpace(s.line) = << >>
    <2>1. t = s
      BY <1>2 DEF Write
    <2> QED
      BY <2>1 DEF Wrote, Only
  <1>3. CASE ~infer /\ TrimSpace(s.line) # << >>
    <2>1. PICK w \in WriteSets(s, s.line) :
            t = [s EXCEPT !.list = [n \in DOMAIN s.list |->
                   IF n \in w THEN WriteTo(n, s.list[n], s.line) ELSE s.list[n]]]
      BY <1>3 DEF Write
    <2>2. /\ Only(s, t, {"list"})
          /\ t.list = [n \in DOMAIN s.list |->
                         IF n \in w THEN WriteTo(n, s.list[n], s.line) ELSE s.list[n]]
      BY <2>1 DEF Only, Fields
    <2>3. t.names = s.names /\ t.sourcePos = s.sourcePos /\ t.infer = s.infer
      BY <2>2 DEF Only, Fields
    <2>4. ASSUME NEW n \in DOMAIN s.list
          PROVE  t.list[n] = s.list[n] \/ Appended(s.list[n], t.list[n], s.line)
      <3>1. CASE n \notin w
        BY <2>2, <3>1
      <3>2. CASE n \in w
        <4>1. t.list[n] = WriteTo(n, s.list[n], s.line) /\ s.list[n] \in Seq(Line)
          BY <2>2, <3>2 DEF TypedSources
        <4>2. s.list[n] # << >> /\ Last(s.list[n]) # << >>
                 => TrimSpace(Last(s.list[n])) # TrimSpace(s.line)
          BY <3>2, WriteSetsFacts
        <4> QED
          BY <1>3, <4>1, <4>2, WriteToFacts
      <3> QED
        BY <3>1, <3>2
    <2>5. DOMAIN t.list = DOMAIN s.list
      BY <2>2
    <2>6. \A n \in DOMAIN s.list : t.list[n] \in Seq(Line)
      BY <2>4 DEF Appended, TypedSources
    <2>7. Only(s, t, {"list", "infer"})
      BY <2>2, OnlyMore
    <2>8. TypedSources(t)
      BY <2>3, <2>5, <2>6 DEF TypedSources
    <2> QED
      BY <2>3, <2>4, <2>5, <2>7, <2>8 DEF Wrote
  <1> QED
    BY <1>1, <1>2, <1>3

\* What accepting the line touches.
Accepting == {"list", "infer", "accepted", "acceptHold", "acceptLine"}

\* The line of s is taken by the command that leaves t.
Taken(s, t, hold, infer) ==
  /\ t.accepted = TRUE /\ t.acceptHold = hold /\ t.acceptLine = s.line
  /\ t.infer = s.infer \/ infer = TRUE

\* A command that accepts the line writes it at most once to every source.
LEMMA AcceptFacts ==
  ASSUME NEW s, DOMAIN s = Fields, TypedSources(s), s.line \in Line,
         NEW hold, NEW infer \in BOOLEAN, NEW failed, NEW t \in Accept(s, hold, infer, failed)
  PROVE  Only(s, t, Accepting) /\ TypedSources(t) /\ Wrote(s, t) /\ Taken(s, t, hold, infer)
  <1> DEFINE r == [s EXCEPT !.accepted = TRUE, !.acceptHold = hold, !.acceptLine = s.line]
  <1>1. /\ Only(s, r, {"accepted", "acceptHold", "acceptLine"})
        /\ r.accepted = TRUE /\ r.acceptHold = hold /\ r.acceptLine = s.line
    BY DEF Only, Fields
  <1>2. t = r \/ t \in Write(r, infer)
    BY DEF Accept
  <1> HIDE DEF r
  <1>3. /\ DOMAIN r = Fields /\ r.line = s.line /\ r.list = s.list /\ r.names = s.names
        /\ r.sourcePos = s.sourcePos /\ r.infer = s.infer
    BY <1>1 DEF Only, Fields
  <1>4. TypedSources(r) /\ r.line \in Line
    BY <1>3 DEF TypedSources
  <1>5. Only(s, r, Accepting)
    BY <1>1, OnlyMore DEF Accepting
  <1>6. CASE t = r
    BY <1>1, <1>3, <1>4, <1>5, <1>6 DEF Wrote, Taken
  <1>7. CASE t \in Write(r, infer)
    <2>1. /\ Only(r, t, {"list", "infer"}) /\ TypedSources(t) /\ Wrote(r, t)
          /\ t.infer = r.infer \/ (infer /\ t.infer = TRUE)
      BY <1>3, <1>4, <1>7, WriteFacts
    <2>2. t.accepted = r.accepted /\ t.acceptHold = r.acceptHold /\ t.acceptLine = r.acceptLine
      BY <2>1 DEF Only, Fields
    <2>3. Only(s, t, Accepting)
      BY <1>5, <2>1, OnlyMore, OnlyTrans DEF Accepting
    <2>4. Wrote(s, t)
      BY <1>3, <2>1 DEF Wrote
    <2> QED
      BY <1>1, <1>3, <2>1, <2>2, <2>3, <2>4 DEF Taken
  <1> QED
    BY <1>2, <1>6, <1>7

\* What the start of a loop touches.
Looping == Moving \cup {"infer", "accepted", "acceptLine"}

\* What the start of a loop saves.
Start(s) ==
  LET s0 == ResetState([s EXCEPT !.line = << >>, !.pos = 0])
      s1 == IF s0.acceptHold
            THEN SetLine([s0 EXCEPT !.hpos = -1], s0.acceptLine, Len(s0.acceptLine))
            ELSE IF ~s0.infer
            THEN IF HasCurrent(s0)
                 THEN SetLineHistory([s0 EXCEPT !.hpos = -1], NewLineHistory)
                 ELSE [s0 EXCEPT !.hpos = -1]
            ELSE [InferLine(s0) EXCEPT !.infer = FALSE]
  IN  [s1 EXCEPT !.accepted = FALSE, !.acceptLine = << >>, !.cpos = -1]

\* The start of a loop: the inference that was asked for is done.
LEMMA InitLoopFacts ==
  ASSUME NEW s, Ok(s)
  PROVE  /\ Ok(InitLoop(s)) /\ Only(s, InitLoop(s), Looping)
         /\ InitLoop(s).accepted = FALSE
         /\ s.acceptHold \/ ~s.infer \/ InitLoop(s).infer = FALSE
         /\ ~s.infer => ~InitLoop(s).infer
         /\ Ok(Start(s)) /\ InitLoop(s) = SaveState(Start(s))
  <1> DEFINE e  == [s EXCEPT !.line = << >>, !.pos = 0]
             s0 == ResetState(e)
             a  == [s0 EXCEPT !.hpos = -1]
             i  == InferLine(s0)
             s1 == IF s0.acceptHold THEN SetLine(a, s0.acceptLine, Len(s0.acceptLine))
                   ELSE IF ~s0.infer
                   THEN IF HasCurrent(s0) THEN SetLineHistory(a, NewLineHistory) ELSE a
                   ELSE [i EXCEPT !.infer = FALSE]
             z  == [s1 EXCEPT !.accepted = FALSE, !.acceptLine = << >>, !.cpos = -1]
  <1>1. InitLoop(s) = SaveState(z) /\ Start(s) = z
    BY DEF InitLoop, Start
  <1>2. << >> \in Line /\ Len(<< >>) = 0
    BY DEF Line
  <1>3. Ok(e) /\ Only(s, e, Moving)
    <2>1. Only(s, e, {"line", "pos"}) /\ e.line = << >> /\ e.pos = 0
      BY DEF Only, Fields, Ok, Typed
    <2> HIDE DEF e
    <2>2. Only(s, e, Moving)
      BY <2>1, OnlyMore DEF Moving
    <2>3. /\ e.lines = s.lines /\ e.cpos = s.cpos /\ e.hpos = s.hpos
          /\ e.acceptLine = s.acceptLine
      BY <2>1 DEF Only, Fields
    <2>4. TypedMoving(e) /\ OnLine(e)
      BY <1>2, <2>1, <2>3 DEF Ok, Typed, TypedMoving, OnLine
    <2> QED
      BY <2>2, <2>4, MovingTyped DEF Ok
  <1> HIDE DEF e
  <1>4. Ok(s0) /\ Only(s, s0, Moving)
    <2>1. Only(e, s0, Moving)
      BY <1>3, ResetStateOnly, OnlyMore DEF Ok, Typed, Moving
    <2> QED
      BY <1>3, <2>1, ResetStateTyped, OnlyTrans
  <1> HIDE DEF s0
  <1>5. Ok(a) /\ Only(s0, a, Moving)
    <2>1. -1 \in -1 .. MaxHist
      BY SourcesAssumption
    <2> QED
      BY <1>4, <2>1, PositionTyped, OnlyMore DEF Moving
  <1> HIDE DEF a
  <1>6. Ok(i) /\ Only(s0, i, Moving)
    BY <1>4, InferLineTyped, InferLineOnly DEF Ok, Typed
  <1> HIDE DEF i
  <1>7. /\ Ok(s1) /\ Only(s0, s1, Looping)
        /\ s0.acceptHold \/ ~s0.infer \/ s1.infer = FALSE
        /\ ~s0.infer => ~s1.infer
    <2>1. CASE s0.acceptHold
      <3> DEFINE l == s0.acceptLine
      <3>1. l \in Line /\ Len(l) \in Int
        BY <1>4 DEF Ok, Typed, TypedMoving, Line
      <3> HIDE DEF l
      <3>2. Ok(SetLine(a, l, Len(l)))
        BY <1>5, <3>1, SetLineTyped DEF Ok
      <3>3. Only(a, SetLine(a, l, Len(l)), Moving)
        BY <1>5, SetLineOnly, OnlyMore DEF Ok, Typed, Moving
      <3>4. Only(s0, SetLine(a, l, Len(l)), Moving)
        BY <1>5, <3>3, OnlyTrans
      <3>5. s1 = SetLine(a, l, Len(l))
        BY <2>1 DEF l
      <3> HIDE DEF s1
      <3>6. Only(s0, s1, Looping) /\ s1.infer = s0.infer
        BY <3>4, <3>5, OnlyMore DEF Looping, Moving, Saving, Only, Fields
      <3> QED
        BY <2>1, <3>2, <3>5, <3>6
    <2>2. CASE ~s0.acceptHold /\ ~s0.infer
      <3>1. HasCurrent(s0) => HasCurrent(a)
        BY <1>5, SameCurrent
      <3>2. /\ HasCurrent(s0) => Ok(SetLineHistory(a, NewLineHistory))
            /\ Only(a, SetLineHistory(a, NewLineHistory), Moving)
        BY <1>5, <3>1, NewHistory, SetLineHistoryTyped, SetLineHistoryOnly, OnlyMore
           DEF Ok, Typed, Moving, Saving
      <3>3. Only(s0, SetLineHistory(a, NewLineHistory), Moving)
        BY <1>5, <3>2, OnlyTrans
      <3>4. s1 = IF HasCurrent(s0) THEN SetLineHistory(a, NewLineHistory) ELSE a
        BY <2>2
      <3> HIDE DEF s1
      <3>5. Ok(s1) /\ Only(s0, s1, Moving)
        BY <1>5, <3>2, <3>3, <3>4
      <3>6. Only(s0, s1, Looping) /\ s1.infer = s0.infer
        BY <3>5, OnlyMore DEF Looping, Moving, Saving, Only, Fields
      <3> QED
        BY <2>2, <3>5, <3>6
    <2>3. CASE ~s0.acceptHold /\ s0.infer
      <3>1. s1 = [i EXCEPT !.infer = FALSE]
        BY <2>3
      <3>2. Only(i, s1, {"infer"}) /\ s1.infer = FALSE
        BY <1>6, <3>1 DEF Only, Fields, Ok, Typed
      <3> HIDE DEF s1
      <3>3. Only(s0, s1, Looping)
        <4>1. Only(i, s1, Looping) /\ Only(s0, i, Looping)
          BY <1>6, <3>2, OnlyMore DEF Looping
        <4> QED
          BY <4>1, OnlyTrans
      <3>4. /\ s1.lines = i.lines /\ s1.cpos = i.cpos /\ s1.hpos = i.hpos
            /\ s1.acceptLine = i.acceptLine /\ s1.line = i.line /\ s1.pos = i.pos
            /\ s1.list = i.list /\ s1.names = i.names /\ s1.sourcePos = i.sourcePos
            /\ DOMAIN s1 = Fields
        BY <3>2 DEF Only, Fields
      <3>5. Ok(s1)
        BY <1>6, <3>4 DEF Ok, Typed, TypedMoving, TypedSources, Bounded, OnLine
      <3> QED
        BY <2>3, <3>2, <3>3, <3>5
    <2> HIDE DEF s1
    <2> QED
      BY <2>1, <2>2, <2>3
  <1> HIDE DEF s1
  <1>8. /\ Ok(z) /\ Only(s1, z, {"accepted", "acceptLine", "cpos"})
        /\ z.accepted = FALSE
    <2>1. /\ Only(s1, z, {"accepted", "acceptLine", "cpos"})
          /\ z.accepted = FALSE /\ z.acceptLine = << >> /\ z.cpos = -1
      BY <1>7 DEF Only, Fields, Ok, Typed
    <2> HIDE DEF z
    <2>2. /\ z.lines = s1.lines /\ z.hpos = s1.hpos /\ z.line = s1.line /\ z.pos = s1.pos
          /\ z.list = s1.list /\ z.names = s1.names /\ z.sourcePos = s1.sourcePos
          /\ DOMAIN z = Fields
      BY <2>1 DEF Only, Fields
    <2>3. Ok(z)
      BY <1>2, <1>7, <2>1, <2>2 DEF Ok, Typed, TypedMoving, TypedSources, Bounded, OnLine
    <2> QED
      BY <2>1, <2>3
  <1> HIDE DEF z
  <1>9. Ok(SaveState(z)) /\ Only(z, SaveState(z), Saving)
    BY <1>8, SaveStateTyped, SaveStateOnly DEF Ok, Typed
  <1>10. Only(s, SaveState(z), Looping)
    <2>1. /\ Only(s, s0, Looping) /\ Only(s0, s1, Looping) /\ Only(s1, z, Looping)
          /\ Only(z, SaveState(z), Looping)
      BY <1>4, <1>7, <1>8, <1>9, OnlyMore DEF Looping, Moving
    <2> QED
      BY <2>1, OnlyTrans
  <1>11. /\ SaveState(z).accepted = z.accepted /\ SaveState(z).infer = z.infer
         /\ z.infer = s1.infer /\ s0.infer = s.infer /\ s0.acceptHold = s.acceptHold
    BY <1>4, <1>8, <1>9 DEF Only, Fields, Moving, Saving
  <1> QED
    BY <1>1, <1>7, <1>8, <1>9, <1>10, <1>11

-----------------------------------------------------------------------------
(* The list of sources                                                     *)

\* What a change of the list of sources touches.
Listing == {"names", "list", "sourcePos", "hpos"}

\* A change of the list of sources that keeps the types of the sources.
LEMMA ListingTyped ==
  ASSUME NEW s, NEW t, Ok(s), Only(s, t, Listing), TypedSources(t), Bounded(t),
         t.hpos \in -1 .. MaxHist
  PROVE  Ok(t)
  <1>1. /\ t.lines = s.lines /\ t.cpos = s.cpos
        /\ t.acceptLine = s.acceptLine /\ t.line = s.line /\ t.pos = s.pos
        /\ DOMAIN t = Fields
    BY DEF Only, Fields, Listing
  <1> QED
    BY <1>1 DEF Ok, Typed, TypedMoving, OnLine

\* Sources.Add.
LEMMA AddSourceTyped ==
  ASSUME NEW s, Ok(s), NEW n \in Added
  PROVE  Ok(AddSource(s, n)) /\ Only(s, AddSource(s, n), Listing)
  <1> DEFINE alone == Cardinality(DOMAIN s.list) = 1 /\ s.names[1] = Default
             names == IF alone THEN << >> ELSE s.names
             kept  == IF alone THEN DOMAIN s.list \ {Default} ELSE DOMAIN s.list
             list  == [m \in kept \cup {n} |-> IF m = n THEN Loaded[n] ELSE s.list[m]]
             t     == AddSource(s, n)
  <1>1. /\ Only(s, t, {"names", "list"}) /\ t.names = Append(names, n) /\ t.list = list
    BY DEF AddSource, Only, Fields, Ok, Typed
  <1>2. /\ s.names \in Seq(Names) /\ DOMAIN s.list \subseteq Names /\ n \in Names
        /\ \A m \in DOMAIN s.list : s.list[m] \in Seq(Line) /\ Len(s.list[m]) <= MaxHist
        /\ Loaded[n] \in Seq(Line) /\ Len(Loaded[n]) <= MaxHist
    BY SourcesAssumption DEF Ok, Typed, TypedSources, Bounded, Names
  <1>3. names \in Seq(Names) /\ kept \subseteq DOMAIN s.list
    BY <1>2
  <1> HIDE DEF names, kept
  <1>4. /\ Append(names, n) \in Seq(Names) /\ DOMAIN list \subseteq Names
        /\ \A m \in DOMAIN list : list[m] \in Seq(Line) /\ Len(list[m]) <= MaxHist
    BY <1>2, <1>3
  <1> HIDE DEF t, list
  <1>5. Only(s, t, Listing) /\ t.sourcePos = s.sourcePos /\ t.hpos = s.hpos
    BY <1>1, OnlyMore DEF Listing, Only, Fields
  <1>6. TypedSources(t) /\ Bounded(t)
    BY <1>1, <1>4, <1>5 DEF TypedSources, Bounded, Ok, Typed
  <1>7. Ok(t)
    BY <1>5, <1>6, ListingTyped DEF Ok, Typed, TypedMoving
  <1> QED
    BY <1>5, <1>7 DEF t

\* A sequence without its i-th element.
LEMMA RemoveAtFacts ==
  ASSUME NEW S, NEW q \in Seq(S), NEW i \in 1 .. Len(q)
  PROVE  /\ RemoveAt(q, i) \in Seq(S) /\ Len(RemoveAt(q, i)) = Len(q) - 1
         /\ \A j \in 1 .. Len(q) - 1 : RemoveAt(q, i)[j] = IF j < i THEN q[j] ELSE q[j + 1]
  <1> DEFINE a == SubSeq(q, 1, i - 1)
             b == SubSeq(q, i + 1, Len(q))
  <1>1. /\ a \in Seq(S) /\ Len(a) = i - 1
        /\ \A j \in 1 .. i - 1 : a[j] = q[j]
    OBVIOUS
  <1>2. /\ b \in Seq(S) /\ Len(b) = Len(q) - i
        /\ \A j \in 1 .. Len(q) - i : b[j] = q[i + j]
    OBVIOUS
  <1> HIDE DEF a, b
  <1>3. RemoveAt(q, i) = a \o b
    BY DEF RemoveAt, a, b
  <1>4. a \o b \in Seq(S) /\ Len(a \o b) = Len(q) - 1
    <2>1. a \o b \in Seq(S) /\ Len(a \o b) = Len(a) + Len(b)
      BY <1>1, <1>2, ConcatProperties
    <2>2. Len(q) \in Nat
      OBVIOUS
    <2> QED
      BY <1>1, <1>2, <2>1, <2>2
  <1>5. ASSUME NEW j \in 1 .. Len(q) - 1
        PROVE  (a \o b)[j] = IF j < i THEN q[j] ELSE q[j + 1]
    <2>1. CASE j < i
      BY <1>1, <1>2, <2>1
    <2>2. CASE ~(j < i)
      <3>1. j - (i - 1) \in 1 .. Len(q) - i /\ i + (j - (i - 1)) = j + 1
        BY <2>2
      <3>2. (a \o b)[j] = b[j - (i - 1)]
        BY <1>1, <1>2, <2>2
      <3> QED
        BY <1>2, <2>2, <3>1, <3>2
    <2> QED
      BY <2>1, <2>2
  <1> QED
    BY <1>3, <1>4, <1>5

\* Sources.Delete of one source.
LEMMA DeleteSourceTyped ==
  ASSUME NEW s, Ok(s), NEW n \in Added
  PROVE  Ok(DeleteSource(s, n)) /\ Only(s, DeleteSource(s, n), Listing)
  <1> DEFINE named == {i \in 1 .. Len(s.names) : s.names[i] = n}
             names == IF named = {} THEN s.names ELSE RemoveAt(s.names, Min(named))
             list  == [m \in DOMAIN s.list \ {n} |-> s.list[m]]
             t     == DeleteSource(s, n)
  <1>1. /\ Only(s, t, Listing) /\ t.names = names /\ t.list = list /\ t.sourcePos = 0
        /\ t.hpos = s.hpos \/ t.hpos = -1
    BY DEF DeleteSource, Only, Fields, Listing, Ok, Typed
  <1>2. /\ s.names \in Seq(Names) /\ DOMAIN s.list \subseteq Names
        /\ \A m \in DOMAIN s.list : s.list[m] \in Seq(Line) /\ Len(s.list[m]) <= MaxHist
    BY DEF Ok, Typed, TypedSources, Bounded
  <1>3. names \in Seq(Names)
    <2>1. named \in SUBSET Nat /\ named \subseteq 1 .. Len(s.names)
      OBVIOUS
    <2> HIDE DEF named
    <2>2. named # {} => Min(named) \in 1 .. Len(s.names)
      BY <2>1, MinInSet
    <2> QED
      BY <1>2, <2>2, RemoveAtFacts
  <1>4. /\ DOMAIN list \subseteq Names
        /\ \A m \in DOMAIN list : list[m] \in Seq(Line) /\ Len(list[m]) <= MaxHist
    BY <1>2
  <1> HIDE DEF names, list, t
  <1>5. TypedSources(t) /\ Bounded(t)
    BY <1>1, <1>3, <1>4 DEF TypedSources, Bounded
  <1>6. t.hpos \in -1 .. MaxHist
    BY <1>1, SourcesAssumption DEF Ok, Typed, TypedMoving
  <1>7. Ok(t)
    BY <1>1, <1>5, <1>6, ListingTyped
  <1> QED
    BY <1>1, <1>7 DEF t

\* Sources.Delete of all sources.
LEMMA DeleteAllTyped ==
  ASSUME NEW s, Ok(s)
  PROVE  Ok(DeleteAll(s)) /\ Only(s, DeleteAll(s), Listing)
  <1> DEFINE t == DeleteAll(s)
  <1>1. Only(s, t, {"names", "list"}) /\ t.names = << >> /\ t.list = << >>
    BY DEF DeleteAll, Only, Fields, Ok, Typed
  <1> HIDE DEF t
  <1>2. Only(s, t, Listing) /\ t.sourcePos = s.sourcePos /\ t.hpos = s.hpos
    BY <1>1, OnlyMore DEF Listing, Only, Fields
  <1>3. t.names \in Seq(Names) /\ DOMAIN t.list = {}
    BY <1>1
  <1>4. TypedSources(t) /\ Bounded(t)
    BY <1>2, <1>3 DEF TypedSources, Bounded, Ok, Typed
  <1>5. Ok(t)
    BY <1>2, <1>4, ListingTyped DEF Ok, Typed, TypedMoving
  <1> QED
    BY <1>2, <1>5 DEF t

\* Sources.Cycle.
LEMMA CycleTyped ==
  ASSUME NEW s, Ok(s), NEW next
  PROVE  Ok(Cycle(s, next)) /\ Only(s, Cycle(s, next), {"sourcePos"})
  <1> DEFINE t == Cycle(s, next)
             n == Len(s.names)
  <1>1. s.sourcePos \in Int /\ n \in Int /\ DOMAIN s = Fields
    BY DEF Ok, Typed, TypedSources
  <1>2. /\ Only(s, t, {"sourcePos"})
        /\ t.sourcePos = IF next THEN (IF s.sourcePos + 1 = n THEN 0 ELSE s.sourcePos + 1)
                         ELSE (IF s.sourcePos - 1 < 0 THEN n - 1 ELSE s.sourcePos - 1)
    BY <1>1 DEF Cycle, Only, Fields
  <1> HIDE DEF t
  <1>3. t.sourcePos \in Int
    BY <1>1, <1>2
  <1>4. Only(s, t, Listing) /\ t.names = s.names /\ t.list = s.list /\ t.hpos = s.hpos
    BY <1>2, OnlyMore DEF Listing, Only, Fields
  <1>5. TypedSources(t) /\ Bounded(t)
    BY <1>3, <1>4 DEF TypedSources, Bounded, Ok, Typed
  <1>6. Ok(t)
    BY <1>4, <1>5, ListingTyped DEF Ok, Typed, TypedMoving
  <1> QED
    BY <1>2, <1>6 DEF t

\* The first sources are added one after the other.
Built(f) ==
  /\ f[0] = NewSources /\ f[Len(Initial)] = FirstSources
  /\ \A i \in 1 .. Len(Initial) : f[i] = AddSource(f[i - 1], Initial[i])

\* The structs that the first calls of Add go through.
Lists == UNION {[D -> Seq(Line)] : D \in SUBSET Names}

\* The structs before the first loop: only the list of sources differs.
FirstStructs ==
  [line : {<< >>}, pos : {0}, names : Seq(Names), list : Lists,
   sourcePos : {0}, hpos : {-1}, cpos : {-1}, skip : {FALSE}, undoing : {FALSE},
   lines : {[n \in Names |-> [i \in Slots |-> NewLineHistory]]},
   infer : {FALSE}, accepted : {FALSE}, acceptHold : {FALSE}, acceptLine : {<< >>},
   fault : {FALSE}]

\* NewSources is one of them.
LEMMA NewSourcesFirst == NewSources \in FirstStructs
  <1>1. [n \in {Default} |-> << >>] \in [{Default} -> Seq(Line)]
    OBVIOUS
  <1>2. <<Default>> \in Seq(Names) /\ {Default} \in SUBSET Names
    BY DEF Names
  <1>3. [n \in {Default} |-> << >>] \in Lists
    BY <1>1, <1>2 DEF Lists
  <1> QED
    BY <1>2, <1>3 DEF NewSources, FirstStructs

\* A call of Add goes from one of them to another.
LEMMA AddSourceFirst ==
  ASSUME NEW v \in FirstStructs, NEW n \in Added
  PROVE  AddSource(v, n) \in FirstStructs
  <1> DEFINE alone == Cardinality(DOMAIN v.list) = 1 /\ v.names[1] = Default
             names == IF alone THEN << >> ELSE v.names
             kept  == IF alone THEN DOMAIN v.list \ {Default} ELSE DOMAIN v.list
             list  == [m \in kept \cup {n} |-> IF m = n THEN Loaded[n] ELSE v.list[m]]
             all   == Append(names, n)
  <1>1. v.names \in Seq(Names) /\ v.list \in Lists
    BY DEF FirstStructs
  <1>2. PICK D \in SUBSET Names : v.list \in [D -> Seq(Line)]
    BY <1>1 DEF Lists
  <1>3. DOMAIN v.list = D
    BY <1>2
  <1>4. AddSource(v, n) = [v EXCEPT !.names = all, !.list = list]
    BY DEF AddSource
  <1>5. n \in Names /\ Loaded[n] \in Seq(Line)
    BY SourcesAssumption DEF Names
  <1>6. names \in Seq(Names) /\ kept \subseteq D
    BY <1>1, <1>3
  <1> HIDE DEF names, kept
  <1>7. all \in Seq(Names) /\ kept \cup {n} \in SUBSET Names
    BY <1>2, <1>5, <1>6
  <1>8. list \in [kept \cup {n} -> Seq(Line)]
    BY <1>2, <1>5, <1>6
  <1> HIDE DEF all, list
  <1>9. list \in Lists
    BY <1>7, <1>8 DEF Lists
  <1> QED
    BY <1>4, <1>7, <1>9 DEF FirstStructs

\* The recursion of FirstSources is one that some function satisfies.
LEMMA FirstSourcesBuilt == \E f : Built(f)
  <1> DEFINE len == Len(Initial)
             S == FirstStructs
             Turn(v, i) == IF i \in 1 .. len THEN AddSource(v, Initial[i]) ELSE v
             step == [p \in S \X Nat |-> Turn(p[1], p[2])]
             Def(f) == [i \in 0 .. len |->
                          IF i = 0 THEN NewSources ELSE AddSource(f[i - 1], Initial[i])]
             added == CHOOSE f : f = Def(f)
  <1>1. len \in Nat /\ \A i \in 1 .. len : Initial[i] \in Added
    BY HistoryBounds
  <1> HIDE DEF len
  <1>2. NewSources \in S
    BY NewSourcesFirst
  <1>3. ASSUME NEW v \in S, NEW n \in Added PROVE AddSource(v, n) \in S
    BY AddSourceFirst
  <1>4. step \in [S \X Nat -> S]
    <2> HIDE DEF S
    <2>1. ASSUME NEW v \in S, NEW i \in Nat PROVE Turn(v, i) \in S
      BY <1>1, <1>3
    <2> QED
      BY <2>1
  <1>5. PICK f \in [0 .. len -> S] : FoldsTo(f, NewSources, step, len)
    <2> HIDE DEF S, step
    <2> QED
      BY <1>1, <1>2, <1>4, PrimitiveRecursion
  <1> HIDE DEF S
  <1>6. f[0] = NewSources
    BY <1>5 DEF FoldsTo
  <1>7. ASSUME NEW i \in 1 .. len PROVE f[i] = AddSource(f[i - 1], Initial[i])
    <2>1. i - 1 \in 0 .. len /\ i \in Nat
      BY <1>1
    <2>2. <<f[i - 1], i>> \in S \X Nat
      BY <1>5, <2>1
    <2>3. f[i] = step[<<f[i - 1], i>>]
      BY <1>5 DEF FoldsTo
    <2>4. f[i] = Turn(f[i - 1], i)
      <3> HIDE DEF Turn
      <3> QED
        BY <2>2, <2>3
    <2> QED
      BY <2>4
  <1>8. f = Def(f)
    <2>1. ASSUME NEW i \in 0 .. len PROVE f[i] = Def(f)[i]
      BY <1>1, <1>6, <1>7
    <2>2. /\ DOMAIN f = 0 .. len /\ DOMAIN Def(f) = 0 .. len
          /\ f = [i \in DOMAIN f |-> f[i]]
          /\ Def(f) = [i \in 0 .. len |-> Def(f)[i]]
      BY <1>5
    <2> HIDE DEF Def
    <2> QED
      BY <2>1, <2>2
  <1>9. added = Def(added)
    <2> HIDE DEF Def
    <2> QED
      BY <1>8
  <1>10. FirstSources = added[len]
    BY DEF FirstSources, len
  <1> HIDE DEF added
  <1>11. \A i \in 0 .. len : added[i] = Def(added)[i]
    <2> HIDE DEF Def
    <2> QED
      BY <1>9
  <1>12. added[0] = NewSources
    <2>1. 0 \in 0 .. len
      BY <1>1
    <2> QED
      BY <1>11, <2>1
  <1>13. ASSUME NEW i \in 1 .. len PROVE added[i] = AddSource(added[i - 1], Initial[i])
    <2>1. i \in 0 .. len /\ i # 0
      BY <1>1
    <2>2. added[i] = Def(added)[i]
      BY <1>11, <2>1
    <2> QED
      BY <2>1, <2>2
  <1>14. Built(added)
    BY <1>10, <1>12, <1>13 DEF Built, len
  <1> QED
    BY <1>14

-----------------------------------------------------------------------------
(* The inductive invariant                                                 *)

\* An inference is asked for by a command that accepts the line without holding
\* it, and is done when the next loop starts.
Flags ==
  /\ h.infer => ~h.acceptHold
  /\ reading /\ ~h.fault => ~h.infer /\ ~h.accepted

\* The inductive invariant.
IInv == Ok(h) /\ reading \in BOOLEAN /\ Flags

\* What a command leaves for the end of Shell.run to save.
Grew(s) ==
  /\ DOMAIN s.list = DOMAIN h.list
  /\ \A n \in DOMAIN h.list :
       \/ s.list[n] = h.list[n]
       \/ /\ ~s.infer
          /\ \E l \in Line : /\ Appended(h.list[n], s.list[n], l)
                             /\ s.accepted => s.acceptLine = l

\* A struct as a command leaves it, before the end of Shell.run.
Commanded(s) ==
  /\ DOMAIN s = Fields
  /\ Bounded(s) => Typed(s) /\ (s.fault => OnLine(s))
  /\ s.names = h.names
  /\ \/ s.sourcePos = h.sourcePos
     \/ \E next \in BOOLEAN : s.sourcePos = Cycle(h, next).sourcePos
  /\ s.infer => ~s.acceptHold /\ s.accepted
  /\ Grew(s)

\* The end of Shell.run: the cursor check, the save, and LineAccepted.
LEMMA RunKeeps ==
  ASSUME NEW cmd, NEW s, DOMAIN s = Fields, Run(cmd, s),
         Bounded(s) => Typed(s) /\ (s.fault => OnLine(s))
  PROVE  Ok(h') /\ Only(s, h', Saving \cup {"pos"}) /\ reading' = ~s.accepted
  <1> DEFINE c == [s EXCEPT !.pos = CheckAppend(s.line, s.pos)]
             checked == SaveState(c)
             done == IF s.accepted THEN LineAccepted(checked) ELSE checked
             F == Saving \cup {"pos"}
  <1>1. InBounds(done) /\ h' = (IF s.fault THEN s ELSE done) /\ reading' = ~s.accepted
    BY DEF Run, Step
  <1>2. Only(s, c, {"pos"}) /\ c.pos = CheckAppend(s.line, s.pos)
    BY DEF Only, Fields
  <1> HIDE DEF c
  <1>3. Only(c, checked, Saving) /\ DOMAIN checked = Fields
    BY <1>2, SaveStateOnly DEF Only
  <1> HIDE DEF checked
  <1>4. Only(s, done, F)
    <2>1. Only(checked, LineAccepted(checked), Saving)
      BY <1>3, LineAcceptedOnly
    <2>2. Only(s, c, F) /\ Only(c, checked, F) /\ Only(checked, LineAccepted(checked), F)
      BY <1>2, <1>3, <2>1, OnlyMore
    <2>3. Only(s, checked, F) /\ Only(s, LineAccepted(checked), F)
      BY <2>2, OnlyTrans
    <2> QED
      BY <2>3
  <1> HIDE DEF done
  <1>5. Bounded(s)
    <2>1. done.list = s.list
      BY <1>4 DEF Only, Fields, Saving
    <2> QED
      BY <1>1, <2>1 DEF InBounds, Bounded
  <1>6. Typed(s) /\ (s.fault => OnLine(s))
    BY <1>5
  <1>7. Ok(c)
    <2>1. s.line \in Line /\ s.pos \in Int
      BY <1>6 DEF Typed, TypedMoving
    <2>2. c.pos \in 0 .. Len(s.line) /\ c.pos \in Int
      BY <1>2, <2>1, CheckAppendRange
    <2>3. /\ c.lines = s.lines /\ c.cpos = s.cpos /\ c.hpos = s.hpos
          /\ c.acceptLine = s.acceptLine /\ c.line = s.line
      BY <1>2 DEF Only, Fields
    <2>4. TypedMoving(c) /\ OnLine(c)
      BY <1>6, <2>2, <2>3 DEF Typed, TypedMoving, OnLine
    <2>5. Only(s, c, Moving)
      BY <1>2, OnlyMore DEF Moving
    <2> QED
      BY <1>5, <1>6, <2>4, <2>5, MovingTyped DEF Ok
  <1>8. Ok(done)
    BY <1>7, SaveStateTyped, LineAcceptedTyped DEF done, checked
  <1>9. CASE s.fault
    <2>1. h' = s
      BY <1>1, <1>9
    <2>2. Only(s, s, F)
      BY DEF Only
    <2> QED
      BY <1>1, <1>5, <1>6, <1>9, <2>1, <2>2 DEF Ok
  <1>10. CASE ~s.fault
    BY <1>1, <1>4, <1>8, <1>10
  <1> QED
    BY <1>9, <1>10

\* A command that moves, and writes to no source.
LEMMA MoveCommanded ==
  ASSUME IInv, ~h.fault, reading, NEW s, Only(h, s, Moving), Typed(s), s.fault => OnLine(s)
  PROVE  Commanded(s)
  <1>1. /\ DOMAIN s = Fields /\ s.names = h.names /\ s.sourcePos = h.sourcePos
        /\ s.list = h.list /\ s.infer = h.infer
    BY DEF Only, Fields, Moving, Saving
  <1>2. ~s.infer
    BY <1>1 DEF IInv, Flags
  <1> QED
    BY <1>1, <1>2 DEF Commanded, Grew

\* A run of some command whose struct is as commanded.
Commands == \E cmd, s : Run(cmd, s) /\ Commanded(s)

\* A command that leaves the cursor on the line needs no more than its type.
LEMMA OkCommanded ==
  ASSUME IInv, ~h.fault, NEW cmd, NEW s, Only(h, s, Moving), Ok(s), Run(cmd, s)
  PROVE  Commands
  <1>1. reading
    BY DEF Run
  <1> QED
    BY <1>1, MoveCommanded DEF Commands, Ok

\* Only a part of what a save leaves matters to the commands that follow it.
LEMMA SaveCommand ==
  ASSUME NEW s, Ok(s)
  PROVE  Ok(SaveState(s)) /\ Only(s, SaveState(s), Moving)
  BY SaveStateTyped, SaveStateOnly, OnlyMore DEF Ok, Typed, Moving

\* A skipped save raises a flag and no more.
LEMMA SkipCommand ==
  ASSUME NEW s, Ok(s)
  PROVE  Ok(Skip(s)) /\ Only(s, Skip(s), Moving) /\ Skip(s).line = s.line /\ Skip(s).pos = s.pos
         /\ Skip(s).fault = s.fault /\ Skip(s).hpos = s.hpos
  <1>1. Only(s, Skip(s), {"skip", "undoing", "fault"}) /\ Skip(s).fault = s.fault
    BY DEF Skip, Only, Fields, Ok, Typed
  <1>2. Skip(s).line = s.line /\ Skip(s).pos = s.pos /\ Skip(s).hpos = s.hpos
    BY <1>1 DEF Only, Fields
  <1> QED
    BY <1>1, <1>2, FlagsTyped

\* Editing commands: the new line and cursor are checked after the command.
LEMMA EditTyped ==
  ASSUME NEW s, Ok(s), NEW l \in Line, NEW p \in Int, NEW t,
         Only(s, t, {"line", "pos"}), t.line = l, t.pos = p
  PROVE  Typed(t) /\ Only(s, t, Moving) /\ t.fault = s.fault
  <1>1. /\ t.lines = s.lines /\ t.cpos = s.cpos /\ t.hpos = s.hpos /\ t.fault = s.fault
        /\ t.acceptLine = s.acceptLine
    BY DEF Only, Fields
  <1>2. TypedMoving(t)
    BY <1>1 DEF Ok, Typed, TypedMoving
  <1>3. Only(s, t, Moving)
    BY OnlyMore DEF Moving
  <1> QED
    BY <1>1, <1>2, <1>3, MovingTyped DEF Ok

\* The editing commands.
LEMMA EditCommands ==
  ASSUME IInv, ~h.fault, Edit
  PROVE  Commands
  <1>0. Ok(h) /\ h.line \in Line /\ h.pos \in Int /\ h.pos \in 0 .. Len(h.line)
    BY DEF IInv, Ok, Typed, TypedMoving, OnLine
  <1>1. ASSUME NEW ch \in Char, selfInsert(ch) PROVE Commands
    <2> DEFINE k == Skip(h)
               s == [k EXCEPT !.line = Insert(@, h.pos, <<ch>>), !.pos = @ + 1]
    <2>1. Run("self-insert", s)
      BY <1>1 DEF selfInsert
    <2>2. Ok(k) /\ Only(h, k, Moving) /\ k.fault = h.fault /\ k.line = h.line /\ k.pos = h.pos
      BY <1>0, SkipCommand
    <2> HIDE DEF k
    <2>3. /\ Only(k, s, {"line", "pos"}) /\ s.line = Insert(h.line, h.pos, <<ch>>)
          /\ s.pos = h.pos + 1
      BY <2>2 DEF Only, Fields, Ok, Typed
    <2>4. Insert(h.line, h.pos, <<ch>>) \in Line /\ h.pos + 1 \in Int
      BY <1>0, InsertType
    <2> HIDE DEF s
    <2>5. Typed(s) /\ Only(k, s, Moving) /\ s.fault = k.fault
      BY <2>2, <2>3, <2>4, EditTyped
    <2>6. Only(h, s, Moving) /\ ~s.fault /\ reading
      BY <2>1, <2>2, <2>5, OnlyTrans DEF Run
    <2> QED
      BY <2>1, <2>5, <2>6, MoveCommanded DEF Commands
  <1>2. ASSUME backwardChar PROVE Commands
    <2> DEFINE k == Skip(h)
               s == [k EXCEPT !.pos = Dec(@)]
    <2>1. Run("backward-char", s)
      BY <1>2 DEF backwardChar
    <2>2. Ok(k) /\ Only(h, k, Moving) /\ k.fault = h.fault /\ k.line = h.line /\ k.pos = h.pos
      BY <1>0, SkipCommand
    <2> HIDE DEF k
    <2>3. Only(k, s, {"line", "pos"}) /\ s.line = h.line /\ s.pos = Dec(h.pos)
      BY <2>2 DEF Only, Fields, Ok, Typed
    <2>4. Dec(h.pos) \in Int
      BY <1>0 DEF Dec
    <2> HIDE DEF s
    <2>5. Typed(s) /\ Only(k, s, Moving) /\ s.fault = k.fault
      BY <1>0, <2>2, <2>3, <2>4, EditTyped
    <2>6. Only(h, s, Moving) /\ ~s.fault /\ reading
      BY <2>1, <2>2, <2>5, OnlyTrans DEF Run
    <2> QED
      BY <2>1, <2>5, <2>6, MoveCommanded DEF Commands
  <1>3. ASSUME killWholeLine PROVE Commands
    <2> DEFINE k == SaveState(h)
               s == [k EXCEPT !.line = << >>]
    <2>1. Run("kill-whole-line", s)
      BY <1>3 DEF killWholeLine
    <2>2. Ok(k) /\ Only(h, k, Moving) /\ Only(h, k, Saving)
      BY <1>0, SaveCommand, SaveStateOnly DEF Ok, Typed
    <2> HIDE DEF k
    <2>3. k.fault = h.fault /\ k.pos = h.pos
      BY <2>2 DEF Only, Fields, Saving
    <2>4. Only(k, s, {"line", "pos"}) /\ s.line = << >> /\ s.pos = h.pos
      BY <2>2, <2>3 DEF Only, Fields, Ok, Typed
    <2>5. << >> \in Line
      BY DEF Line
    <2> HIDE DEF s
    <2>6. Typed(s) /\ Only(k, s, Moving) /\ s.fault = k.fault
      BY <1>0, <2>2, <2>4, <2>5, EditTyped
    <2>7. Only(h, s, Moving) /\ ~s.fault /\ reading
      BY <2>1, <2>2, <2>3, <2>6, OnlyTrans DEF Run
    <2> QED
      BY <2>1, <2>6, <2>7, MoveCommanded DEF Commands
  <1>4. ASSUME undoLast PROVE Commands
    <2>1. Ok(UndoState(h)) /\ Only(h, UndoState(h), Moving)
      BY <1>0, UndoStateTyped, UndoStateOnly, OnlyMore DEF Ok, Typed, Moving
    <2> QED
      BY <1>4, <2>1, OkCommanded DEF undoLast
  <1>5. ASSUME revertLine PROVE Commands
    <2>1. Ok(RevertState(h)) /\ Only(h, RevertState(h), Moving)
      BY <1>0, RevertStateTyped, RevertStateOnly, OnlyMore DEF Ok, Typed, Moving
    <2> QED
      BY <1>5, <2>1, OkCommanded DEF revertLine
  <1> QED
    BY <1>1, <1>2, <1>3, <1>4, <1>5 DEF Edit

\* Moves through the lines, and searches, from any struct.
LEMMA WalkCommand ==
  ASSUME NEW s, Ok(s), NEW n \in Int
  PROVE  Ok(Walk(s, n)) /\ Only(s, Walk(s, n), Moving)
  BY WalkTyped, WalkOnly DEF Ok, Typed

\* Searches for a line.
LEMMA MatchCommand ==
  ASSUME NEW s, Ok(s), NEW given, NEW usePos, NEW fwd, NEW regex
  PROVE  /\ Ok(InsertMatch(s, given, usePos, fwd, regex))
         /\ Only(s, InsertMatch(s, given, usePos, fwd, regex), Moving)
  BY InsertMatchTyped, InsertMatchOnly DEF Ok, Typed

\* The commands that walk through the lines.
Walking ==
  \/ upHistory \/ downHistory \/ beginningOfHistory \/ endOfHistory
  \/ \E times \in 1 .. MaxTimes : upLineOrHistory(times) \/ downLineOrHistory(times)

\* The commands that move through the lines and write none.
LEMMA MoveCommands ==
  ASSUME IInv, ~h.fault,
         \/ Walking
         \/ \E i \in 0 .. MaxHist : fetchHistory(i)
         \/ historySearchForward \/ historySearchBackward
         \/ historySubstringSearchForward \/ historySubstringSearchBackward
         \/ upLineOrSearch \/ inferNextHistory \/ autosuggestAccept
  PROVE  Commands
  <1> DEFINE saved == SaveState(h)
             skipped == Skip(h)
             skipSaved == SaveState(skipped)
             len == Len(Current(h))
  <1>0. Ok(h) /\ h.line \in Line
    BY DEF IInv, Ok, Typed, TypedMoving
  <1>1. Ok(saved) /\ Only(h, saved, Moving)
    BY <1>0, SaveCommand
  <1>2. Ok(skipped) /\ Only(h, skipped, Moving)
    BY <1>0, SkipCommand
  <1>3. Ok(skipSaved) /\ Only(h, skipSaved, Moving)
    <2> HIDE DEF skipped
    <2> QED
      BY <1>2, SaveCommand, OnlyTrans
  <1>4. HasCurrent(h) => len \in Int
    BY <1>0, CurrentTyped DEF Ok
  <1> HIDE DEF saved, skipped, skipSaved, len
  <1>5. ASSUME upHistory PROVE Commands
    <2>1. Ok(Walk(saved, 1)) /\ Only(h, Walk(saved, 1), Moving)
      BY <1>1, WalkCommand, OnlyTrans
    <2> QED
      BY <1>5, <2>1, OkCommanded DEF upHistory, saved
  <1>6. ASSUME downHistory PROVE Commands
    <2>1. Ok(Walk(saved, -1)) /\ Only(h, Walk(saved, -1), Moving)
      BY <1>1, WalkCommand, OnlyTrans
    <2> QED
      BY <1>6, <2>1, OkCommanded DEF downHistory, saved
  <1>7. ASSUME beginningOfHistory PROVE Commands
    <2>1. HasCurrent(h) => Ok(Walk(skipped, len)) /\ Only(h, Walk(skipped, len), Moving)
      BY <1>2, <1>4, WalkCommand, OnlyTrans
    <2>2. Run("beginning-of-history", IF HasCurrent(h) THEN Walk(skipped, len) ELSE skipped)
      BY <1>7 DEF beginningOfHistory, skipped, len
    <2> QED
      BY <1>2, <2>1, <2>2, OkCommanded
  <1>8. ASSUME endOfHistory PROVE Commands
    <2>1. HasCurrent(h) => Ok(Walk(h, 1 - len)) /\ Only(h, Walk(h, 1 - len), Moving)
      BY <1>0, <1>4, WalkCommand
    <2>2. Run("end-of-history", IF HasCurrent(h) THEN Walk(h, 1 - len) ELSE h)
      BY <1>8 DEF endOfHistory, len
    <2>3. Only(h, h, Moving)
      BY <1>0 DEF Only, Ok, Typed
    <2> QED
      BY <1>0, <2>1, <2>2, <2>3, OkCommanded
  <1>9. ASSUME NEW times \in 1 .. MaxTimes, upLineOrHistory(times) PROVE Commands
    <2>1. Ok(Walk(h, times)) /\ Only(h, Walk(h, times), Moving)
      BY <1>0, WalkCommand, HistoryBounds
    <2> QED
      BY <1>9, <2>1, OkCommanded DEF upLineOrHistory
  <1>10. ASSUME NEW times \in 1 .. MaxTimes, downLineOrHistory(times) PROVE Commands
    <2>1. Ok(Walk(h, -times)) /\ Only(h, Walk(h, -times), Moving)
      BY <1>0, WalkCommand, HistoryBounds
    <2> QED
      BY <1>10, <2>1, OkCommanded DEF downLineOrHistory
  <1>11. ASSUME NEW i \in 0 .. MaxHist, fetchHistory(i) PROVE Commands
    <2>1. Ok(Fetch(h, i)) /\ Only(h, Fetch(h, i), Moving)
      BY <1>0, FetchTyped, FetchOnly DEF Ok, Typed
    <2> QED
      BY <1>11, <2>1, OkCommanded DEF fetchHistory
  <1>12. ASSUME historySearchForward PROVE Commands
    <2>1. /\ Ok(InsertMatch(saved, FALSE, TRUE, TRUE, FALSE))
          /\ Only(h, InsertMatch(saved, FALSE, TRUE, TRUE, FALSE), Moving)
      BY <1>1, MatchCommand, OnlyTrans
    <2> QED
      BY <1>12, <2>1, OkCommanded DEF historySearchForward, saved
  <1>13. ASSUME historySearchBackward PROVE Commands
    <2>1. /\ Ok(InsertMatch(saved, FALSE, TRUE, FALSE, FALSE))
          /\ Only(h, InsertMatch(saved, FALSE, TRUE, FALSE, FALSE), Moving)
      BY <1>1, MatchCommand, OnlyTrans
    <2> QED
      BY <1>13, <2>1, OkCommanded DEF historySearchBackward, saved
  <1>14. ASSUME historySubstringSearchForward PROVE Commands
    BY <1>0, <1>14, MatchCommand, OkCommanded DEF historySubstringSearchForward
  <1>15. ASSUME historySubstringSearchBackward PROVE Commands
    BY <1>0, <1>15, MatchCommand, OkCommanded DEF historySubstringSearchBackward
  <1>16. ASSUME upLineOrSearch PROVE Commands
    <2>1. /\ Ok(InsertMatch(skipSaved, FALSE, TRUE, FALSE, FALSE))
          /\ Only(h, InsertMatch(skipSaved, FALSE, TRUE, FALSE, FALSE), Moving)
      BY <1>3, MatchCommand, OnlyTrans
    <2> QED
      BY <1>16, <2>1, OkCommanded DEF upLineOrSearch, skipSaved, skipped
  <1>17. ASSUME inferNextHistory PROVE Commands
    <2>1. Ok(InferNext(skipped)) /\ Only(skipped, InferNext(skipped), Moving)
      BY <1>2, InferNextTyped, InferNextOnly DEF Ok, Typed
    <2>2. Only(h, InferNext(skipped), Moving)
      BY <1>2, <2>1, OnlyTrans
    <2> QED
      BY <1>17, <2>1, <2>2, OkCommanded DEF inferNextHistory, skipped
  <1>18. ASSUME autosuggestAccept PROVE Commands
    <2> DEFINE l == Suggest(h, h.line)
    <2>1. l \in Line /\ Len(l) \in Int
      BY <1>0, SuggestTyped DEF Line
    <2>2. Run("autosuggest-accept", IF Len(l) <= Len(h.line) THEN h ELSE SetLine(h, l, Len(l)))
      BY <1>18 DEF autosuggestAccept
    <2> HIDE DEF l
    <2>3. Ok(SetLine(h, l, Len(l))) /\ Only(h, SetLine(h, l, Len(l)), Moving)
      BY <1>0, <2>1, SetLineTyped, SetLineOnly, OnlyMore DEF Ok, Typed, Moving
    <2>4. Only(h, h, Moving)
      BY <1>0 DEF Only, Ok, Typed
    <2> QED
      BY <1>0, <2>2, <2>3, <2>4, OkCommanded
  <1>19. CASE Walking
    BY <1>5, <1>6, <1>7, <1>8, <1>9, <1>10, <1>19 DEF Walking
  <1> QED
    BY <1>11, <1>12, <1>13, <1>14, <1>15, <1>16, <1>17, <1>18, <1>19

\* save-line writes the line, then reverts it.
LEMMA SaveLineCommand ==
  ASSUME IInv, ~h.fault, saveLine
  PROVE  Commands
  <1>0. Ok(h) /\ DOMAIN h = Fields /\ TypedSources(h) /\ h.line \in Line
    BY DEF IInv, Ok, Typed, TypedMoving
  <1>1. PICK s \in Write(h, FALSE) : Run("save-line", RevertState(s))
    BY DEF saveLine
  <1>2. Only(h, s, {"list", "infer"}) /\ TypedSources(s) /\ Wrote(h, s) /\ s.infer = h.infer
    BY <1>0, WriteFacts
  <1>3. reading /\ ~h.infer /\ ~h.accepted
    BY <1>1 DEF Run, IInv, Flags
  <1> DEFINE t == RevertState(s)
  <1>4. Only(s, t, Saving \cup {"line", "pos"}) /\ DOMAIN t = Fields /\ Only(s, t, Moving)
    BY <1>2, RevertStateOnly, OnlyMore DEF Only, Moving
  <1>5. /\ DOMAIN s = Fields /\ s.lines = h.lines /\ s.cpos = h.cpos /\ s.hpos = h.hpos
        /\ s.acceptLine = h.acceptLine /\ s.line = h.line /\ s.pos = h.pos
        /\ s.names = h.names /\ s.sourcePos = h.sourcePos /\ s.accepted = h.accepted
        /\ s.fault = h.fault
    BY <1>2 DEF Only, Fields
  <1>6. Typed(s) /\ OnLine(s)
    BY <1>0, <1>2, <1>5 DEF Ok, Typed, TypedMoving, OnLine
  <1>7. Bounded(s) => Ok(t)
    BY <1>6, RevertStateTyped DEF Ok
  <1> HIDE DEF t
  <1>8. /\ t.names = h.names /\ t.sourcePos = h.sourcePos /\ t.list = s.list
        /\ t.accepted = h.accepted /\ t.infer = h.infer
    BY <1>2, <1>4, <1>5 DEF Only, Fields, Saving
  <1>9. Bounded(t) => Ok(t)
    BY <1>7, <1>8 DEF Bounded
  <1>10. Grew(t)
    BY <1>0, <1>2, <1>3, <1>8 DEF Wrote, Grew
  <1>11. Commanded(t)
    BY <1>3, <1>4, <1>8, <1>9, <1>10 DEF Commanded, Ok
  <1> QED
    BY <1>1, <1>11 DEF Commands, t

\* The commands that change the active source.
LEMMA CycleCommands ==
  ASSUME IInv, ~h.fault, historySourceNext \/ historySourcePrev
  PROVE  Commands
  <1>1. PICK next \in BOOLEAN : \E cmd : Run(cmd, Cycle(h, next))
    BY DEF historySourceNext, historySourcePrev
  <1> DEFINE s == Cycle(h, next)
  <1>2. Ok(s) /\ Only(h, s, {"sourcePos"})
    BY CycleTyped DEF IInv
  <1>3. reading
    BY <1>1 DEF Run
  <1>4. \E n \in BOOLEAN : s.sourcePos = Cycle(h, n).sourcePos
    OBVIOUS
  <1>5. PICK cmd : Run(cmd, s)
    BY <1>1
  <1> HIDE DEF s
  <1>6. /\ DOMAIN s = Fields /\ s.names = h.names
        /\ s.list = h.list /\ s.infer = h.infer
    BY <1>2 DEF Only, Fields
  <1>7. ~s.infer
    BY <1>3, <1>6 DEF IInv, Flags
  <1>8. Commanded(s)
    BY <1>2, <1>4, <1>6, <1>7 DEF Commanded, Grew, Ok
  <1> QED
    BY <1>5, <1>8 DEF Commands

\* The line accepted is the one that was shown.
LEMMA AcceptCommanded ==
  ASSUME IInv, ~h.fault, reading, NEW r, Ok(r), Only(h, r, Moving),
         NEW hold \in BOOLEAN, NEW infer \in BOOLEAN, NEW failed, hold = FALSE \/ infer = FALSE,
         NEW s \in Accept(r, hold, infer, failed)
  PROVE  Commanded(s)
  <1>1. /\ DOMAIN r = Fields /\ TypedSources(r) /\ r.line \in Line
        /\ r.lines \in [Names -> [Slots -> Histories]]
        /\ r.hpos \in -1 .. MaxHist /\ r.cpos \in Int /\ r.pos \in Int /\ OnLine(r)
    BY DEF Ok, Typed, TypedMoving
  <1>2. /\ Only(r, s, Accepting) /\ TypedSources(s) /\ Wrote(r, s)
        /\ s.accepted = TRUE /\ s.acceptHold = hold /\ s.acceptLine = r.line
        /\ s.infer = r.infer \/ infer = TRUE
    <2>1. DOMAIN r = Fields /\ TypedSources(r) /\ r.line \in Line
      BY <1>1
    <2>2. Only(r, s, Accepting) /\ TypedSources(s) /\ Wrote(r, s) /\ Taken(r, s, hold, infer)
      BY <2>1, AcceptFacts
    <2> QED
      BY <2>2 DEF Taken
  <1>3. /\ r.names = h.names /\ r.list = h.list /\ r.sourcePos = h.sourcePos
        /\ r.infer = h.infer
    BY DEF Only, Fields, Moving, Saving
  <1>4. ~h.infer
    BY DEF IInv, Flags
  <1>5. /\ DOMAIN s = Fields /\ s.lines = r.lines /\ s.cpos = r.cpos /\ s.hpos = r.hpos
        /\ s.line = r.line /\ s.pos = r.pos /\ s.names = r.names /\ s.sourcePos = r.sourcePos
    BY <1>2 DEF Only, Fields, Accepting
  <1>6. Typed(s) /\ OnLine(s)
    BY <1>1, <1>2, <1>5 DEF Typed, TypedMoving, OnLine
  <1>7. s.infer => ~s.acceptHold /\ s.accepted
    BY <1>2, <1>3, <1>4
  <1>8. Grew(s)
    BY <1>1, <1>2, <1>3, <1>4 DEF Wrote, Grew
  <1> QED
    BY <1>3, <1>5, <1>6, <1>7, <1>8 DEF Commanded

\* The commands that accept the line.
LEMMA ReturnCommands ==
  ASSUME IInv, ~h.fault, Return
  PROVE  Commands
  <1>0. Ok(h) /\ h.line \in Line /\ Only(h, h, Moving)
    BY DEF IInv, Ok, Typed, TypedMoving, Only
  <1>1. ASSUME NEW cmd, NEW r, Ok(r), Only(h, r, Moving),
               NEW hold \in BOOLEAN, NEW infer \in BOOLEAN, NEW failed, hold = FALSE \/ infer = FALSE,
               \E s \in Accept(r, hold, infer, failed) : Run(cmd, s)
        PROVE  Commands
    <2>1. PICK s \in Accept(r, hold, infer, failed) : Run(cmd, s)
      BY <1>1
    <2>2. reading
      BY <2>1 DEF Run
    <2> QED
      BY <1>1, <2>1, <2>2, AcceptCommanded DEF Commands
  <1>2. ASSUME acceptLine PROVE Commands
    BY <1>0, <1>1, <1>2 DEF acceptLine
  <1>3. ASSUME acceptAndHold PROVE Commands
    BY <1>0, <1>1, <1>3 DEF acceptAndHold
  <1>4. ASSUME acceptLineAndDownHistory PROVE Commands
    BY <1>0, <1>1, <1>4 DEF acceptLineAndDownHistory
  <1>5. ASSUME abort PROVE Commands
    BY <1>0, <1>1, <1>5 DEF abort
  <1>6. ASSUME autosuggestExecute PROVE Commands
    <2> DEFINE l == Suggest(h, h.line)
               r == SetLine(h, l, Len(l))
    <2>1. l \in Line /\ Len(l) \in Int
      BY <1>0, SuggestTyped DEF Line
    <2>2. \/ Run("autosuggest-execute", h)
          \/ \E s \in Accept(r, FALSE, FALSE, FALSE) : Run("autosuggest-execute", s)
      BY <1>6 DEF autosuggestExecute
    <2> HIDE DEF l
    <2>3. Ok(r) /\ Only(h, r, Moving)
      BY <1>0, <2>1, SetLineTyped, SetLineOnly, OnlyMore DEF Ok, Typed, Moving
    <2> HIDE DEF r
    <2>4. CASE Run("autosuggest-execute", h)
      BY <1>0, <2>4, OkCommanded
    <2>5. CASE \E s \in Accept(r, FALSE, FALSE, FALSE) : Run("autosuggest-execute", s)
      BY <1>1, <2>3, <2>5
    <2> QED
      BY <2>2, <2>4, <2>5
  <1> QED
    BY <1>2, <1>3, <1>4, <1>5, <1>6 DEF Return

\* Every step of the loop is a run of a command.
LEMMA StepsAreCommands ==
  ASSUME IInv, ~h.fault, Edit \/ Move \/ Return
  PROVE  Commands
  <1>1. CASE Edit
    BY <1>1, EditCommands
  <1>2. CASE Return
    BY <1>2, ReturnCommands
  <1>3. CASE Move
    <2>1. \/ saveLine \/ historySourceNext \/ historySourcePrev
          \/ \/ Walking
             \/ \E i \in 0 .. MaxHist : fetchHistory(i)
             \/ historySearchForward \/ historySearchBackward
             \/ historySubstringSearchForward \/ historySubstringSearchBackward
             \/ upLineOrSearch \/ inferNextHistory \/ autosuggestAccept
      BY <1>3 DEF Move, Walking
    <2> QED
      BY <2>1, SaveLineCommand, CycleCommands, MoveCommands
  <1> QED
    BY <1>1, <1>2, <1>3

-----------------------------------------------------------------------------
(* Type correctness                                                        *)

\* The struct that the shell starts with.
LEMMA NewSourcesOk ==
  Ok(NewSources) /\ NewSources.infer = FALSE /\ NewSources.accepted = FALSE
  <1> DEFINE s == NewSources
  <1>1. /\ DOMAIN s = Fields /\ s.names = <<Default>> /\ s.list = [n \in {Default} |-> << >>]
        /\ s.sourcePos = 0 /\ s.hpos = -1 /\ s.cpos = -1 /\ s.line = << >> /\ s.pos = 0
        /\ s.acceptLine = << >> /\ s.lines = [n \in Names |-> [i \in Slots |-> NewLineHistory]]
        /\ s.infer = FALSE /\ s.accepted = FALSE
    BY DEF NewSources, Fields
  <1> HIDE DEF s
  <1>2. TypedSources(s)
    BY <1>1 DEF TypedSources, Names
  <1>3. Bounded(s)
    BY <1>1, SourcesAssumption DEF Bounded
  <1>4. NewLineHistory \in Histories
    BY DEF NewLineHistory, Histories, LineHistory, Fits, Line
  <1>5. TypedMoving(s)
    BY <1>1, <1>4, SourcesAssumption DEF TypedMoving, Line
  <1>6. OnLine(s)
    BY <1>1 DEF OnLine
  <1> QED
    BY <1>1, <1>2, <1>3, <1>5, <1>6 DEF Ok, Typed, s

\* A set of structs that holds the first one and is closed under the calls of
\* Add that come before the first loop.
LEMMA FirstSourcesIn ==
  ASSUME NEW f, Built(f), NEW T, 0 \in T,
         \A i \in 1 .. Len(Initial) : i - 1 \in T => i \in T
  PROVE  Len(Initial) \in T
  <1> DEFINE len == Len(Initial)
             U == {i \in Nat : i <= len => i \in T}
  <1>1. len \in Nat
    BY HistoryBounds
  <1>2. \A i \in 1 .. len : i - 1 \in T => i \in T
    OBVIOUS
  <1> HIDE DEF len
  <1>3. 0 \in U
    OBVIOUS
  <1>4. ASSUME NEW n \in Nat, n \in U PROVE n + 1 \in U
    <2> SUFFICES ASSUME n + 1 <= len PROVE n + 1 \in T
      OBVIOUS
    <2>1. n + 1 \in 1 .. len /\ (n + 1) - 1 = n /\ n \in T
      BY <1>1, <1>4
    <2> QED
      BY <1>2, <2>1
  <1>5. Nat \subseteq U
    <2> HIDE DEF U
    <2> QED
      BY <1>3, <1>4, NatSetInduction
  <1> QED
    BY <1>1, <1>5 DEF len

\* The invariant holds once the application has added its first sources.
LEMMA InitIInv == Init => IInv
  <1> SUFFICES ASSUME Init PROVE IInv
    OBVIOUS
  <1>1. PICK f : Built(f)
    BY FirstSourcesBuilt
  <1> DEFINE Good(s) == Ok(s) /\ s.infer = FALSE /\ s.accepted = FALSE
             T == {i \in Nat : Good(f[i])}
  <1>2. 0 \in T
    BY <1>1, NewSourcesOk DEF Built
  <1>3. ASSUME NEW i \in 1 .. Len(Initial), i - 1 \in T PROVE i \in T
    <2>1. Initial[i] \in Added /\ i \in Nat
      BY HistoryBounds
    <2>2. f[i] = AddSource(f[i - 1], Initial[i])
      BY <1>1 DEF Built
    <2> DEFINE s == f[i - 1]
               t == AddSource(s, Initial[i])
    <2>3. Good(s)
      BY <1>3
    <2> HIDE DEF s
    <2>4. Ok(t) /\ Only(s, t, Listing)
      BY <2>1, <2>3, AddSourceTyped
    <2> HIDE DEF t
    <2>5. t.infer = s.infer /\ t.accepted = s.accepted
      BY <2>4 DEF Only, Fields, Listing
    <2>6. Good(t)
      BY <2>3, <2>4, <2>5
    <2>7. f[i] = t
      BY <2>2 DEF s, t
    <2> QED
      BY <2>1, <2>6, <2>7
  <1>4. Len(Initial) \in T
    <2> HIDE DEF T
    <2> QED
      BY <1>1, <1>2, <1>3, FirstSourcesIn
  <1>5. Good(FirstSources)
    BY <1>1, <1>4 DEF Built
  <1> QED
    BY <1>5 DEF Init, IInv, Flags

\* The command that a step has run.
LEMMA CommandRun ==
  ASSUME NEW cmd, NEW s, Run(cmd, s), Commanded(s)
  PROVE  /\ Ok(h') /\ Grown /\ reading' = ~s.accepted
         /\ h'.names = h.names /\ DOMAIN h'.list = DOMAIN h.list
         /\ h'.sourcePos = s.sourcePos
         /\ h'.infer = s.infer /\ h'.acceptHold = s.acceptHold /\ h'.accepted = s.accepted
  <1>1. DOMAIN s = Fields /\ (Bounded(s) => Typed(s) /\ (s.fault => OnLine(s)))
    BY DEF Commanded
  <1>2. Ok(h') /\ Only(s, h', Saving \cup {"pos"}) /\ reading' = ~s.accepted
    BY <1>1, RunKeeps
  <1>3. /\ h'.names = s.names /\ h'.list = s.list /\ h'.sourcePos = s.sourcePos
        /\ h'.infer = s.infer /\ h'.acceptHold = s.acceptHold /\ h'.accepted = s.accepted
        /\ h'.acceptLine = s.acceptLine
    BY <1>2 DEF Only, Fields, Saving
  <1>4. s.names = h.names /\ DOMAIN s.list = DOMAIN h.list
    BY DEF Commanded, Grew
  <1>5. ASSUME NEW n \in DOMAIN h.list, s.list[n] # h.list[n]
        PROVE  /\ ~s.infer
               /\ Front(s.list[n]) = h.list[n]
               /\ TrimSpace(Last(s.list[n])) # << >>
               /\ h.list[n] # << >> => Last(s.list[n]) # Last(h.list[n])
               /\ s.accepted => TrimSpace(Last(s.list[n])) = TrimSpace(s.acceptLine)
    <2>1. /\ ~s.infer
          /\ \E l \in Line : /\ Appended(h.list[n], s.list[n], l)
                             /\ s.accepted => s.acceptLine = l
      BY <1>5 DEF Commanded, Grew
    <2>2. PICK l \in Line : /\ Appended(h.list[n], s.list[n], l)
                            /\ s.accepted => s.acceptLine = l
      BY <2>1
    <2> QED
      BY <2>1, <2>2 DEF Appended
  <1>6. Grown
    BY <1>3, <1>5 DEF Grown
  <1> QED
    BY <1>2, <1>3, <1>4, <1>6

\* Every step of the loop keeps the invariant and only adds to the sources.
LEMMA LoopKeeps ==
  ASSUME IInv, ~h.fault, Edit \/ Move \/ Return
  PROVE  IInv' /\ Grown
  <1>1. PICK cmd, s : Run(cmd, s) /\ Commanded(s)
    BY StepsAreCommands DEF Commands
  <1>2. /\ Ok(h') /\ Grown /\ reading' = ~s.accepted
        /\ h'.infer = s.infer /\ h'.acceptHold = s.acceptHold /\ h'.accepted = s.accepted
    BY <1>1, CommandRun
  <1>3. s.infer => ~s.acceptHold /\ s.accepted
    BY <1>1 DEF Commanded
  <1>4. Flags'
    BY <1>2, <1>3 DEF Flags
  <1> QED
    BY <1>2, <1>4 DEF IInv

\* The start of a loop.
LEMMA ReadlineKeeps ==
  ASSUME IInv, ~h.fault, Readline
  PROVE  /\ IInv' /\ Grown
         /\ h'.names = h.names /\ h'.list = h.list /\ h'.sourcePos = h.sourcePos
  <1> DEFINE s == InitLoop(h)
             t == [h EXCEPT !.fault = TRUE]
  <1>1. /\ ~reading /\ reading' = TRUE
        /\ h' = IF Indexable(h) THEN s ELSE t
    BY DEF Readline, Step
  <1>2. Ok(h) /\ (h.infer => ~h.acceptHold)
    BY DEF IInv, Flags
  <1>3. CASE Indexable(h)
    <2>1. h' = s
      BY <1>1, <1>3
    <2>2. /\ Ok(s) /\ Only(h, s, Looping) /\ s.accepted = FALSE
          /\ h.acceptHold \/ ~h.infer \/ s.infer = FALSE
          /\ ~h.infer => ~s.infer
      BY <1>2, InitLoopFacts
    <2> HIDE DEF s
    <2>3. ~s.infer
      BY <1>2, <2>2
    <2>4. s.names = h.names /\ s.list = h.list /\ s.sourcePos = h.sourcePos
      BY <2>2 DEF Only, Fields, Looping, Moving, Saving
    <2>5. Flags'
      BY <2>1, <2>2, <2>3 DEF Flags
    <2> QED
      BY <1>1, <2>1, <2>2, <2>4, <2>5 DEF IInv, Grown
  <1>4. CASE ~Indexable(h)
    <2>1. h' = t
      BY <1>1, <1>4
    <2>2. Only(h, t, {"fault"}) /\ t.fault = TRUE
      BY <1>2 DEF Only, Fields, Ok, Typed
    <2> HIDE DEF t
    <2>3. Only(h, t, {"skip", "undoing", "fault"})
      BY <2>2, OnlyMore
    <2>4. Ok(t)
      BY <1>2, <2>3, FlagsTyped
    <2>5. /\ t.names = h.names /\ t.list = h.list /\ t.sourcePos = h.sourcePos
          /\ t.infer = h.infer /\ t.acceptHold = h.acceptHold
      BY <2>2 DEF Only, Fields
    <2>6. Flags'
      BY <1>2, <2>1, <2>2, <2>5 DEF Flags
    <2> QED
      BY <1>1, <2>1, <2>4, <2>5, <2>6 DEF IInv, Grown
  <1> QED
    BY <1>3, <1>4

\* The calls by which the application changes its sources.
LEMMA ListingKeeps ==
  ASSUME IInv, ~reading, reading' = FALSE, Ok(h'), Only(h, h', Listing)
  PROVE  IInv' /\ Grown
  <1>1. h'.infer = h.infer /\ h'.acceptHold = h.acceptHold
    BY DEF Only, Fields, Listing
  <1>2. h.infer => ~h.acceptHold
    BY DEF IInv, Flags
  <1>3. Flags'
    BY <1>1, <1>2 DEF Flags
  <1> QED
    BY <1>3 DEF IInv, Grown

\* The invariant is inductive, and no step but those of the loop writes.
LEMMA NextIInv == IInv /\ [Next]_vars => IInv' /\ Grown
  <1> SUFFICES ASSUME IInv, [Next]_vars PROVE IInv' /\ Grown
    OBVIOUS
  <1>0. Ok(h)
    BY DEF IInv
  <1>1. CASE UNCHANGED vars
    BY <1>1 DEF vars, IInv, Flags, Grown
  <1>2. CASE ~h.fault /\ (Edit \/ Move \/ Return)
    BY <1>2, LoopKeeps
  <1>3. CASE ~h.fault /\ Readline
    BY <1>3, ReadlineKeeps
  <1>4. ASSUME NEW n \in Added, Add(n) PROVE IInv' /\ Grown
    <2>1. ~reading /\ reading' = FALSE /\ h' = AddSource(h, n)
      BY <1>4 DEF Add, Step
    <2> QED
      BY <1>0, <2>1, AddSourceTyped, ListingKeeps
  <1>5. ASSUME NEW n \in Added, Delete1(n) PROVE IInv' /\ Grown
    <2>1. ~reading /\ reading' = FALSE /\ h' = DeleteSource(h, n)
      BY <1>5 DEF Delete1, Step
    <2> QED
      BY <1>0, <2>1, DeleteSourceTyped, ListingKeeps
  <1>6. CASE DeleteAllSources
    <2>1. ~reading /\ reading' = FALSE /\ h' = DeleteAll(h)
      BY <1>6 DEF DeleteAllSources, Step
    <2> QED
      BY <1>0, <2>1, DeleteAllTyped, ListingKeeps
  <1> QED
    BY <1>1, <1>2, <1>3, <1>4, <1>5, <1>6 DEF Next, Application

\* What the invariant says of the type.
LEMMA IInvTyped == IInv => TypeOK
  <1> SUFFICES ASSUME IInv PROVE TypeOK
    OBVIOUS
  <1>1. TypedSources(h) /\ TypedMoving(h) /\ OnLine(h) /\ reading \in BOOLEAN
    BY DEF IInv, Ok, Typed
  <1>2. h.hpos \in Int
    BY <1>1, SourcesAssumption DEF TypedMoving
  <1>3. ASSUME NEW n \in Names, NEW i \in Slots PROVE h.lines[n][i] \in LineHistory
    <2>1. h.lines[n] \in [Slots -> Histories]
      BY <1>1 DEF TypedMoving
    <2> QED
      BY <2>1 DEF Histories
  <1> QED
    BY <1>1, <1>2, <1>3 DEF TypeOK, TypedSources, TypedMoving, OnLine

\* The struct keeps its type and the cursor is on the line after every command,
\* whatever commands are bound, in whatever order they are run, and whatever
\* sources the application adds and deletes between two loops (Shell.run,
\* Sources.Walk, Sources.Write, Sources.Delete).
THEOREM TypeCorrect == Spec => []TypeOK
  <1>1. IInv /\ [Next]_vars => IInv'
    BY NextIInv
  <1> QED
    BY <1>1, InitIInv, IInvTyped, PTL DEF Spec

\* Sources only grow, by the line that was accepted and never by a blank line
\* or a repeated one (Sources.Write and Sources.Accept), through any commands
\* on any sources.
THEOREM SourcesOnlyGrow == Spec => AppendOnly
  <1>1. IInv /\ [Next]_vars => IInv'
    BY NextIInv
  <1>2. IInv /\ [Next]_vars => [Grown]_vars
    BY NextIInv
  <1> QED
    BY <1>1, <1>2, InitIInv, PTL DEF Spec, AppendOnly

-----------------------------------------------------------------------------
(* A current source                                                        *)

\* Every source has one name, every name its source, and the index is in range.
Named(s) ==
  /\ s.names \in Seq(Names) /\ IsFiniteSet(DOMAIN s.list)
  /\ DOMAIN s.list = {s.names[i] : i \in 1 .. Len(s.names)}
  /\ \A i, j \in 1 .. Len(s.names) : s.names[i] = s.names[j] => i = j
  /\ s.sourcePos \in 0 .. Len(s.names) - 1

\* What the application has to refrain from: a source added under a name that
\* is in use, and the last source deleted.
Tidy ==
  /\ Bound \cap {"add-again", "delete-last", "delete-all"} = {}
  /\ \A i, j \in 1 .. Len(Initial) : Initial[i] = Initial[j] => i = j

\* A new name is added at the end, or in the place of the default source.
LEMMA AddNamed ==
  ASSUME NEW s, DOMAIN s = Fields, Named(s), NEW n \in Added, n \notin DOMAIN s.list
  PROVE  /\ Named(AddSource(s, n))
         /\ DOMAIN AddSource(s, n).list \subseteq DOMAIN s.list \cup {n}
  <1> DEFINE alone == Cardinality(DOMAIN s.list) = 1 /\ s.names[1] = Default
             t == AddSource(s, n)
             len == Len(s.names)
  <1>0. n \in Names /\ len \in Nat /\ s.names \in Seq(Names)
    BY DEF Names, Named
  <1>1. CASE alone
    <2>1. /\ t.names = Append(<< >>, n) /\ t.sourcePos = s.sourcePos
          /\ DOMAIN t.list = (DOMAIN s.list \ {Default}) \cup {n}
      BY <1>1 DEF AddSource, Fields
    <2>2. PICK x : DOMAIN s.list = {x}
      BY <1>1, FS_Singleton DEF Named
    <2>3. 1 \in 1 .. len /\ len \in 1 .. len
      BY <1>0 DEF Named
    <2>4. s.names[1] \in DOMAIN s.list /\ s.names[len] \in DOMAIN s.list
      BY <2>3 DEF Named
    <2>5. x = Default /\ s.names[len] = s.names[1]
      BY <1>1, <2>2, <2>4
    <2>6. len = 1
      BY <2>3, <2>5 DEF Named
    <2>7. s.sourcePos = 0
      BY <2>6 DEF Named
    <2>8. DOMAIN t.list = {n} /\ IsFiniteSet({n})
      BY <2>1, <2>2, <2>5, FS_Singleton
    <2>9. t.names = <<n>>
      BY <2>1
    <2> HIDE DEF t
    <2>10. /\ t.names \in Seq(Names) /\ Len(t.names) = 1 /\ t.names[1] = n
           /\ 1 .. Len(t.names) = {1}
      BY <1>0, <2>9
    <2>11. {t.names[i] : i \in 1 .. Len(t.names)} = {n}
      BY <2>10
    <2>12. t.sourcePos \in 0 .. Len(t.names) - 1
      BY <2>1, <2>7, <2>10
    <2>13. Named(t)
      BY <2>8, <2>10, <2>11, <2>12 DEF Named
    <2> QED
      BY <2>8, <2>13 DEF t
  <1>2. CASE ~alone
    <2> DEFINE names == Append(s.names, n)
    <2>1. /\ t.names = names /\ t.sourcePos = s.sourcePos
          /\ DOMAIN t.list = DOMAIN s.list \cup {n}
      BY <1>2 DEF AddSource, Fields
    <2> HIDE DEF t
    <2>2. /\ names \in Seq(Names) /\ Len(names) = len + 1 /\ names[len + 1] = n
          /\ \A i \in 1 .. len : names[i] = s.names[i]
      BY <1>0
    <2> HIDE DEF names
    <2>3. IsFiniteSet(DOMAIN s.list \cup {n})
      BY FS_AddElement DEF Named
    <2>4. DOMAIN s.list \cup {n} = {names[i] : i \in 1 .. len + 1}
      <3>1. 1 .. len + 1 = (1 .. len) \cup {len + 1}
        BY <1>0
      <3>2. {names[i] : i \in 1 .. len} = {s.names[i] : i \in 1 .. len}
        BY <2>2
      <3>3. {names[i] : i \in 1 .. len + 1} = {names[i] : i \in 1 .. len} \cup {n}
        BY <2>2, <3>1
      <3> QED
        BY <3>2, <3>3 DEF Named
    <2>5. ASSUME NEW i \in 1 .. len + 1, NEW j \in 1 .. len + 1, names[i] = names[j]
          PROVE  i = j
      <3>1. \A k \in 1 .. len : s.names[k] # n
        BY DEF Named
      <3>2. (i \in 1 .. len \/ i = len + 1) /\ (j \in 1 .. len \/ j = len + 1)
        BY <1>0
      <3>3. ASSUME i \in 1 .. len, j \in 1 .. len PROVE i = j
        BY <2>2, <2>5, <3>3 DEF Named
      <3> QED
        BY <2>2, <2>5, <3>1, <3>2, <3>3
    <2>6. s.sourcePos \in 0 .. len
      BY <1>0 DEF Named
    <2>7. t.names \in Seq(Names) /\ Len(t.names) = len + 1
      BY <2>1, <2>2
    <2>8. IsFiniteSet(DOMAIN t.list) /\ DOMAIN t.list = {t.names[i] : i \in 1 .. Len(t.names)}
      BY ONLY <2>1, <2>3, <2>4, <2>7
    <2>9. \A i, j \in 1 .. Len(t.names) : t.names[i] = t.names[j] => i = j
      BY ONLY <2>1, <2>5, <2>7
    <2>10. t.sourcePos \in 0 .. Len(t.names) - 1
      BY <1>0, <2>1, <2>6, <2>7
    <2>11. Named(t)
      BY ONLY <2>7, <2>8, <2>9, <2>10 DEF Named
    <2> QED
      BY <2>1, <2>11 DEF t
  <1> QED
    BY <1>1, <1>2

\* A source goes with its name, and the first of the others becomes active.
LEMMA DeleteNamed ==
  ASSUME NEW s, DOMAIN s = Fields, Named(s), NEW n \in Added, ~(DOMAIN s.list \subseteq {n})
  PROVE  Named(DeleteSource(s, n))
  <1> DEFINE named == {i \in 1 .. Len(s.names) : s.names[i] = n}
             names == RemoveAt(s.names, Min(named))
             t == DeleteSource(s, n)
             len == Len(s.names)
  <1>0. len \in Nat /\ s.names \in Seq(Names) /\ IsFiniteSet(DOMAIN s.list \ {n})
    <2>1. s.names \in Seq(Names) /\ IsFiniteSet(DOMAIN s.list)
      BY DEF Named
    <2>2. IsFiniteSet(DOMAIN s.list \ {n})
      BY <2>1, FS_RemoveElement
    <2> QED
      BY <2>1, <2>2
  <1>1. /\ t.names = (IF named = {} THEN s.names ELSE names) /\ t.sourcePos = 0
        /\ DOMAIN t.list = DOMAIN s.list \ {n}
    BY DEF DeleteSource, Fields
  <1> HIDE DEF t
  <1>2. PICK m \in 1 .. len : s.names[m] # n
    BY DEF Named
  <1>3. CASE named = {}
    <2>1. DOMAIN s.list \ {n} = DOMAIN s.list
      BY <1>3 DEF Named
    <2>2. 0 \in 0 .. len - 1
      BY <1>0, <1>2
    <2>3. t.names = s.names /\ DOMAIN t.list = DOMAIN s.list /\ t.sourcePos \in 0 .. len - 1
      BY <1>1, <1>3, <2>1, <2>2
    <2>4. Named(t)
      BY ONLY <2>3, Named(s), Len(s.names) = len DEF Named
    <2> QED
      BY <2>4 DEF t
  <1>4. CASE named # {}
    <2> DEFINE k == Min(named)
    <2>1. named \in SUBSET Nat
      BY <1>0
    <2>2. k \in named
      <3> HIDE DEF named
      <3> QED
        BY <1>4, <2>1, MinInSet
    <2>3. t.names = RemoveAt(s.names, k)
      BY <1>1, <1>4
    <2>4. k \in 1 .. len /\ s.names[k] = n
      BY <2>2
    <2> HIDE DEF k, named
    <2>5. /\ t.names \in Seq(Names) /\ Len(t.names) = len - 1
          /\ \A j \in 1 .. len - 1 : t.names[j] = IF j < k THEN s.names[j] ELSE s.names[j + 1]
      <3> DEFINE w == s.names
      <3>1. w \in Seq(Names) /\ k \in 1 .. Len(w) /\ t.names = RemoveAt(w, k) /\ len = Len(w)
        BY <1>0, <2>3, <2>4
      <3> SUFFICES /\ t.names \in Seq(Names) /\ Len(t.names) = len - 1
                   /\ \A j \in 1 .. len - 1 : t.names[j] = IF j < k THEN w[j] ELSE w[j + 1]
        OBVIOUS
      <3> HIDE DEF w, len
      <3> QED
        BY ONLY <3>1, RemoveAtFacts
    <2>6. m # k /\ len > 1
      BY <1>0, <1>2, <2>4
    <2>7. ASSUME NEW j \in 1 .. len - 1
          PROVE  \E i \in 1 .. len : i # k /\ t.names[j] = s.names[i]
                                     /\ i = IF j < k THEN j ELSE j + 1
      <3>1. CASE j < k
        BY <1>0, <2>4, <2>5, <3>1
      <3>2. CASE ~(j < k)
        BY <1>0, <2>4, <2>5, <3>2
      <3> QED
        BY <3>1, <3>2
    <2>8. ASSUME NEW i \in 1 .. len, i # k PROVE \E j \in 1 .. len - 1 : t.names[j] = s.names[i]
      <3>1. CASE i < k
        BY <1>0, <2>4, <2>5, <3>1
      <3>2. CASE i > k
        <4>1. i - 1 \in 1 .. len - 1 /\ ~(i - 1 < k) /\ (i - 1) + 1 = i
          BY <1>0, <2>4, <3>2
        <4> QED
          BY <2>5, <4>1
      <3> QED
        BY <2>4, <2>8, <3>1, <3>2
    <2>9. DOMAIN s.list \ {n} = {t.names[j] : j \in 1 .. len - 1}
      <3>1. ASSUME NEW j \in 1 .. len - 1 PROVE t.names[j] \in DOMAIN s.list \ {n}
        <4>1. PICK i \in 1 .. len : i # k /\ t.names[j] = s.names[i]
          BY <2>7
        <4>2. s.names[i] # n
          BY <2>4, <4>1 DEF Named
        <4> QED
          BY <4>1, <4>2 DEF Named
      <3>2. ASSUME NEW x \in DOMAIN s.list, x # n PROVE \E j \in 1 .. len - 1 : t.names[j] = x
        <4>1. PICK i \in 1 .. len : s.names[i] = x
          BY DEF Named
        <4> QED
          BY <2>4, <2>8, <3>2, <4>1
      <3> QED
        BY <3>1, <3>2
    <2>10. ASSUME NEW i \in 1 .. len - 1, NEW j \in 1 .. len - 1, t.names[i] = t.names[j]
           PROVE  i = j
      <3>1. PICK i1 \in 1 .. len : t.names[i] = s.names[i1] /\ i1 = IF i < k THEN i ELSE i + 1
        BY <2>7
      <3>2. PICK j1 \in 1 .. len : t.names[j] = s.names[j1] /\ j1 = IF j < k THEN j ELSE j + 1
        BY <2>7
      <3>3. i1 = j1
        BY <2>10, <3>1, <3>2 DEF Named
      <3> QED
        BY <2>4, <3>1, <3>2, <3>3
    <2>11. 0 \in 0 .. (len - 1) - 1
      BY <1>0, <2>6
    <2>12. IsFiniteSet(DOMAIN t.list) /\ DOMAIN t.list = {t.names[i] : i \in 1 .. Len(t.names)}
      BY ONLY <1>0, <1>1, <2>5, <2>9
    <2>13. \A i, j \in 1 .. Len(t.names) : t.names[i] = t.names[j] => i = j
      BY ONLY <2>5, <2>10
    <2>14. t.sourcePos \in 0 .. Len(t.names) - 1
      BY <1>1, <2>5, <2>11
    <2>15. Named(t)
      BY ONLY <2>5, <2>12, <2>13, <2>14 DEF Named
    <2> QED
      BY <2>15 DEF t
  <1> QED
    BY <1>3, <1>4

\* The same sources, and an index that is in range.
LEMMA SameNamed ==
  ASSUME NEW s, NEW t, Named(s), t.names = s.names, DOMAIN t.list = DOMAIN s.list,
         t.sourcePos \in 0 .. Len(s.names) - 1
  PROVE  Named(t)
  BY DEF Named

\* Cycle wraps around at both ends.
LEMMA CycleInRange ==
  ASSUME NEW s, DOMAIN s = Fields, Named(s), NEW next
  PROVE  Cycle(s, next).sourcePos \in 0 .. Len(s.names) - 1
  <1> DEFINE n == Len(s.names)
             p == s.sourcePos
             q == Cycle(s, next).sourcePos
  <1>1. q = IF next THEN (IF p + 1 = n THEN 0 ELSE p + 1) ELSE (IF p - 1 < 0 THEN n - 1 ELSE p - 1)
    BY DEF Cycle, Fields
  <1>2. n \in Nat /\ p \in 0 .. n - 1
    BY DEF Named
  <1> HIDE DEF n, p, q
  <1>3. q \in 0 .. n - 1
    BY <1>1, <1>2
  <1> QED
    BY <1>3 DEF n, q

\* The first calls of Add leave every source with its name.
LEMMA InitNamed ==
  ASSUME Tidy, Init
  PROVE  Named(h)
  <1>1. PICK f : Built(f)
    BY FirstSourcesBuilt
  <1> DEFINE Seen(i) == {Default} \cup {Initial[j] : j \in 1 .. i}
             Good(s, i) == Ok(s) /\ Named(s) /\ DOMAIN s.list \subseteq Seen(i)
             T == {i \in Nat : Good(f[i], i)}
  <1>2. Good(NewSources, 0)
    <2> DEFINE s == NewSources
    <2>1. s.names = <<Default>> /\ DOMAIN s.list = {Default} /\ s.sourcePos = 0
      BY DEF NewSources
    <2> HIDE DEF s
    <2>2. /\ s.names \in Seq(Names) /\ Len(s.names) = 1 /\ s.names[1] = Default
          /\ 1 .. Len(s.names) = {1} /\ IsFiniteSet({Default})
      <3>1. IsFiniteSet({Default})
        BY FS_Singleton
      <3>2. Default \in Names
        BY DEF Names
      <3> QED
        BY <2>1, <3>1, <3>2
    <2>3. {s.names[i] : i \in 1 .. Len(s.names)} = {Default}
      BY <2>2
    <2>4. Named(s)
      BY <2>1, <2>2, <2>3 DEF Named
    <2> QED
      BY <2>1, <2>4, NewSourcesOk DEF s
  <1>3. 0 \in T
    <2> HIDE DEF Good
    <2> QED
      BY <1>1, <1>2 DEF Built
  <1>4. ASSUME NEW i \in 1 .. Len(Initial), i - 1 \in T PROVE i \in T
    <2> DEFINE s == f[i - 1]
               n == Initial[i]
               t == AddSource(s, n)
    <2>1. n \in Added /\ i \in Nat /\ Len(Initial) \in Nat
      BY HistoryBounds
    <2>2. f[i] = t
      BY <1>1 DEF Built
    <2>3. Good(s, i - 1)
      BY <1>4
    <2>4. n \notin Seen(i - 1) /\ Seen(i - 1) \cup {n} = Seen(i)
      <3>1. n # Default
        BY <2>1, SourcesAssumption
      <3>2. \A j \in 1 .. i - 1 : Initial[j] # n
        BY <2>1 DEF Tidy
      <3>3. 1 .. i = (1 .. i - 1) \cup {i}
        BY <2>1
      <3> QED
        BY <3>1, <3>2, <3>3
    <2> HIDE DEF s, n, Seen
    <2>5. n \notin DOMAIN s.list /\ DOMAIN s = Fields
      BY <2>3, <2>4 DEF Ok, Typed
    <2>6. Ok(t) /\ Named(t) /\ DOMAIN t.list \subseteq DOMAIN s.list \cup {n}
      BY <2>1, <2>3, <2>5, AddSourceTyped, AddNamed
    <2> HIDE DEF t
    <2>7. Good(t, i)
      BY <2>3, <2>4, <2>6
    <2> QED
      BY <2>1, <2>2, <2>7
  <1>5. Len(Initial) \in T
    <2> HIDE DEF T
    <2> QED
      BY <1>1, <1>3, <1>4, FirstSourcesIn
  <1> QED
    BY <1>1, <1>5 DEF Built, Init

\* Every step leaves a name for every source and an index that is in range.
LEMMA NextNamed ==
  ASSUME Tidy, IInv, Named(h), [Next]_vars
  PROVE  Named(h')
  <1>0. DOMAIN h = Fields /\ h.sourcePos \in 0 .. Len(h.names) - 1
    BY DEF IInv, Ok, Typed, Named
  <1>1. CASE UNCHANGED vars
    BY <1>1 DEF vars
  <1>2. CASE ~h.fault /\ (Edit \/ Move \/ Return)
    <2>1. PICK cmd, s : Run(cmd, s) /\ Commanded(s)
      BY <1>2, StepsAreCommands DEF Commands
    <2>2. h'.names = h.names /\ DOMAIN h'.list = DOMAIN h.list /\ h'.sourcePos = s.sourcePos
      BY <2>1, CommandRun
    <2>3. s.sourcePos \in 0 .. Len(h.names) - 1
      BY <1>0, <2>1, CycleInRange DEF Commanded
    <2> QED
      BY <2>2, <2>3, SameNamed
  <1>3. CASE ~h.fault /\ Readline
    BY <1>0, <1>3, ReadlineKeeps, SameNamed
  <1>4. ASSUME NEW n \in Added, Add(n) PROVE Named(h')
    <2>1. h' = AddSource(h, n) /\ n \notin DOMAIN h.list
      BY <1>4 DEF Add, Step, Tidy
    <2> QED
      BY <1>0, <2>1, AddNamed
  <1>5. ASSUME NEW n \in Added, Delete1(n) PROVE Named(h')
    <2>1. h' = DeleteSource(h, n) /\ ~(DOMAIN h.list \subseteq {n})
      BY <1>5 DEF Delete1, Step, Tidy
    <2> QED
      BY <1>0, <2>1, DeleteNamed
  <1>6. ~DeleteAllSources
    BY DEF DeleteAllSources, Step, Tidy
  <1> QED
    BY <1>1, <1>2, <1>3, <1>4, <1>5, <1>6 DEF Next, Application

\* As long as the application neither adds a source under a name in use nor
\* deletes the last one, the shell has a current source: neither Cycle, Add and
\* Delete nor any command leaves a stale index or a name without a source
\* (Sources.Current, which indexes the names without a check).
THEOREM SourceStaysAvailable ==
  ASSUME Tidy
  PROVE  Spec => []SourceAvailable
  <1> DEFINE Inv == IInv /\ Named(h)
  <1>1. Init => Inv
    BY InitIInv, InitNamed
  <1>2. Inv /\ [Next]_vars => Inv'
    BY NextIInv, NextNamed
  <1>3. Inv => SourceAvailable
    <2> SUFFICES ASSUME Inv PROVE SourceAvailable
      OBVIOUS
    <2>1. h.sourcePos \in 0 .. Len(h.names) - 1 /\ h.sourcePos + 1 \in 1 .. Len(h.names)
      BY DEF Named
    <2>2. Name(h) \in DOMAIN h.list
      BY <2>1 DEF Named, Name
    <2> QED
      BY <2>1, <2>2 DEF SourceAvailable, HasCurrent
  <1> QED
    BY <1>1, <1>2, <1>3, PTL DEF Spec

-----------------------------------------------------------------------------
(* No index out of range                                                   *)

\* A struct on which the commands that walk and search backward are safe: the
\* position is on a line of the active source, and the input line has been
\* saved at least once, so that a walk that lands on it finds it there.
Steady(s) == HasCurrent(s) /\ s.hpos \in -1 .. Len(Current(s)) /\ ~s.fault

\* Steady, and the input line has been saved.
Live(s) == Steady(s) /\ s.lines[Name(s)][-1].items # << >>

\* What changes the line shown and the position.
Placing == {"line", "pos", "cpos", "skip", "undoing", "hpos"}

\* The slot of the undo list is that of the input line only on the input line.
LEMMA MainSlot ==
  ASSUME NEW s, Ok(s), Steady(s)
  PROVE  Slot(s) = -1 <=> s.hpos = -1
  BY CurrentTyped DEF Slot, Steady, Ok

\* A position on a line of the source, with the undo lists untouched.
LEMMA PlacingLive ==
  ASSUME NEW s, NEW t, Live(s), Only(s, t, Placing), t.hpos \in -1 .. Len(Current(s))
  PROVE  Live(t)
  <1>1. /\ t.names = s.names /\ t.list = s.list /\ t.sourcePos = s.sourcePos
        /\ t.lines = s.lines /\ t.fault = s.fault
    BY DEF Only, Fields, Placing
  <1> QED
    BY <1>1 DEF Live, Steady, HasCurrent, Name, Current

\* A change of the line, with the position untouched.
LEMMA EditLive ==
  ASSUME NEW s, NEW t, Live(s), Only(s, t, Placing \ {"hpos"})
  PROVE  Live(t)
  <1>1. Only(s, t, Placing) /\ t.hpos = s.hpos
    BY DEF Only, Fields, Placing
  <1> QED
    BY <1>1, PlacingLive DEF Live, Steady

\* A change of the undo lists, with the position untouched.
LEMMA SavingSteady ==
  ASSUME NEW s, NEW t, Steady(s), Only(s, t, Saving \cup {"line", "pos", "cpos"})
  PROVE  Steady(t)
  <1>1. /\ t.names = s.names /\ t.list = s.list /\ t.sourcePos = s.sourcePos
        /\ t.hpos = s.hpos /\ t.fault = s.fault
    BY DEF Only, Fields, Saving
  <1> QED
    BY <1>1 DEF Steady, HasCurrent, Name, Current

\* A list that is kept for the line at hand.
LEMMA SetHistoryLive ==
  ASSUME NEW s, Ok(s), Steady(s), NEW lh,
         s.hpos = -1 => lh.items # << >>,
         s.hpos # -1 => s.lines[Name(s)][-1].items # << >>
  PROVE  Live(SetLineHistory(s, lh))
  <1> DEFINE t == SetLineHistory(s, lh)
             n == Name(s)
             k == Slot(s)
  <1>1. DOMAIN s = Fields /\ n \in Names /\ k \in Slots /\ -1 \in Slots
    BY CurrentTyped, SourcesAssumption DEF Ok, Typed, Steady, Slots
  <1>2. s.lines \in [Names -> [Slots -> Histories]]
    BY DEF Ok, Typed, TypedMoving
  <1>3. Only(s, t, {"lines"})
    BY <1>1, SetLineHistoryOnly
  <1>4. t.lines = [s.lines EXCEPT ![n][k] = lh]
    BY <1>1 DEF SetLineHistory, Fields
  <1> HIDE DEF t
  <1>5. Steady(t) /\ Name(t) = n
    <2>1. Only(s, t, Saving \cup {"line", "pos", "cpos"}) /\ Only(s, t, Moving)
      BY <1>3, OnlyMore DEF Saving, Moving
    <2> QED
      BY <2>1, SavingSteady, SameCurrent
  <1>6. k = -1 <=> s.hpos = -1
    BY MainSlot
  <1> HIDE DEF n, k
  <1>7. t.lines[n][-1] = IF k = -1 THEN lh ELSE s.lines[n][-1]
    BY <1>1, <1>2, <1>4
  <1>8. t.lines[n][-1].items # << >>
    BY <1>6, <1>7 DEF n
  <1>9. Live(t)
    BY <1>5, <1>8 DEF Live
  <1> QED
    BY <1>9 DEF t

\* The list at hand is not empty on the input line.
LEMMA MainHistory ==
  ASSUME NEW s, Ok(s), Live(s), s.hpos = -1
  PROVE  GetLineHistory(s).items # << >>
  BY MainSlot DEF Live, GetLineHistory

\* A reset empties no list.
LEMMA ResetStateLive ==
  ASSUME NEW s, Ok(s), Live(s)
  PROVE  Live(ResetState(s))
  <1> DEFINE r == [s EXCEPT !.skip = FALSE, !.undoing = FALSE]
             lh == Reset(GetLineHistory(s), s.undoing)
  <1>1. Only(s, r, {"skip", "undoing"})
    BY DEF Only, Fields, Ok, Typed
  <1>2. ResetState(s) = SetLineHistory(r, lh)
    BY DEF ResetState, Live, Steady
  <1>3. lh.items = GetLineHistory(s).items
    BY CurrentTyped, ResetHistory DEF Live, Steady, Ok
  <1> HIDE DEF r, lh
  <1>4. Only(s, r, {"skip", "undoing", "fault"}) /\ Only(s, r, Placing \ {"hpos"}) /\ r.hpos = s.hpos
    BY <1>1 DEF Only, Fields, Placing
  <1>5. Ok(r) /\ Live(r)
    BY <1>4, FlagsTyped, EditLive
  <1> QED
    BY <1>2, <1>3, <1>4, <1>5, MainHistory, SetHistoryLive DEF Live

\* A save of a line that is not left out leaves the input line saved.
LEMMA SaveStateLive ==
  ASSUME NEW s, Ok(s), Steady(s), Live(s) \/ (s.hpos = -1 /\ ~s.skip)
  PROVE  Live(SaveState(s))
  <1>1. CASE s.skip
    BY <1>1, ResetStateLive DEF SaveState, Live
  <1>2. CASE ~s.skip
    <2> DEFINE lh == SaveItem(GetLineHistory(s), s.line, s.pos)
    <2>1. s.line \in Line /\ s.pos \in Int
      BY DEF Ok, Typed, TypedMoving
    <2>2. lh \in Histories /\ lh.items # << >>
      BY <2>1, CurrentTyped, SaveHistory DEF Ok, Steady
    <2>3. SaveState(s) = ResetState(SetLineHistory(s, lh))
      BY <1>2 DEF SaveState, Steady
    <2> HIDE DEF lh
    <2>4. Ok(SetLineHistory(s, lh))
      BY <2>2, SetLineHistoryTyped DEF Steady
    <2>5. Live(SetLineHistory(s, lh))
      BY <2>2, SetHistoryLive DEF Live
    <2> QED
      BY <2>3, <2>4, <2>5, ResetStateLive
  <1> QED
    BY <1>1, <1>2

\* Any line may be shown.
LEMMA SetLineLive ==
  ASSUME NEW s, Ok(s), Live(s), NEW l, NEW p
  PROVE  Live(SetLine(s, l, p))
  <1>1. Only(s, SetLine(s, l, p), Placing \ {"hpos"})
    BY SetLineOnly, OnlyMore DEF Ok, Typed, Placing
  <1> QED
    BY <1>1, EditLive

\* A position on a line of the source.
LEMMA PositionLive ==
  ASSUME NEW s, Ok(s), Live(s), NEW i \in -1 .. Len(Current(s))
  PROVE  LET t == [s EXCEPT !.hpos = i]
         IN  Live(t) /\ Ok(t) /\ t.hpos = i /\ Current(t) = Current(s)
  <1> DEFINE t == [s EXCEPT !.hpos = i]
  <1>1. i \in -1 .. MaxHist
    BY CurrentTyped, SourcesAssumption DEF Live, Steady, Ok
  <1>2. Ok(t) /\ Only(s, t, {"hpos"}) /\ t.hpos = i
    BY <1>1, PositionTyped
  <1> HIDE DEF t
  <1>3. Only(s, t, Placing) /\ Only(s, t, Moving)
    BY <1>2, OnlyMore DEF Placing, Moving
  <1>4. Live(t) /\ Current(t) = Current(s)
    BY <1>2, <1>3, PlacingLive, SameCurrent
  <1> QED
    BY <1>2, <1>4 DEF t

\* An undo empties no list.
LEMMA UndoStateLive ==
  ASSUME NEW s, Ok(s), Live(s)
  PROVE  Live(UndoState(s))
  <1> DEFINE r == [s EXCEPT !.skip = TRUE, !.undoing = TRUE]
             lh == GetLineHistory(s)
             n == UndoTo(lh, s.line)
             lh1 == [lh EXCEPT !.pos = n]
             it == ItemAt(lh, n)
             t == SetLineHistory(r, lh1)
  <1>1. Only(s, r, {"skip", "undoing"})
    BY DEF Only, Fields, Ok, Typed
  <1>2. \/ UndoState(s) = r
        \/ UndoState(s) = t
        \/ UndoState(s) = SetLine(t, it.line, it.pos)
    BY DEF UndoState, r
  <1> HIDE DEF r
  <1>3. Only(s, r, {"skip", "undoing", "fault"}) /\ Only(s, r, Placing \ {"hpos"}) /\ r.hpos = s.hpos
    BY <1>1 DEF Only, Fields, Placing
  <1>4. Ok(r) /\ Live(r)
    BY <1>3, FlagsTyped, EditLive
  <1>5. lh \in Histories /\ s.line \in Line
    BY CurrentTyped DEF Live, Steady, Ok, Typed, TypedMoving
  <1>6. s.hpos = -1 => lh.items # << >>
    BY MainHistory
  <1> HIDE DEF lh
  <1>7. lh1 \in Histories /\ lh1.items = lh.items
    BY <1>5, UndoHistory
  <1> HIDE DEF lh1
  <1>8. Ok(t) /\ Live(t)
    BY <1>3, <1>4, <1>6, <1>7, SetHistoryLive, SetLineHistoryTyped DEF Live, Steady
  <1> HIDE DEF t
  <1> QED
    BY <1>2, <1>4, <1>8, SetLineLive

\* Reverting clears the list of the line at hand, which the command then saves.
LEMMA RevertStateSteady ==
  ASSUME NEW s, Ok(s), Live(s)
  PROVE  LET t == RevertState(s)
         IN  Steady(t) /\ (Live(t) \/ (t.hpos = -1 /\ ~t.skip))
  <1> DEFINE lh == GetLineHistory(s)
             it == lh.items[1]
             l == it.line
             p == it.pos
             lh1 == [lh EXCEPT !.items = << >>]
             u == SetLineHistory(s, lh1)
             v == SetLine(u, l, p)
             t == RevertState(s)
  <1>1. CASE lh.items = << >>
    BY <1>1 DEF RevertState, Live
  <1>2. CASE lh.items # << >>
    <2>1. t = ResetState(v)
      BY <1>2 DEF RevertState, Live, Steady
    <2>2. Only(s, t, Saving \cup {"line", "pos"})
      BY RevertStateOnly DEF Ok, Typed
    <2>3. Steady(t) /\ t.hpos = s.hpos
      <3>1. Only(s, t, Saving \cup {"line", "pos", "cpos"})
        BY <2>2, OnlyMore
      <3>2. t.hpos = s.hpos
        BY <2>2 DEF Only, Fields, Saving
      <3> HIDE DEF t
      <3> QED
        BY <3>1, <3>2, SavingSteady DEF Live
    <2>4. lh \in Histories
      BY CurrentTyped DEF Live, Steady, Ok
    <2>5. lh1 \in Histories
      <3>1. lh \in LineHistory /\ << >> \in Seq(Item)
        BY <2>4 DEF Histories
      <3>2. lh1 \in LineHistory /\ lh1.pos = lh.pos /\ lh1.items = << >>
        BY <3>1 DEF LineHistory
      <3> HIDE DEF lh1
      <3> QED
        BY <2>4, <3>2 DEF Histories, Fits
    <2>6. l \in Line /\ p \in Int
      <3>1. lh \in LineHistory /\ 1 \in 1 .. Len(lh.items)
        BY <1>2, <2>4 DEF Histories, LineHistory
      <3> QED
        BY <3>1, ItemType
    <2> HIDE DEF lh1, l, p
    <2>7. Ok(u)
      BY <2>5, SetLineHistoryTyped DEF Live, Steady
    <2>8. CASE s.hpos # -1
      <3>1. Live(u)
        BY <2>8, SetHistoryLive DEF Live
      <3> HIDE DEF u
      <3>2. Ok(v) /\ Live(v)
        BY <2>6, <2>7, <3>1, SetLineTyped, SetLineLive DEF Ok
      <3> HIDE DEF v
      <3> QED
        BY <2>1, <2>3, <3>2, ResetStateLive
    <2>9. CASE s.hpos = -1
      <3>1. Ok(v) /\ DOMAIN v = Fields
        <4> HIDE DEF u
        <4> QED
          BY <2>6, <2>7, SetLineTyped DEF Ok, Typed
      <3> HIDE DEF v
      <3>2. ResetState(v).skip = FALSE
        <4> DEFINE r == [v EXCEPT !.skip = FALSE, !.undoing = FALSE]
        <4>1. DOMAIN r = Fields /\ r.skip = FALSE
          BY <3>1 DEF Fields
        <4>2. ResetState(v) = r \/ \E g : ResetState(v) = SetLineHistory(r, g)
          BY DEF ResetState
        <4> HIDE DEF r
        <4>3. ASSUME NEW g PROVE SetLineHistory(r, g).skip = FALSE
          BY <4>1, SetLineHistoryOnly DEF Only, Fields
        <4> QED
          BY <4>1, <4>2, <4>3
      <3> QED
        BY <2>1, <2>3, <2>9, <3>2
    <2> QED
      BY <2>8, <2>9
  <1> QED
    BY <1>1, <1>2

\* Sources.setLineCursorMatch.
LEMMA CursorMatchLive ==
  ASSUME NEW s, Ok(s), Live(s), NEW l
  PROVE  Live(setLineCursorMatch(s, l))
  <1>1. Only(s, setLineCursorMatch(s, l), Placing \ {"hpos"})
    BY CursorMatchOnly, OnlyMore DEF Ok, Typed, Placing
  <1> QED
    BY <1>1, EditLive

\* Sources.restoreLineBuffer.
LEMMA RestoreLive ==
  ASSUME NEW s, Ok(s), Live(s)
  PROVE  Live(restoreLineBuffer(s))
  <1>1. /\ Only(s, restoreLineBuffer(s), Placing)
        /\ restoreLineBuffer(s).hpos \in -1 .. Len(Current(s))
    BY RestoreOnly, RestoreTyped, CurrentTyped, OnlyMore DEF Ok, Typed, Placing, Live, Steady
  <1> QED
    BY <1>1, PlacingLive

\* The line at the position is either saved or a line of the source.
LEMMA WalkLineLive ==
  ASSUME NEW s, Ok(s), Live(s), s.hpos # 0
  PROVE  Live(WalkLine(s))
  <1> DEFINE i == Len(Current(s)) - s.hpos
  <1>1. \/ GetLineHistory(s).items = << >> /\ GetLineFails(s, i)
        \/ \E l : WalkLine(s) = setLineCursorMatch(s, l)
    BY DEF WalkLine
  <1>2. CASE GetLineHistory(s).items = << >> /\ GetLineFails(s, i)
    <2>1. s.hpos \in 1 .. Len(Current(s)) /\ Len(Current(s)) \in Nat
      BY <1>2, MainHistory, CurrentTyped DEF Live, Steady, Ok
    <2>2. i \in 0 .. Len(Current(s)) - 1
      BY <2>1
    <2> QED
      BY <1>2, <2>2 DEF GetLineFails
  <1> QED
    BY <1>1, <1>2, CursorMatchLive

\* A walk ends on the input line or on a line of the source.
LEMMA WalkToLive ==
  ASSUME NEW s, Ok(s), Live(s), Len(Current(s)) # 0, NEW to \in Int
  PROVE  Live(WalkTo(s, to))
  <1> DEFINE len == Len(Current(s))
             i == IF to > len THEN len ELSE to
             t == [s EXCEPT !.hpos = i]
  <1>1. len \in Nat
    BY CurrentTyped DEF Live, Steady, Ok
  <1>2. CASE to < -1
    <2>1. -1 \in -1 .. len
      BY <1>1
    <2> QED
      BY <1>2, <2>1, PositionLive DEF WalkTo
  <1>3. CASE to = 0
    BY <1>3, RestoreLive DEF WalkTo
  <1>4. CASE ~(to < -1) /\ to # 0
    <2>1. WalkTo(s, to) = WalkLine(t)
      BY <1>4 DEF WalkTo
    <2>2. i \in -1 .. len /\ i # 0
      BY <1>1, <1>4
    <2> HIDE DEF i
    <2>3. Ok(t) /\ Live(t) /\ t.hpos = i
      BY <2>2, PositionLive
    <2> HIDE DEF t
    <2> QED
      BY <2>1, <2>2, <2>3, WalkLineLive
  <1> QED
    BY <1>2, <1>3, <1>4

\* The skip flag.
LEMMA SkippingLive ==
  ASSUME NEW s, Ok(s), Live(s), NEW b
  PROVE  LET t == [s EXCEPT !.skip = b] IN Ok(t) /\ Live(t)
  <1> DEFINE t == [s EXCEPT !.skip = b]
  <1>1. Only(s, t, {"skip"})
    BY DEF Only, Fields, Ok, Typed
  <1> HIDE DEF t
  <1>2. Only(s, t, {"skip", "undoing", "fault"}) /\ Only(s, t, Placing \ {"hpos"})
    BY <1>1, OnlyMore DEF Placing
  <1>3. Ok(t) /\ Live(t)
    BY <1>2, FlagsTyped, EditLive
  <1> QED
    BY <1>3 DEF t

\* Sources.Walk.
LEMMA WalkLive ==
  ASSUME NEW s, Ok(s), Live(s), NEW n \in Int
  PROVE  Live(Walk(s, n))
  <1> DEFINE t == [s EXCEPT !.skip = FALSE]
             u == SaveState(t)
             left == [u EXCEPT !.cpos = -1, !.hpos = 0]
  <1>1. Ok(t) /\ Live(t)
    BY SkippingLive
  <1>2. Ok(left) /\ left.hpos = 0 /\ Only(s, left, Moving)
    BY LeftTyped, LeftOnly DEF Ok, Typed
  <1>3. \/ Walk(s, n) = s
        \/ Len(Current(s)) # 0 /\ Walk(s, n) = WalkTo(left, left.hpos + n)
        \/ Len(Current(s)) # 0 /\ Walk(s, n) = WalkTo(s, s.hpos + n)
    BY DEF Walk
  <1> HIDE DEF t
  <1>4. Ok(u) /\ Live(u)
    BY <1>1, SaveStateTyped, SaveStateLive DEF Live
  <1> HIDE DEF u
  <1>5. Live(left)
    <2>1. Only(u, left, {"cpos", "hpos"})
      BY <1>4 DEF Only, Fields, Ok, Typed
    <2> HIDE DEF left
    <2>2. Only(u, left, Placing)
      BY <2>1, OnlyMore DEF Placing
    <2>3. 0 \in -1 .. Len(Current(u))
      BY <1>4, CurrentTyped DEF Live, Steady, Ok
    <2> QED
      BY <1>2, <1>4, <2>2, <2>3, PlacingLive
  <1> HIDE DEF left
  <1>6. Current(left) = Current(s) /\ s.hpos \in Int
    BY <1>2, SameCurrent DEF Ok, Typed, TypedMoving
  <1> QED
    BY <1>2, <1>3, <1>5, <1>6, WalkToLive

\* Sources.Fetch.
LEMMA FetchLive ==
  ASSUME NEW s, Ok(s), Live(s), NEW i
  PROVE  Live(Fetch(s, i))
  BY CursorMatchLive DEF Fetch

\* Sources.getLine.
LEMMA SaveMainLive ==
  ASSUME NEW s, Ok(s), Live(s)
  PROVE  Live(SaveMain(s))
  <1> DEFINE t == [s EXCEPT !.skip = FALSE]
             u == SaveState(t)
             v == [u EXCEPT !.skip = s.skip]
  <1>1. Ok(t) /\ Live(t)
    BY SkippingLive
  <1> HIDE DEF t
  <1>2. Ok(u) /\ Live(u)
    BY <1>1, SaveStateTyped, SaveStateLive DEF Live
  <1> HIDE DEF u
  <1>3. Live(v)
    BY <1>2, SkippingLive
  <1>4. SaveMain(s) = v \/ SaveMain(s) = s
    BY DEF SaveMain, v, u, t
  <1> QED
    BY <1>3, <1>4

\* A backward search asks for lines of the source only.
LEMMA InsertMatchLive ==
  ASSUME NEW s, Ok(s), Live(s), NEW given, NEW regex
  PROVE  Live(InsertMatch(s, given, TRUE, FALSE, regex))
  <1> DEFINE s1    == SaveMain(s)
             it    == IF given THEN [line |-> s.line, pos |-> s.pos] ELSE MatchItem(s1)
             cline == Slice(it.line, 0, it.pos)
             m     == match(s1, cline, TRUE, FALSE, regex)
             found == GetLine(s1, m.pos)
             k     == IF it.pos # 0 THEN it.pos ELSE Len(found)
             t     == InsertMatch(s, given, TRUE, FALSE, regex)
  <1>1. Ok(s1) /\ Live(s1)
    BY SaveMainTyped, SaveMainLive
  <1>2. \/ t = s \/ (~m.failed /\ t = s1) \/ m.failed
        \/ m.found /\ t = SetLine([s1 EXCEPT !.hpos = FromEnd(s1, m.pos)], found, k)
    BY DEF InsertMatch
  <1> HIDE DEF t
  <1> SUFFICES Live(t)
    BY DEF t
  <1> HIDE DEF s1, cline
  <1>3. s1.hpos <= Len(Current(s1)) /\ Len(Current(s1)) \in Nat
    BY <1>1, CurrentTyped DEF Live, Steady, Ok
  <1>4. /\ m.found => FromEnd(s1, m.pos) \in 1 .. Len(Current(s1))
        /\ ~m.failed
    BY <1>1, <1>3, MatchFacts DEF Ok, Live, Steady
  <1> HIDE DEF m, it, found, k
  <1>5. ASSUME m.found
        PROVE  Live(SetLine([s1 EXCEPT !.hpos = FromEnd(s1, m.pos)], found, k))
    <2> DEFINE i == FromEnd(s1, m.pos)
               u == [s1 EXCEPT !.hpos = i]
    <2>1. i \in -1 .. Len(Current(s1))
      BY <1>3, <1>4, <1>5
    <2> HIDE DEF i
    <2>2. Ok(u) /\ Live(u)
      BY <1>1, <2>1, PositionLive
    <2> HIDE DEF u
    <2>3. Live(SetLine(u, found, k))
      BY <2>2, SetLineLive
    <2> QED
      BY <2>3 DEF u, i
  <1> QED
    BY <1>1, <1>2, <1>4, <1>5

\* A loop that has nothing to infer starts on the input line and saves it.
LEMMA StartSteady ==
  ASSUME NEW s, Ok(s), HasCurrent(s), ~s.fault, ~s.infer
  PROVE  LET t == Start(s) IN Steady(t) /\ t.hpos = -1 /\ ~t.skip
  <1> DEFINE e  == [s EXCEPT !.line = << >>, !.pos = 0]
             s0 == ResetState(e)
             a  == [s0 EXCEPT !.hpos = -1]
             s1 == IF s0.acceptHold THEN SetLine(a, s0.acceptLine, Len(s0.acceptLine))
                   ELSE IF HasCurrent(s0) THEN SetLineHistory(a, NewLineHistory) ELSE a
             z  == [s1 EXCEPT !.accepted = FALSE, !.acceptLine = << >>, !.cpos = -1]
  <1>1. Only(s, e, {"line", "pos"}) /\ DOMAIN e = Fields
    BY DEF Only, Fields, Ok, Typed
  <1> HIDE DEF e
  <1>2. Only(e, s0, Saving)
    BY <1>1, ResetStateOnly
  <1>3. ~s0.skip
    <2> DEFINE r == [e EXCEPT !.skip = FALSE, !.undoing = FALSE]
    <2>1. DOMAIN r = Fields /\ r.skip = FALSE
      BY <1>1 DEF Fields
    <2>2. s0 = r \/ \E g : s0 = SetLineHistory(r, g)
      BY DEF ResetState
    <2> HIDE DEF r
    <2>3. ASSUME NEW g PROVE SetLineHistory(r, g).skip = FALSE
      BY <2>1, SetLineHistoryOnly DEF Only, Fields
    <2> QED
      BY <2>1, <2>2, <2>3
  <1>4. Start(s) = [(IF s0.acceptHold THEN SetLine(a, s0.acceptLine, Len(s0.acceptLine))
                     ELSE IF ~s0.infer
                     THEN IF HasCurrent(s0) THEN SetLineHistory(a, NewLineHistory) ELSE a
                     ELSE [InferLine(s0) EXCEPT !.infer = FALSE])
                     EXCEPT !.accepted = FALSE, !.acceptLine = << >>, !.cpos = -1]
    BY DEF Start, e
  <1>5. s0.infer = s.infer /\ DOMAIN s0 = Fields
    BY <1>1, <1>2 DEF Only, Fields, Saving
  <1>6. Start(s) = z
    BY <1>4, <1>5
  <1> HIDE DEF s0
  <1>7. Only(s0, a, {"hpos"}) /\ a.hpos = -1 /\ a.skip = s0.skip
    BY <1>5 DEF Only, Fields
  <1> HIDE DEF a
  <1>8. Only(a, s1, {"line", "pos", "lines"})
    <2>1. ASSUME NEW l, NEW p PROVE Only(a, SetLine(a, l, p), {"line", "pos", "lines"})
      BY <1>7, SetLineOnly, OnlyMore DEF Only
    <2>2. Only(a, SetLineHistory(a, NewLineHistory), {"line", "pos", "lines"})
      BY <1>7, SetLineHistoryOnly, OnlyMore DEF Only
    <2>3. Only(a, a, {"line", "pos", "lines"})
      BY <1>7 DEF Only
    <2> QED
      BY <2>1, <2>2, <2>3
  <1> HIDE DEF s1
  <1>9. Only(s1, z, {"accepted", "acceptLine", "cpos"})
    BY <1>8 DEF Only, Fields
  <1> HIDE DEF z
  <1>10. /\ z.names = s.names /\ z.list = s.list /\ z.sourcePos = s.sourcePos
         /\ z.fault = s.fault /\ z.hpos = -1 /\ z.skip = s0.skip
    BY <1>1, <1>2, <1>7, <1>8, <1>9 DEF Only, Fields, Saving
  <1>11. Current(z) = Current(s) /\ HasCurrent(z)
    BY <1>10 DEF Current, HasCurrent, Name
  <1>12. Steady(z)
    BY <1>10, <1>11, CurrentTyped DEF Steady, Ok
  <1> QED
    BY <1>3, <1>6, <1>10, <1>12

-----------------------------------------------------------------------------
(* The input line that a walk has left                                     *)

\* The saved states of the input line.
Main(s) == s.lines[Name(s)][-1].items

\* The input line as it was saved last.
Input(s) == Main(s)[Len(Main(s))].line

\* A change of the undo list at hand leaves that of the input line alone on
\* another line.
LEMMA SetHistoryMain ==
  ASSUME NEW s, Ok(s), Steady(s), NEW lh
  PROVE  Main(SetLineHistory(s, lh)) = IF s.hpos = -1 THEN lh.items ELSE Main(s)
  <1> DEFINE t == SetLineHistory(s, lh)
             n == Name(s)
             k == Slot(s)
  <1>1. DOMAIN s = Fields /\ n \in Names /\ k \in Slots /\ -1 \in Slots
    BY CurrentTyped, SourcesAssumption DEF Ok, Typed, Steady, Slots
  <1>2. s.lines \in [Names -> [Slots -> Histories]]
    BY DEF Ok, Typed, TypedMoving
  <1>3. Only(s, t, {"lines"})
    BY <1>1, SetLineHistoryOnly
  <1>4. t.lines = [s.lines EXCEPT ![n][k] = lh]
    BY <1>1 DEF SetLineHistory, Fields
  <1> HIDE DEF t
  <1>5. Name(t) = n
    <2>1. Only(s, t, Moving)
      BY <1>3, OnlyMore DEF Saving, Moving
    <2> QED
      BY <2>1, SameCurrent
  <1>6. k = -1 <=> s.hpos = -1
    BY MainSlot
  <1> HIDE DEF n, k
  <1>7. t.lines[n][-1] = IF k = -1 THEN lh ELSE s.lines[n][-1]
    BY <1>1, <1>2, <1>4
  <1>8. Main(t) = IF s.hpos = -1 THEN lh.items ELSE Main(s)
    BY <1>5, <1>6, <1>7 DEF Main, n
  <1> QED
    BY <1>8 DEF t

\* The undo lists are those of s, and so is the active source.
LEMMA SameMain ==
  ASSUME NEW s, NEW t, NEW F, Only(s, t, F), F \cap {"lines", "names", "sourcePos"} = {}
  PROVE  Main(t) = Main(s) /\ Name(t) = Name(s) /\ Input(t) = Input(s)
  <1>1. t.lines = s.lines /\ t.names = s.names /\ t.sourcePos = s.sourcePos
    BY DEF Only, Fields
  <1> QED
    BY <1>1 DEF Main, Input, Name

\* A reset keeps the saved states.
LEMMA ResetMain ==
  ASSUME NEW s, Ok(s), Steady(s)
  PROVE  Main(ResetState(s)) = Main(s)
  <1> DEFINE r == [s EXCEPT !.skip = FALSE, !.undoing = FALSE]
             lh == Reset(GetLineHistory(s), s.undoing)
  <1>1. Only(s, r, {"skip", "undoing"})
    BY DEF Only, Fields, Ok, Typed
  <1>2. ResetState(s) = SetLineHistory(r, lh)
    BY DEF ResetState, Steady
  <1>3. lh.items = GetLineHistory(s).items
    BY CurrentTyped, ResetHistory DEF Steady, Ok
  <1> HIDE DEF r, lh
  <1>4. /\ Only(s, r, {"skip", "undoing", "fault"}) /\ r.hpos = s.hpos
        /\ Only(s, r, Saving \cup {"line", "pos", "cpos"})
    BY <1>1 DEF Only, Fields, Saving
  <1>5. Ok(r) /\ Steady(r) /\ Main(r) = Main(s)
    BY <1>1, <1>4, FlagsTyped, SavingSteady, SameMain
  <1>6. s.hpos = -1 => GetLineHistory(s).items = Main(s)
    BY MainSlot DEF GetLineHistory, Main
  <1> QED
    BY <1>2, <1>3, <1>4, <1>5, <1>6, SetHistoryMain

\* A save on another line keeps them, and one of the input line that is not
\* left out ends them with the line.
LEMMA SaveStateMain ==
  ASSUME NEW s, Ok(s), Steady(s)
  PROVE  /\ s.hpos # -1 => Main(SaveState(s)) = Main(s)
         /\ s.hpos = -1 /\ ~s.skip => Input(SaveState(s)) = s.line
  <1>1. CASE s.skip
    BY <1>1, ResetMain DEF SaveState
  <1>2. CASE ~s.skip
    <2> DEFINE g == GetLineHistory(s)
               lh == SaveItem(g, s.line, s.pos)
               t == SetLineHistory(s, lh)
    <2>1. s.line \in Line /\ s.pos \in Int /\ g \in Histories
      BY CurrentTyped DEF Ok, Typed, TypedMoving, Steady
    <2>2. lh \in Histories /\ lh.items[Len(lh.items)].line = s.line
      <3>1. g \in LineHistory /\ ~SaveFaults(g, s.line)
        BY <2>1 DEF Histories, LineHistory, SaveFaults
      <3> HIDE DEF g
      <3>2. Saved(g, s.line, lh.items)
        BY <2>1, <3>1, SaveItemLast
      <3>3. lh \in Histories
        BY <2>1, SaveHistory
      <3> QED
        BY <3>2, <3>3 DEF Saved
    <2>3. SaveState(s) = ResetState(t)
      BY <1>2 DEF SaveState, Steady
    <2> HIDE DEF lh
    <2>4. Ok(t) /\ Main(t) = IF s.hpos = -1 THEN lh.items ELSE Main(s)
      BY <2>2, SetLineHistoryTyped, SetHistoryMain DEF Steady
    <2>5. Steady(t)
      <3>1. Only(s, t, Saving \cup {"line", "pos", "cpos"})
        BY SetLineHistoryOnly, OnlyMore DEF Ok, Typed, Saving
      <3> HIDE DEF t
      <3> QED
        BY <3>1, SavingSteady
    <2> HIDE DEF t
    <2>6. Main(SaveState(s)) = Main(t)
      BY <2>3, <2>4, <2>5, ResetMain
    <2> QED
      BY <2>2, <2>4, <2>6 DEF Input
  <1> QED
    BY <1>1, <1>2

\* An undo on another line keeps them.
LEMMA UndoStateMain ==
  ASSUME NEW s, Ok(s), Steady(s), s.hpos # -1
  PROVE  Main(UndoState(s)) = Main(s)
  <1> DEFINE r == [s EXCEPT !.skip = TRUE, !.undoing = TRUE]
  <1>1. Only(s, r, {"skip", "undoing"})
    BY DEF Only, Fields, Ok, Typed
  <1>2. \/ UndoState(s) = r
        \/ \E lh : UndoState(s) = SetLineHistory(r, lh)
        \/ \E lh, l, p : UndoState(s) = SetLine(SetLineHistory(r, lh), l, p)
    BY DEF UndoState, r
  <1> HIDE DEF r
  <1>3. /\ Only(s, r, {"skip", "undoing", "fault"}) /\ r.hpos = s.hpos
        /\ Only(s, r, Saving \cup {"line", "pos", "cpos"})
    BY <1>1 DEF Only, Fields, Saving
  <1>4. Ok(r) /\ Steady(r) /\ Main(r) = Main(s)
    BY <1>1, <1>3, FlagsTyped, SavingSteady, SameMain
  <1>5. ASSUME NEW lh
        PROVE  /\ Main(SetLineHistory(r, lh)) = Main(s)
               /\ DOMAIN SetLineHistory(r, lh) = Fields
    BY <1>3, <1>4, SetHistoryMain, SetLineHistoryOnly DEF Ok, Typed, Only
  <1>6. ASSUME NEW t, DOMAIN t = Fields, NEW l, NEW p PROVE Main(SetLine(t, l, p)) = Main(t)
    BY <1>6, SetLineOnly, SameMain
  <1> QED
    BY <1>2, <1>4, <1>5, <1>6

\* So does reverting another line.
LEMMA RevertStateMain ==
  ASSUME NEW s, Ok(s), Steady(s), s.hpos # -1
  PROVE  Main(RevertState(s)) = Main(s)
  <1> DEFINE lh == GetLineHistory(s)
             it == lh.items[1]
             l == it.line
             p == it.pos
             lh1 == [lh EXCEPT !.items = << >>]
             u == SetLineHistory(s, lh1)
             v == SetLine(u, l, p)
  <1>1. CASE lh.items = << >>
    BY <1>1 DEF RevertState
  <1>2. CASE lh.items # << >>
    <2>1. RevertState(s) = ResetState(v)
      BY <1>2 DEF RevertState, Steady
    <2>2. lh \in Histories
      BY CurrentTyped DEF Steady, Ok
    <2>3. lh1 \in Histories
      <3>1. lh \in LineHistory /\ << >> \in Seq(Item)
        BY <2>2 DEF Histories
      <3>2. lh1 \in LineHistory /\ lh1.pos = lh.pos /\ lh1.items = << >>
        BY <3>1 DEF LineHistory
      <3> HIDE DEF lh1
      <3> QED
        BY <2>2, <3>2 DEF Histories, Fits
    <2>4. l \in Line /\ p \in Int
      <3>1. lh \in LineHistory /\ 1 \in 1 .. Len(lh.items)
        BY <1>2, <2>2 DEF Histories, LineHistory
      <3> QED
        BY <3>1, ItemType
    <2> HIDE DEF lh1, l, p
    <2>5. Ok(u) /\ Main(u) = Main(s) /\ Only(s, u, {"lines"})
      BY <2>3, SetLineHistoryTyped, SetHistoryMain, SetLineHistoryOnly DEF Steady, Ok, Typed
    <2> HIDE DEF u
    <2>6. Ok(v) /\ Only(u, v, {"line", "pos"})
      BY <2>4, <2>5, SetLineTyped, SetLineOnly DEF Ok, Typed
    <2>7. Main(v) = Main(u)
      BY <2>6, SameMain
    <2>8. Steady(v)
      <3> DEFINE G == Saving \cup {"line", "pos", "cpos"}
      <3>1. Only(s, u, G) /\ Only(u, v, G)
        BY <2>5, <2>6, OnlyMore DEF Saving
      <3> HIDE DEF G
      <3>2. Only(s, v, G)
        BY <3>1, OnlyTrans
      <3> QED
        BY <3>2, SavingSteady DEF G
    <2> HIDE DEF v
    <2> QED
      BY <2>1, <2>5, <2>6, <2>7, <2>8, ResetMain
  <1> QED
    BY <1>1, <1>2

\* The input line is shown, or is the one saved last.
Holds(s, l) == IF s.hpos = -1 THEN s.line = l ELSE Input(s) = l

\* Leaving the input line saves it.
LEMMA LeftInput ==
  ASSUME NEW s, Ok(s), Live(s), s.hpos = -1
  PROVE  LET t == SaveState([s EXCEPT !.skip = FALSE])
         IN  Ok(t) /\ Live(t) /\ Name(t) = Name(s) /\ Input(t) = s.line
  <1> DEFINE r == [s EXCEPT !.skip = FALSE]
             t == SaveState(r)
  <1>1. Ok(r) /\ Live(r)
    BY SkippingLive
  <1>2. ~r.skip /\ r.hpos = -1 /\ r.line = s.line /\ Only(s, r, {"skip"})
    BY DEF Only, Fields, Ok, Typed
  <1>3. Name(r) = Name(s)
    BY <1>2, SameMain
  <1> HIDE DEF r
  <1>4. Ok(t) /\ Live(t)
    BY <1>1, SaveStateTyped, SaveStateLive DEF Live
  <1>5. Only(r, t, Moving)
    BY <1>1, SaveStateOnly, OnlyMore DEF Ok, Typed, Moving
  <1>6. Name(t) = Name(r)
    <2> HIDE DEF t
    <2> QED
      BY <1>5, SameCurrent
  <1>7. Input(t) = s.line
    BY <1>1, <1>2, SaveStateMain DEF Live
  <1> QED
    BY <1>3, <1>4, <1>6, <1>7 DEF r

\* Where a walk goes, and that it shows the input line on it unless it was to
\* go further down.
LEMMA WalkToInput ==
  ASSUME NEW s, Ok(s), Live(s), Len(Current(s)) # 0, NEW to \in Int
  PROVE  LET t == WalkTo(s, to)
         IN  /\ Name(t) = Name(s) /\ Input(t) = Input(s)
             /\ to < 0 => t.hpos = -1
             /\ to >= -1 /\ t.hpos = -1 => t.line = Input(s)
  <1> DEFINE t == WalkTo(s, to)
             len == Len(Current(s))
             i == IF to > len THEN len ELSE to
             u == [s EXCEPT !.hpos = i]
  <1>0. len \in Nat \ {0} /\ DOMAIN s = Fields /\ -1 \in -1 .. len
    BY CurrentTyped DEF Live, Steady, Ok, Typed
  <1>1. Name(t) = Name(s) /\ Input(t) = Input(s)
    <2>1. Only(s, t, Showing)
      BY <1>0, WalkToOnly
    <2> HIDE DEF t
    <2> QED
      BY <2>1, SameMain DEF Showing
  <1>2. ASSUME NEW r, Ok(r), Live(r), r.hpos = -1, Only(s, r, {"hpos"})
        PROVE  /\ GetLineHistory(r).items # << >> /\ Name(r) = Name(s)
               /\ LastItem(GetLineHistory(r)).line = Input(s)
    <2>1. GetLineHistory(r).items = Main(r)
      BY <1>2, MainSlot DEF Live, GetLineHistory, Main
    <2>2. Main(r) = Main(s) /\ Name(r) = Name(s)
      BY <1>2, SameMain
    <2> QED
      BY <1>2, <2>1, <2>2, MainHistory DEF LastItem, Input
  <1>3. ASSUME NEW j \in -1 .. len, NEW r, r = [s EXCEPT !.hpos = j]
        PROVE  Ok(r) /\ Live(r) /\ r.hpos = j /\ Only(s, r, {"hpos"}) /\ DOMAIN r = Fields
    BY <1>0, <1>3, PositionLive DEF Only, Fields
  <1>4. CASE to < -1
    BY <1>1, <1>3, <1>0, <1>4 DEF WalkTo
  <1>5. CASE to = 0
    <2> DEFINE r == [s EXCEPT !.hpos = -1]
               it == LastItem(GetLineHistory(r))
    <2>1. Ok(r) /\ Live(r) /\ r.hpos = -1 /\ Only(s, r, {"hpos"}) /\ DOMAIN r = Fields
      BY <1>0, <1>3
    <2>2. GetLineHistory(r).items # << >> /\ it.line = Input(s)
      <3> HIDE DEF r
      <3> QED
        BY <1>2, <2>1
    <2>3. t = SetLine(r, it.line, it.pos)
      BY <1>5, <2>2 DEF WalkTo, restoreLineBuffer
    <2> HIDE DEF r, it
    <2>4. t.line = it.line
      BY <2>1, <2>3, SetLineOnly
    <2> HIDE DEF t
    <2> QED
      BY <1>1, <1>5, <2>2, <2>4 DEF t
  <1>6. CASE ~(to < -1) /\ to # 0
    <2>1. t = WalkLine(u)
      BY <1>6 DEF WalkTo
    <2>2. i \in -1 .. len /\ i # 0 /\ (i = -1 <=> to < 0)
      BY <1>0, <1>6
    <2>3. Ok(u) /\ Live(u) /\ u.hpos = i /\ Only(s, u, {"hpos"}) /\ DOMAIN u = Fields
      <3> HIDE DEF i
      <3> QED
        BY <1>3, <2>2
    <2> HIDE DEF u, i
    <2>4. t.hpos = i
      <3>1. Only(u, WalkLine(u), {"line", "pos", "cpos", "fault"})
        BY <2>3, WalkLineOnly
      <3> QED
        BY <2>1, <2>3, <3>1 DEF Only, Fields
    <2>5. ASSUME i = -1 PROVE t.line = Input(s)
      <3> DEFINE l == LastItem(GetLineHistory(u)).line
      <3>1. GetLineHistory(u).items # << >> /\ l = Input(s)
        BY <1>2, <2>3, <2>5
      <3>2. t = setLineCursorMatch(u, l)
        BY <2>1, <3>1 DEF WalkLine
      <3> HIDE DEF l
      <3>3. setLineCursorMatch(u, l).line = l
        <4> DEFINE c == IF u.cpos = -1 /\ Len(u.line) > 0 THEN u.pos ELSE u.cpos
                   v == [u EXCEPT !.cpos = c]
                   p == IF PreservePoint /\ Len(l) > c /\ c # -1 THEN c ELSE Len(l)
        <4>1. DOMAIN v = Fields
          BY <2>3 DEF Fields
        <4>2. setLineCursorMatch(u, l) = SetLine(v, l, p)
          BY DEF setLineCursorMatch
        <4> HIDE DEF v, p
        <4> QED
          BY <4>1, <4>2, SetLineOnly
      <3> QED
        BY <3>1, <3>2, <3>3
    <2> HIDE DEF t
    <2>6. /\ to < 0 => t.hpos = -1
          /\ to >= -1 /\ t.hpos = -1 => t.line = Input(s)
      BY <2>2, <2>4, <2>5
    <2> QED
      BY <1>1, <2>6 DEF t
  <1> QED
    BY <1>4, <1>5, <1>6

\* A walk remembers the input line it leaves, and comes back to it.
LEMMA WalkHolds ==
  ASSUME NEW s, Ok(s), Live(s), NEW l, Holds(s, l), NEW n \in Int
  PROVE  LET t == Walk(s, n)
         IN  /\ Name(t) = Name(s) /\ (t.hpos # -1 => Input(t) = l)
             /\ s.hpos > -1 /\ s.hpos + n >= -1 /\ t.hpos = -1 => t.line = l
  <1> DEFINE u == SaveState([s EXCEPT !.skip = FALSE])
             left == [u EXCEPT !.cpos = -1, !.hpos = 0]
             t == Walk(s, n)
  <1>0. s.hpos \in Int
    BY DEF Ok, Typed, TypedMoving
  <1>1. \/ t = s
        \/ s.hpos = -1 /\ n > 0 /\ Len(Current(s)) # 0 /\ t = WalkTo(left, left.hpos + n)
        \/ ~(s.hpos = -1 /\ n > 0) /\ Len(Current(s)) # 0 /\ t = WalkTo(s, s.hpos + n)
    BY DEF Walk
  <1>2. CASE t = s
    <2>1. s.hpos > -1 => s.hpos # -1
      BY <1>0
    <2> QED
      BY <1>2, <2>1 DEF Holds
  <1>3. CASE s.hpos = -1 /\ n > 0 /\ Len(Current(s)) # 0 /\ t = WalkTo(left, left.hpos + n)
    <2>1. Ok(u) /\ Live(u) /\ Name(u) = Name(s) /\ Input(u) = l
      BY <1>3, LeftInput DEF Holds
    <2>2. Ok(left) /\ left.hpos = 0 /\ Only(s, left, Moving)
      BY LeftTyped, LeftOnly DEF Ok, Typed
    <2> HIDE DEF u
    <2>3. Only(u, left, {"cpos", "hpos"})
      BY <2>1 DEF Only, Fields, Ok, Typed
    <2> HIDE DEF left
    <2>4. Live(left)
      <3>1. Only(u, left, Placing)
        BY <2>3, OnlyMore DEF Placing
      <3>2. 0 \in -1 .. Len(Current(u))
        BY <2>1, CurrentTyped DEF Live, Steady, Ok
      <3> QED
        BY <2>1, <2>2, <3>1, <3>2, PlacingLive
    <2>5. Name(left) = Name(s) /\ Input(left) = l /\ Current(left) = Current(s)
      BY <2>1, <2>2, <2>3, SameMain, SameCurrent
    <2>6. Name(t) = Name(left) /\ Input(t) = Input(left)
      BY <1>3, <2>2, <2>4, <2>5, WalkToInput
    <2> HIDE DEF t
    <2> QED
      BY <1>3, <2>5, <2>6 DEF t
  <1>4. CASE ~(s.hpos = -1 /\ n > 0) /\ Len(Current(s)) # 0 /\ t = WalkTo(s, s.hpos + n)
    <2> DEFINE to == s.hpos + n
    <2>1. to \in Int /\ (s.hpos = -1 => to < 0)
      BY <1>0, <1>4
    <2>2. /\ Name(t) = Name(s) /\ Input(t) = Input(s)
          /\ to < 0 => t.hpos = -1
          /\ to >= -1 /\ t.hpos = -1 => t.line = Input(s)
      <3>1. t = WalkTo(s, to)
        BY <1>4
      <3> HIDE DEF t, to
      <3> QED
        BY <1>4, <2>1, <3>1, WalkToInput
    <2>3. s.hpos > -1 => s.hpos # -1
      BY <1>0
    <2> HIDE DEF t
    <2>4. /\ Name(t) = Name(s) /\ (t.hpos # -1 => Input(t) = l)
          /\ s.hpos > -1 /\ s.hpos + n >= -1 /\ t.hpos = -1 => t.line = l
      BY <2>1, <2>2, <2>3 DEF Holds
    <2> QED
      BY <2>4 DEF t
  <1> QED
    BY <1>1, <1>2, <1>3, <1>4

\* A search remembers it too.
LEMMA InsertMatchHolds ==
  ASSUME NEW s, Ok(s), Live(s), NEW l, Holds(s, l), NEW given, NEW regex
  PROVE  LET t == InsertMatch(s, given, TRUE, FALSE, regex)
         IN  Name(t) = Name(s) /\ (t.hpos # -1 => Input(t) = l)
  <1> DEFINE s1    == SaveMain(s)
             t     == InsertMatch(s, given, TRUE, FALSE, regex)
  <1>1. Ok(s1) /\ DOMAIN s1 = Fields
    BY SaveMainTyped DEF Ok, Typed
  <1>2. Name(s1) = Name(s) /\ Input(s1) = l
    <2>1. CASE s.hpos = -1
      <3> DEFINE u == SaveState([s EXCEPT !.skip = FALSE])
                 v == [u EXCEPT !.skip = s.skip]
      <3>1. Ok(u) /\ Name(u) = Name(s) /\ Input(u) = l
        BY <2>1, LeftInput DEF Holds
      <3>2. s1 = v
        BY <2>1 DEF SaveMain
      <3> HIDE DEF u
      <3>3. Only(u, v, {"skip"})
        BY <3>1 DEF Only, Fields, Ok, Typed
      <3> HIDE DEF v
      <3> QED
        BY <3>1, <3>2, <3>3, SameMain
    <2>2. CASE s.hpos # -1
      BY <2>2 DEF SaveMain, Holds
    <2> QED
      BY <2>1, <2>2
  <1>3. \/ t = s \/ t = s1 \/ t = GetLineFault(s1)
        \/ \E i, f, k : t = SetLine([s1 EXCEPT !.hpos = i], f, k)
    BY DEF InsertMatch
  <1> HIDE DEF t, s1
  <1>4. CASE t = s
    BY <1>4 DEF Holds, t
  <1>5. CASE t = s1
    BY <1>2, <1>5 DEF t
  <1>6. CASE t = GetLineFault(s1)
    <2>1. Name(t) = Name(s1) /\ Input(t) = Input(s1)
      BY <1>1, <1>6, GetLineFaultOnly, SameMain
    <2> QED
      BY <1>2, <2>1 DEF t
  <1>7. ASSUME NEW i, NEW f, NEW k, t = SetLine([s1 EXCEPT !.hpos = i], f, k)
        PROVE  Name(t) = Name(s) /\ Input(t) = l
    <2> DEFINE u == [s1 EXCEPT !.hpos = i]
    <2>1. Only(s1, u, {"hpos"}) /\ DOMAIN u = Fields
      BY <1>1 DEF Only, Fields
    <2>2. t = SetLine(u, f, k)
      BY <1>7
    <2> HIDE DEF u
    <2>3. Only(u, t, {"line", "pos"})
      BY <2>1, <2>2, SetLineOnly
    <2> QED
      BY <1>2, <2>1, <2>3, SameMain
  <1>8. Name(t) = Name(s) /\ (t.hpos # -1 => Input(t) = l)
    BY <1>2, <1>3, <1>4, <1>5, <1>6, <1>7 DEF t
  <1> QED
    BY <1>8 DEF t

\* What the application and the user have to refrain from: besides what Tidy
\* says, a change of source on a history line, and the commands that ask for
\* the line after the newest one.
Quiet ==
  /\ Tidy
  /\ Bound \cap {"history-source-next", "history-source-prev", "infer-next-history",
                 "history-search-forward", "history-substring-search-forward",
                 "operate-and-get-next"} = {}

\* What typed is about: the input line, as it is shown or as it was left.
Held == typed.source = Name(h) /\ Holds(h, typed.line)

\* What a command that does not end the loop does with it.
Follows(s) == Name(s) = Name(h) /\ (s.hpos # -1 => Input(s) = typed.line)

\* Between two loops the position may be stale, since the application may have
\* replaced the source; inside a loop it is not.
Calm ==
  IInv /\ Named(h) /\ ~h.fault /\ ~h.infer /\ (reading => Live(h) /\ Held)

\* A struct from which the end of Shell.run leaves the shell calm.
Settled(s) ==
  /\ DOMAIN s = Fields /\ (Bounded(s) => Typed(s)) /\ ~s.fault /\ ~s.infer
  /\ s.accepted \/ (Steady(s) /\ Follows(s) /\ (Live(s) \/ (s.hpos = -1 /\ ~s.skip)))

\* A name for every source and an index in range: Current panics nowhere.
LEMMA NamedCurrent ==
  ASSUME NEW s, Named(s)
  PROVE  HasCurrent(s) /\ Indexable(s)
  <1>1. s.sourcePos \in 0 .. Len(s.names) - 1 /\ s.sourcePos + 1 \in 1 .. Len(s.names)
    BY DEF Named
  <1>2. Name(s) \in DOMAIN s.list
    BY <1>1 DEF Named, Name
  <1> QED
    BY <1>1, <1>2 DEF HasCurrent, Indexable

\* The end of Shell.run saves the line.
LEMMA SettledRun ==
  ASSUME NEW cmd, NEW s, Settled(s), Run(cmd, s), Held, Named(h')
  PROVE  ~h'.fault /\ ~h'.infer /\ (reading' => Live(h') /\ Held')
  <1> DEFINE c == [s EXCEPT !.pos = CheckAppend(s.line, s.pos)]
  <1>1. DOMAIN s = Fields /\ (Bounded(s) => Typed(s) /\ (s.fault => OnLine(s))) /\ ~s.fault /\ ~s.infer
    BY DEF Settled
  <1>2. Ok(h') /\ Only(s, h', Saving \cup {"pos"}) /\ reading' = ~s.accepted
    BY <1>1, RunKeeps
  <1>3. h'.fault = s.fault /\ h'.infer = s.infer /\ h'.list = s.list
    BY <1>2 DEF Only, Fields, Saving
  <1>4. ASSUME ~s.accepted PROVE Live(h') /\ Held'
    <2>1. h' = SaveState(c)
      BY <1>1, <1>4 DEF Run, Step
    <2>2. Only(s, c, {"pos"}) /\ c.pos = CheckAppend(s.line, s.pos)
      BY <1>1 DEF Only, Fields
    <2>3. Typed(s) /\ Bounded(s)
      BY <1>1, <1>2, <1>3 DEF Ok, Bounded
    <2> HIDE DEF c
    <2>4. Ok(c)
      <3>1. s.line \in Line /\ s.pos \in Int
        BY <2>3 DEF Typed, TypedMoving
      <3>2. c.pos \in 0 .. Len(s.line) /\ c.pos \in Int
        BY <2>2, <3>1, CheckAppendRange
      <3>3. /\ c.lines = s.lines /\ c.cpos = s.cpos /\ c.hpos = s.hpos
            /\ c.acceptLine = s.acceptLine /\ c.line = s.line
        BY <2>2 DEF Only, Fields
      <3>4. TypedMoving(c) /\ OnLine(c)
        BY <2>3, <3>2, <3>3 DEF Typed, TypedMoving, OnLine
      <3>5. Only(s, c, Moving)
        BY <2>2, OnlyMore DEF Moving
      <3> QED
        BY <2>3, <3>4, <3>5, MovingTyped DEF Ok
    <2>5. c.hpos = s.hpos /\ c.skip = s.skip
      BY <2>2 DEF Only, Fields
    <2>6. Only(s, c, Saving \cup {"line", "pos", "cpos"}) /\ Only(s, c, Placing \ {"hpos"})
      BY <2>2, OnlyMore DEF Saving, Placing
    <2>7. Steady(c) /\ (Live(c) \/ (c.hpos = -1 /\ ~c.skip))
      BY <1>4, <2>5, <2>6, SavingSteady, EditLive DEF Settled
    <2>8. Live(h')
      BY <2>1, <2>4, <2>7, SaveStateLive
    <2>9. Name(c) = Name(h) /\ (c.hpos # -1 => Input(c) = typed.line)
      BY <1>4, <2>2, <2>5, SameMain DEF Settled, Follows
    <2>10. Name(h') = Name(h) /\ h'.hpos = c.hpos
      <3>1. Only(c, h', Saving) /\ Only(c, h', Moving)
        BY <2>1, <2>4, SaveStateOnly, OnlyMore DEF Ok, Typed, Moving
      <3>2. Name(h') = Name(c)
        BY <3>1, SameCurrent
      <3> QED
        BY <2>9, <3>1, <3>2 DEF Only, Fields, Saving
    <2>11. CASE c.hpos = -1
      <3>1. HasCurrent(h') /\ Indexable(h')
        BY NamedCurrent
      <3>2. typed' = [line |-> h'.line, source |-> Name(h')]
        BY <2>10, <2>11, <3>1 DEF Run, Step
      <3> QED
        BY <2>8, <2>10, <2>11, <3>2 DEF Held, Holds, Name
    <2>12. CASE c.hpos # -1
      <3>1. typed' = typed
        BY <2>10, <2>12 DEF Run, Step
      <3>2. Main(h') = Main(c)
        BY <2>1, <2>4, <2>7, <2>12, SaveStateMain
      <3>3. Input(h') = typed.line
        BY <2>9, <2>12, <3>2 DEF Input
      <3> QED
        BY <2>8, <2>10, <2>12, <3>1, <3>3 DEF Held, Holds, Name, Input, Main
    <2> QED
      BY <2>11, <2>12
  <1> QED
    BY <1>1, <1>2, <1>3, <1>4

\* A command that moves and leaves the shell live.
LEMMA LiveSettled ==
  ASSUME Calm, NEW s, Typed(s), Only(h, s, Moving), Live(s), Follows(s)
  PROVE  Settled(s)
  <1>1. s.infer = h.infer
    BY DEF Only, Fields, Moving, Saving
  <1> QED
    BY <1>1 DEF Settled, Calm, Typed, Live, Steady

\* A run of some command that leaves the shell settled.
Settles == \E cmd, s : Run(cmd, s) /\ Settled(s)

\* A command that leaves the shell live.
LEMMA LiveSettles ==
  ASSUME Calm, NEW cmd, NEW s, Ok(s), Only(h, s, Moving), Live(s), Follows(s), Run(cmd, s)
  PROVE  Settles
  BY LiveSettled DEF Settles, Ok

\* A save and the skip flag change neither the line nor what is remembered.
LEMMA SaveHolds ==
  ASSUME NEW s, Ok(s), Live(s), NEW l
  PROVE  LET t == SaveState(s)
         IN  /\ Name(t) = Name(s) /\ t.hpos = s.hpos
             /\ Holds(s, l) => Holds(t, l) /\ (t.hpos # -1 => Input(t) = l)
  <1> DEFINE t == SaveState(s)
  <1>1. Only(s, t, Saving) /\ Only(s, t, Moving)
    BY SaveStateOnly, OnlyMore DEF Ok, Typed, Moving
  <1>2. s.hpos # -1 => Main(t) = Main(s)
    BY SaveStateMain DEF Live
  <1> HIDE DEF t
  <1>3. Name(t) = Name(s) /\ t.hpos = s.hpos /\ t.line = s.line
    BY <1>1, SameCurrent DEF Only, Fields, Saving
  <1>4. Holds(s, l) => Holds(t, l) /\ (t.hpos # -1 => Input(t) = l)
    BY <1>2, <1>3 DEF Holds, Input
  <1> QED
    BY <1>3, <1>4 DEF t

\* The skip flag.
LEMMA SkipHolds ==
  ASSUME NEW s, Ok(s), NEW l
  PROVE  LET t == Skip(s)
         IN  /\ Name(t) = Name(s) /\ t.hpos = s.hpos
             /\ Holds(s, l) => Holds(t, l) /\ (t.hpos # -1 => Input(t) = l)
  <1> DEFINE t == Skip(s)
  <1>1. Only(s, t, {"skip"})
    BY DEF Only, Fields, Ok, Typed, Skip
  <1> HIDE DEF t
  <1>2. Name(t) = Name(s) /\ t.hpos = s.hpos /\ t.line = s.line /\ Input(t) = Input(s)
    <2>1. t.hpos = s.hpos /\ t.line = s.line
      BY <1>1 DEF Only, Fields
    <2>2. Name(t) = Name(s) /\ Input(t) = Input(s)
      BY <1>1, SameMain
    <2> QED
      BY <2>1, <2>2
  <1>3. Holds(s, l) => Holds(t, l) /\ (t.hpos # -1 => Input(t) = l)
    BY <1>2 DEF Holds
  <1> QED
    BY <1>2, <1>3 DEF t

\* Edits of the line touch neither the position nor the saved lines.
LEMMA EditSettles ==
  ASSUME Calm, reading, Edit
  PROVE  Settles
  <1>0. /\ Ok(h) /\ Live(h) /\ h.line \in Line /\ h.pos \in Int
        /\ h.pos \in 0 .. Len(h.line)
    BY DEF Calm, IInv, Ok, Typed, TypedMoving, OnLine
  <1>h. h.hpos # -1 => Input(h) = typed.line
    BY DEF Calm, Held, Holds
  <1>1. ASSUME NEW k, Ok(k), Live(k), Only(h, k, Moving), NEW s, NEW cmd, Run(cmd, s),
               Only(k, s, {"line", "pos"}), s.line \in Line, s.pos \in Int, Follows(k)
        PROVE  Settles
    <2>1. Typed(s) /\ Only(k, s, Moving)
      BY <1>1, EditTyped
    <2>4. Follows(s)
      <3>1. Name(s) = Name(k) /\ Input(s) = Input(k)
        BY <1>1, SameMain
      <3>2. s.hpos = k.hpos
        BY <1>1 DEF Only, Fields
      <3> QED
        BY <1>1, <3>1, <3>2 DEF Follows
    <2>2. Live(s)
      BY <1>1, OnlyMore, EditLive DEF Placing
    <2>3. Only(h, s, Moving)
      BY <1>1, <2>1, OnlyTrans
    <2> QED
      BY <1>1, <2>1, <2>2, <2>3, <2>4, LiveSettled DEF Settles
  <1>2. /\ Ok(Skip(h)) /\ Live(Skip(h)) /\ Only(h, Skip(h), Moving)
        /\ Skip(h).line = h.line /\ Skip(h).pos = h.pos /\ Follows(Skip(h))
    <2>1. /\ Ok(Skip(h)) /\ Live(Skip(h)) /\ Only(h, Skip(h), Moving)
          /\ Skip(h).line = h.line /\ Skip(h).pos = h.pos
      BY <1>0, SkipCommand, SkippingLive DEF Skip
    <2> QED
      BY <1>0, <2>1, SkipHolds DEF Calm, Held, Follows
  <1>3. ASSUME NEW ch \in Char, selfInsert(ch) PROVE Settles
    <2> DEFINE k == Skip(h)
               s == [k EXCEPT !.line = Insert(@, h.pos, <<ch>>), !.pos = @ + 1]
    <2>1. Run("self-insert", s)
      BY <1>3 DEF selfInsert
    <2>2. /\ Ok(k) /\ Live(k) /\ Only(h, k, Moving) /\ Follows(k)
          /\ k.line = h.line /\ k.pos = h.pos
      BY <1>2
    <2> HIDE DEF k
    <2>3. /\ Only(k, s, {"line", "pos"}) /\ s.line = Insert(h.line, h.pos, <<ch>>)
          /\ s.pos = h.pos + 1
      BY <2>2 DEF Only, Fields, Ok, Typed
    <2>4. Insert(h.line, h.pos, <<ch>>) \in Line /\ h.pos + 1 \in Int
      BY <1>0, InsertType
    <2> HIDE DEF s
    <2> QED
      BY <1>1, <2>1, <2>2, <2>3, <2>4
  <1>4. ASSUME backwardChar PROVE Settles
    <2> DEFINE k == Skip(h)
               s == [k EXCEPT !.pos = Dec(@)]
    <2>1. Run("backward-char", s)
      BY <1>4 DEF backwardChar
    <2>2. /\ Ok(k) /\ Live(k) /\ Only(h, k, Moving) /\ Follows(k)
          /\ k.line = h.line /\ k.pos = h.pos
      BY <1>2
    <2> HIDE DEF k
    <2>3. Only(k, s, {"line", "pos"}) /\ s.line = h.line /\ s.pos = Dec(h.pos)
      BY <2>2 DEF Only, Fields, Ok, Typed
    <2>4. Dec(h.pos) \in Int
      BY <1>0 DEF Dec
    <2> HIDE DEF s
    <2> QED
      BY <1>0, <1>1, <2>1, <2>2, <2>3, <2>4
  <1>5. ASSUME killWholeLine PROVE Settles
    <2> DEFINE k == SaveState(h)
               s == [k EXCEPT !.line = << >>]
    <2>1. Run("kill-whole-line", s)
      BY <1>5 DEF killWholeLine
    <2>2. Ok(k) /\ Live(k) /\ Only(h, k, Moving) /\ Follows(k)
      BY <1>0, SaveCommand, SaveStateLive, SaveHolds DEF Live, Calm, Held, Follows
    <2> HIDE DEF k
    <2>3. Only(k, s, {"line", "pos"}) /\ s.line = << >> /\ s.pos = k.pos
      BY <2>2 DEF Only, Fields, Ok, Typed
    <2>4. s.line \in Line /\ s.pos \in Int
      BY <2>2, <2>3 DEF Ok, Typed, TypedMoving, Line
    <2> HIDE DEF s
    <2> QED
      BY <1>1, <2>1, <2>2, <2>3, <2>4
  <1>6. ASSUME undoLast PROVE Settles
    <2> DEFINE s == UndoState(h)
               F == Saving \cup {"line", "pos"}
    <2>1. Only(h, s, Moving) /\ Only(h, s, F)
      BY <1>0, UndoStateOnly, OnlyMore DEF Ok, Typed, Moving
    <2>2. h.hpos # -1 => Main(s) = Main(h)
      BY <1>0, UndoStateMain DEF Live
    <2>3. Ok(s) /\ Live(s) /\ Run("undo", s)
      BY <1>0, <1>6, UndoStateTyped, UndoStateLive DEF undoLast
    <2> HIDE DEF s
    <2>4. Name(s) = Name(h) /\ s.hpos = h.hpos
      BY <2>1, SameCurrent DEF Only, Fields, Saving
    <2>5. Follows(s)
      BY <1>h, <2>2, <2>4 DEF Follows, Input
    <2> QED
      BY <2>1, <2>3, <2>5, LiveSettles
  <1>7. ASSUME revertLine PROVE Settles
    <2> DEFINE s == RevertState(h)
    <2>1. Ok(s) /\ Only(h, s, Moving)
      BY <1>0, RevertStateTyped, RevertStateOnly, OnlyMore DEF Ok, Typed, Moving
    <2>2. Steady(s) /\ (Live(s) \/ (s.hpos = -1 /\ ~s.skip))
      BY <1>0, RevertStateSteady
    <2>3. Run("revert-line", s)
      BY <1>7 DEF revertLine
    <2>6. h.hpos # -1 => Main(s) = Main(h)
      BY <1>0, RevertStateMain DEF Live
    <2>7. Only(h, s, Saving \cup {"line", "pos"})
      BY <1>0, RevertStateOnly DEF Ok, Typed
    <2> HIDE DEF s
    <2>4. s.infer = h.infer
      BY <2>1 DEF Only, Fields, Moving, Saving
    <2>8. Name(s) = Name(h) /\ s.hpos = h.hpos
      BY <2>1, <2>7, SameCurrent DEF Only, Fields, Saving
    <2>9. Follows(s)
      BY <1>h, <2>6, <2>8 DEF Follows, Input
    <2>5. Settled(s)
      BY <2>1, <2>2, <2>4, <2>9 DEF Settled, Calm, Ok, Typed, Steady
    <2> QED
      BY <2>3, <2>5 DEF Settles
  <1> QED
    BY <1>3, <1>4, <1>5, <1>6, <1>7 DEF Edit

\* Moves through the lines from a live struct leave a live one.
LEMMA WalkSettles ==
  ASSUME Calm, NEW s, Ok(s), Live(s), Only(h, s, Moving), Holds(s, typed.line), NEW n \in Int, NEW cmd,
         Run(cmd, Walk(s, n))
  PROVE  Settles
  <1> DEFINE t == Walk(s, n)
  <1>1. Ok(t) /\ Live(t) /\ Only(h, t, Moving)
    BY WalkCommand, WalkLive, OnlyTrans
  <1>2. Name(t) = Name(s) /\ (t.hpos # -1 => Input(t) = typed.line)
    BY WalkHolds
  <1>3. Name(s) = Name(h)
    BY SameCurrent
  <1> HIDE DEF t
  <1> QED
    BY <1>1, <1>2, <1>3, LiveSettles DEF t, Follows

\* A backward search from a live struct leaves a live one.
LEMMA SearchSettles ==
  ASSUME Calm, NEW s, Ok(s), Live(s), Only(h, s, Moving), Holds(s, typed.line), NEW given, NEW regex, NEW cmd,
         Run(cmd, InsertMatch(s, given, TRUE, FALSE, regex))
  PROVE  Settles
  <1> DEFINE t == InsertMatch(s, given, TRUE, FALSE, regex)
  <1>1. Ok(t) /\ Live(t) /\ Only(h, t, Moving)
    BY MatchCommand, InsertMatchLive, OnlyTrans
  <1>2. Name(t) = Name(s) /\ (t.hpos # -1 => Input(t) = typed.line)
    BY InsertMatchHolds
  <1>3. Name(s) = Name(h)
    BY SameCurrent
  <1> HIDE DEF t
  <1> QED
    BY <1>1, <1>2, <1>3, LiveSettles DEF t, Follows

\* A line that is written to the sources makes none of them shorter.
LEMMA WroteLonger ==
  ASSUME NEW s, NEW t, Wrote(s, t), NEW n \in DOMAIN s.list, s.list[n] \in Seq(Line),
         t.list[n] \in Seq(Line)
  PROVE  Len(s.list[n]) <= Len(t.list[n])
  <1>1. t.list[n] = s.list[n] \/ Front(t.list[n]) = s.list[n]
    BY DEF Wrote, Appended
  <1> DEFINE q == t.list[n]
  <1>2. Len(Front(q)) <= Len(q)
    <2> HIDE DEF q
    <2>1. q \in Seq(Line)
      BY DEF q
    <2>2. CASE Len(q) = 0
      BY <2>1, <2>2 DEF Front
    <2>3. CASE Len(q) # 0
      BY <2>1, <2>3 DEF Front
    <2> QED
      BY <2>2, <2>3
  <1>3. Len(q) \in Nat
    OBVIOUS
  <1> HIDE DEF q
  <1> QED
    BY <1>1, <1>2, <1>3 DEF q

\* save-line: the active source may be longer afterwards.
LEMMA SaveLineSettles ==
  ASSUME Calm, reading, saveLine
  PROVE  Settles
  <1>0. Ok(h) /\ Live(h) /\ DOMAIN h = Fields /\ TypedSources(h) /\ h.line \in Line
    BY DEF Calm, IInv, Ok, Typed, TypedMoving
  <1>1. PICK s \in Write(h, FALSE) : Run("save-line", RevertState(s))
    BY DEF saveLine
  <1>2. Only(h, s, {"list", "infer"}) /\ TypedSources(s) /\ Wrote(h, s) /\ s.infer = h.infer
    BY <1>0, WriteFacts
  <1>3. /\ DOMAIN s = Fields /\ s.lines = h.lines /\ s.cpos = h.cpos /\ s.hpos = h.hpos
        /\ s.acceptLine = h.acceptLine /\ s.line = h.line /\ s.pos = h.pos
        /\ s.names = h.names /\ s.sourcePos = h.sourcePos /\ s.accepted = h.accepted
        /\ s.fault = h.fault
    BY <1>2 DEF Only, Fields
  <1>4. Typed(s) /\ OnLine(s)
    BY <1>0, <1>2, <1>3 DEF Ok, Typed, TypedMoving, OnLine
  <1>5. Live(s)
    <2>1. Name(s) = Name(h) /\ Name(h) \in DOMAIN h.list /\ DOMAIN s.list = DOMAIN h.list
      BY <1>0, <1>2, <1>3 DEF Live, Steady, HasCurrent, Name, Wrote
    <2>2. Current(h) \in Seq(Line) /\ Current(s) \in Seq(Line)
      BY <1>0, <1>2, <2>1 DEF TypedSources, Current
    <2>3. Len(Current(h)) <= Len(Current(s))
      BY <1>2, <2>1, <2>2, WroteLonger DEF Current
    <2>4. s.hpos \in -1 .. Len(Current(s))
      BY <1>0, <1>3, <2>2, <2>3 DEF Live, Steady
    <2> QED
      BY <1>0, <1>3, <2>1, <2>4 DEF Live, Steady, HasCurrent
  <1> DEFINE t == RevertState(s)
  <1>6. Only(s, t, Saving \cup {"line", "pos"}) /\ DOMAIN t = Fields
    BY <1>3, RevertStateOnly DEF Only
  <1>7. Bounded(s) => /\ Ok(t) /\ Steady(t) /\ (Live(t) \/ (t.hpos = -1 /\ ~t.skip))
                      /\ s.hpos # -1 => Main(t) = Main(s)
    BY <1>4, <1>5, RevertStateTyped, RevertStateSteady, RevertStateMain DEF Ok, Live
  <1> HIDE DEF t
  <1>8. t.list = s.list /\ t.infer = s.infer /\ t.accepted = s.accepted
    BY <1>6 DEF Only, Fields, Saving
  <1>9. Bounded(s)
    <2>1. DOMAIN t = Fields /\ (Bounded(t) => Typed(t) /\ (t.fault => OnLine(t)))
      BY <1>6, <1>7, <1>8 DEF Bounded, Ok
    <2>2. Ok(h') /\ Only(t, h', Saving \cup {"pos"})
      BY <1>1, <2>1, RunKeeps DEF t
    <2>3. h'.list = t.list
      BY <2>2 DEF Only, Fields, Saving
    <2> QED
      BY <1>8, <2>2, <2>3 DEF Ok, Bounded
  <1>11. Follows(t)
    <2>1. t.hpos = h.hpos /\ t.names = h.names /\ t.sourcePos = h.sourcePos
      BY <1>3, <1>6 DEF Only, Fields, Saving
    <2>2. h.hpos # -1 => Main(t) = Main(h)
      BY <1>3, <1>7, <1>9, <2>1 DEF Main, Name
    <2>3. h.hpos # -1 => Input(h) = typed.line
      BY DEF Calm, Held, Holds
    <2> QED
      BY <2>1, <2>2, <2>3 DEF Follows, Input, Name
  <1>10. Settled(t)
    BY <1>2, <1>6, <1>7, <1>8, <1>9, <1>11 DEF Settled, Calm, Ok, Steady
  <1> QED
    BY <1>1, <1>10 DEF Settles, t

\* The moves that Quiet allows.
LEMMA MoveSettles ==
  ASSUME Quiet, Calm, reading, Move
  PROVE  Settles
  <1> DEFINE saved == SaveState(h)
             skipped == Skip(h)
             skipSaved == SaveState(skipped)
             len == Len(Current(h))
             l == typed.line
  <1>0. /\ Ok(h) /\ Live(h) /\ h.line \in Line /\ Only(h, h, Moving)
        /\ Holds(h, l) /\ (h.hpos # -1 => Input(h) = l)
    BY DEF Calm, IInv, Ok, Typed, TypedMoving, Only, Held, Holds
  <1>1. Ok(saved) /\ Live(saved) /\ Only(h, saved, Moving) /\ Holds(saved, l)
    BY <1>0, SaveCommand, SaveStateLive, SaveHolds DEF Live
  <1>2. Ok(skipped) /\ Live(skipped) /\ Only(h, skipped, Moving) /\ Holds(skipped, l)
    BY <1>0, SkipCommand, SkippingLive, SkipHolds DEF Skip
  <1>3. Ok(skipSaved) /\ Live(skipSaved) /\ Only(h, skipSaved, Moving) /\ Holds(skipSaved, l)
    <2> HIDE DEF skipped
    <2> QED
      BY <1>2, SaveCommand, SaveStateLive, SaveHolds, OnlyTrans DEF Live
  <1>4. len \in Int /\ 1 - len \in Int /\ HasCurrent(h)
    BY <1>0, CurrentTyped DEF Ok, Live, Steady
  <1> HIDE DEF saved, skipped, skipSaved, len, l
  <1>5. ASSUME upHistory PROVE Settles
    BY <1>1, <1>5, WalkSettles DEF upHistory, saved, l
  <1>6. ASSUME downHistory PROVE Settles
    BY <1>1, <1>6, WalkSettles DEF downHistory, saved, l
  <1>7. ASSUME beginningOfHistory PROVE Settles
    <2>1. Run("beginning-of-history", Walk(skipped, len))
      BY <1>4, <1>7 DEF beginningOfHistory, skipped, len
    <2> QED
      BY <1>2, <1>4, <2>1, WalkSettles DEF l
  <1>8. ASSUME endOfHistory PROVE Settles
    <2>1. Run("end-of-history", Walk(h, 1 - len))
      BY <1>4, <1>8 DEF endOfHistory, len
    <2> QED
      BY <1>0, <1>4, <2>1, WalkSettles DEF l
  <1>9. ASSUME NEW times \in 1 .. MaxTimes, upLineOrHistory(times) \/ downLineOrHistory(times)
        PROVE  Settles
    <2>1. times \in Int /\ -times \in Int
      BY HistoryBounds
    <2> QED
      BY <1>0, <1>9, <2>1, WalkSettles DEF upLineOrHistory, downLineOrHistory, l
  <1>10. ASSUME NEW i \in 0 .. MaxHist, fetchHistory(i) PROVE Settles
    <2> DEFINE s == Fetch(h, i)
    <2>1. Ok(s) /\ Only(h, s, Moving) /\ Live(s)
      BY <1>0, FetchTyped, FetchOnly, FetchLive DEF Ok, Typed
    <2>2. Run("fetch-history", s)
      BY <1>10 DEF fetchHistory
    <2>3. Only(h, s, {"line", "pos", "cpos"})
      BY <1>0, CursorMatchOnly DEF Fetch, Ok, Typed, Only
    <2> HIDE DEF s
    <2>4. Follows(s)
      <3>1. s.hpos = h.hpos
        BY <2>3 DEF Only, Fields
      <3>2. Name(s) = Name(h) /\ Input(s) = Input(h)
        BY <2>3, SameMain
      <3> QED
        BY <1>0, <3>1, <3>2 DEF Follows, l
    <2> QED
      BY <2>1, <2>2, <2>4, LiveSettles
  <1>11. ~historySearchForward /\ ~historySubstringSearchForward /\ ~inferNextHistory
         /\ ~historySourceNext /\ ~historySourcePrev
    BY DEF historySearchForward, historySubstringSearchForward, inferNextHistory,
           historySourceNext, historySourcePrev, Run, Step, Quiet
  <1>12. ASSUME historySearchBackward PROVE Settles
    BY <1>1, <1>12, SearchSettles DEF historySearchBackward, saved, l
  <1>13. ASSUME historySubstringSearchBackward PROVE Settles
    BY <1>0, <1>13, SearchSettles DEF historySubstringSearchBackward, l
  <1>14. ASSUME upLineOrSearch PROVE Settles
    BY <1>3, <1>14, SearchSettles DEF upLineOrSearch, skipSaved, skipped, l
  <1>15. ASSUME autosuggestAccept PROVE Settles
    <2> DEFINE g == Suggest(h, h.line)
               s == SetLine(h, g, Len(g))
    <2>1. g \in Line /\ Len(g) \in Int
      BY <1>0, SuggestTyped DEF Line
    <2>2. Run("autosuggest-accept", IF Len(g) <= Len(h.line) THEN h ELSE s)
      BY <1>15 DEF autosuggestAccept
    <2> HIDE DEF g
    <2>3. Ok(s) /\ Only(h, s, Moving) /\ Live(s) /\ Only(h, s, {"line", "pos"})
      BY <1>0, <2>1, SetLineTyped, SetLineOnly, SetLineLive, OnlyMore DEF Ok, Typed, Moving
    <2> HIDE DEF s
    <2>4. Follows(s) /\ Follows(h)
      <3>1. s.hpos = h.hpos
        BY <2>3 DEF Only, Fields
      <3>2. Name(s) = Name(h) /\ Input(s) = Input(h)
        BY <2>3, SameMain
      <3> QED
        BY <1>0, <3>1, <3>2 DEF Follows, l
    <2> QED
      BY <1>0, <2>2, <2>3, <2>4, LiveSettles
  <1> QED
    BY <1>5, <1>6, <1>7, <1>8, <1>9, <1>10, <1>11, <1>12, <1>13, <1>14, <1>15,
       SaveLineSettles DEF Move

\* A line that is accepted ends the loop, and asks for no inference.
LEMMA ReturnSettles ==
  ASSUME Quiet, Calm, reading, Return
  PROVE  Settles
  <1>0. Ok(h) /\ Live(h) /\ h.line \in Line /\ Only(h, h, Moving)
    BY DEF Calm, IInv, Ok, Typed, TypedMoving, Only
  <1>1. ASSUME NEW cmd, NEW r, Ok(r), ~r.fault, ~r.infer, NEW hold, NEW failed,
               \E s \in Accept(r, hold, FALSE, failed) : Run(cmd, s)
        PROVE  Settles
    <2>1. PICK s \in Accept(r, hold, FALSE, failed) : Run(cmd, s)
      BY <1>1
    <2>2. DOMAIN r = Fields /\ TypedSources(r) /\ r.line \in Line
      BY <1>1 DEF Ok, Typed, TypedMoving
    <2>3. Only(r, s, Accepting) /\ TypedSources(s) /\ Taken(r, s, hold, FALSE)
      BY <2>1, <2>2, AcceptFacts
    <2>4. /\ DOMAIN s = Fields /\ s.lines = r.lines /\ s.cpos = r.cpos /\ s.hpos = r.hpos
          /\ s.line = r.line /\ s.pos = r.pos /\ s.fault = r.fault
      BY <2>3 DEF Only, Fields, Accepting
    <2>5. s.accepted = TRUE /\ s.infer = r.infer /\ s.acceptLine = r.line
      BY <2>3 DEF Taken
    <2>6. Typed(s)
      BY <1>1, <2>2, <2>3, <2>4, <2>5 DEF Ok, Typed, TypedMoving
    <2>7. Settled(s)
      BY <1>1, <2>4, <2>5, <2>6 DEF Settled
    <2> QED
      BY <2>1, <2>7 DEF Settles
  <1>2. ~h.fault /\ ~h.infer
    BY DEF Calm
  <1>3. ASSUME acceptLine PROVE Settles
    BY <1>0, <1>1, <1>2, <1>3 DEF acceptLine
  <1>4. ASSUME acceptAndHold PROVE Settles
    BY <1>0, <1>1, <1>2, <1>4 DEF acceptAndHold
  <1>5. ~acceptLineAndDownHistory
    BY DEF acceptLineAndDownHistory, Run, Step, Quiet
  <1>6. ASSUME abort PROVE Settles
    BY <1>0, <1>1, <1>2, <1>6 DEF abort
  <1>7. ASSUME autosuggestExecute PROVE Settles
    <2> DEFINE l == Suggest(h, h.line)
               r == SetLine(h, l, Len(l))
    <2>1. l \in Line /\ Len(l) \in Int
      BY <1>0, SuggestTyped DEF Line
    <2>2. \/ Run("autosuggest-execute", h)
          \/ \E s \in Accept(r, FALSE, FALSE, FALSE) : Run("autosuggest-execute", s)
      BY <1>7 DEF autosuggestExecute
    <2> HIDE DEF l
    <2>3. Ok(r) /\ Only(h, r, {"line", "pos"})
      BY <1>0, <2>1, SetLineTyped, SetLineOnly DEF Ok, Typed
    <2> HIDE DEF r
    <2>4. ~r.fault /\ ~r.infer
      BY <1>2, <2>3 DEF Only, Fields
    <2>5. CASE Run("autosuggest-execute", h)
      BY <1>0, <2>5, LiveSettles DEF Follows, Calm, Held, Holds
    <2>6. CASE \E s \in Accept(r, FALSE, FALSE, FALSE) : Run("autosuggest-execute", s)
      BY <1>1, <2>3, <2>4, <2>6
    <2> QED
      BY <2>2, <2>5, <2>6
  <1> QED
    BY <1>3, <1>4, <1>5, <1>6, <1>7 DEF Return

\* The shell starts calm.
LEMMA InitCalm ==
  ASSUME Quiet, Init
  PROVE  Calm
  <1>1. IInv /\ Named(h) /\ ~reading
    BY InitIInv, InitNamed DEF Quiet, Init
  <1>2. ~h.fault /\ ~h.infer
    <2>1. PICK f : Built(f)
      BY FirstSourcesBuilt
    <2> DEFINE T == {i \in Nat : Ok(f[i]) /\ f[i].fault = FALSE /\ f[i].infer = FALSE}
    <2>2. 0 \in T
      <3>1. NewSources.fault = FALSE
        BY DEF NewSources
      <3> QED
        BY <2>1, <3>1, NewSourcesOk DEF Built
    <2>3. ASSUME NEW i \in 1 .. Len(Initial), i - 1 \in T PROVE i \in T
      <3> DEFINE s == f[i - 1]
                 t == AddSource(s, Initial[i])
      <3>1. Initial[i] \in Added /\ i \in Nat
        BY HistoryBounds
      <3>2. f[i] = t
        BY <2>1 DEF Built
      <3>3. Ok(s) /\ s.fault = FALSE /\ s.infer = FALSE
        BY <2>3
      <3> HIDE DEF s
      <3>4. Ok(t) /\ Only(s, t, Listing)
        BY <3>1, <3>3, AddSourceTyped
      <3> HIDE DEF t
      <3>5. t.fault = s.fault /\ t.infer = s.infer
        BY <3>4 DEF Only, Fields, Listing
      <3> QED
        BY <3>1, <3>2, <3>3, <3>4, <3>5
    <2>4. Len(Initial) \in T
      <3> HIDE DEF T
      <3> QED
        BY <2>1, <2>2, <2>3, FirstSourcesIn
    <2> QED
      BY <2>1, <2>4 DEF Built, Init
  <1> QED
    BY <1>1, <1>2 DEF Calm

\* Every step that Quiet allows leaves it calm.
LEMMA NextCalm ==
  ASSUME Quiet, Calm, [Next]_vars
  PROVE  Calm'
  <1>0. IInv' /\ Named(h')
    BY NextIInv, NextNamed DEF Calm, Quiet
  <1>1. CASE UNCHANGED vars
    BY <1>0, <1>1 DEF vars, Calm, Held, Holds, Input, Main, Name
  <1>2. CASE Edit \/ Move \/ Return
    <2>1. reading
      <3>1. IInv /\ ~h.fault
        BY DEF Calm
      <3>2. Commands
        BY <1>2, <3>1, StepsAreCommands
      <3> QED
        BY <3>2 DEF Commands, Run
    <2>2. Settles
      BY <1>2, <2>1, EditSettles, MoveSettles, ReturnSettles
    <2>3. ~h'.fault /\ ~h'.infer /\ (reading' => Live(h') /\ Held')
      BY <1>0, <2>1, <2>2, SettledRun DEF Settles, Calm
    <2> QED
      BY <1>0, <2>3 DEF Calm
  <1>3. CASE Readline
    <2> DEFINE z == Start(h)
    <2>1. Ok(h) /\ HasCurrent(h) /\ Indexable(h) /\ ~h.fault /\ ~h.infer
      BY NamedCurrent DEF Calm, IInv
    <2>2. h' = InitLoop(h)
      BY <1>3, <2>1 DEF Readline, Step
    <2>3. /\ Ok(z) /\ InitLoop(h) = SaveState(z)
          /\ ~InitLoop(h).infer
      BY <2>1, InitLoopFacts
    <2>4. Steady(z) /\ z.hpos = -1 /\ ~z.skip
      BY <2>1, StartSteady
    <2> HIDE DEF z
    <2>5. Live(h')
      BY <2>2, <2>3, <2>4, SaveStateLive
    <2>6. ~h'.fault
      BY <2>5 DEF Live, Steady
    <2>7. h'.hpos = -1
      <3>1. Only(z, h', Saving)
        BY <2>2, <2>3, SaveStateOnly DEF Ok, Typed
      <3> QED
        BY <2>4, <3>1 DEF Only, Fields, Saving
    <2>8. Held'
      <3>1. HasCurrent(h') /\ Indexable(h')
        BY <1>0, NamedCurrent
      <3>2. typed' = [line |-> h'.line, source |-> Name(h')]
        BY <1>3, <2>1, <2>2, <2>7, <3>1 DEF Readline, Step
      <3> QED
        BY <2>7, <3>2 DEF Held, Holds, Name
    <2> QED
      BY <1>0, <2>2, <2>3, <2>5, <2>6, <2>8 DEF Calm
  <1>4. CASE (\E n \in Added : Add(n) \/ Delete1(n)) \/ DeleteAllSources
    <2>1. /\ reading' = FALSE
          /\ \/ \E n \in Added : h' = AddSource(h, n)
             \/ \E n \in Added : h' = DeleteSource(h, n)
             \/ h' = DeleteAll(h)
      BY <1>4 DEF Add, Delete1, DeleteAllSources, Step
    <2>2. Only(h, h', Listing)
      BY <2>1, AddSourceTyped, DeleteSourceTyped, DeleteAllTyped DEF Calm, IInv
    <2>3. h'.fault = h.fault /\ h'.infer = h.infer
      BY <2>2 DEF Only, Fields, Listing
    <2> QED
      BY <1>0, <2>1, <2>3 DEF Calm
  <1> QED
    BY <1>1, <1>2, <1>3, <1>4 DEF Next, Application

\* No command indexes a source, or the list of sources, out of range, however
\* long the sources are and whatever the application adds and deletes between
\* two loops, as long as the commands that Quiet names are not bound
\* (Sources.Walk, Sources.InsertMatch, memory.GetLine).
THEOREM NothingFaults ==
  ASSUME Quiet
  PROVE  Spec => []NoFault
  <1>1. Init => Calm
    BY InitCalm
  <1>2. Calm /\ [Next]_vars => Calm'
    BY NextCalm
  <1>3. Calm => NoFault
    BY DEF Calm, NoFault
  <1> QED
    BY <1>1, <1>2, <1>3, PTL DEF Spec

\* A walk down that shows the input line again, run as a command.
LEMMA WalkRuns ==
  ASSUME Calm, reading, h.hpos > 0, h'.hpos = -1, NEW s, Ok(s), Live(s),
         s.hpos = h.hpos, Holds(s, typed.line),
         NEW n \in Int, h.hpos + n >= -1, NEW cmd, Run(cmd, Walk(s, n))
  PROVE  h'.line = typed.line
  <1> DEFINE t == Walk(s, n)
  <1>1. Ok(t) /\ DOMAIN t = Fields
    BY WalkTyped DEF Ok, Typed
  <1>2. s.hpos > -1 /\ s.hpos \in Int
    BY DEF Ok, Typed, TypedMoving
  <1>3. t.hpos = -1 => t.line = typed.line
    BY <1>2, WalkHolds
  <1> HIDE DEF t
  <1>4. Only(t, h', Saving \cup {"pos"})
    BY <1>1, RunKeeps DEF t, Ok
  <1>5. h'.hpos = t.hpos /\ h'.line = t.line
    BY <1>4 DEF Only, Fields, Saving
  <1> QED
    BY <1>3, <1>5

\* Walking down past the newest line shows the input line as it was left,
\* through whatever lines were visited, edited, searched for and undone in
\* between, on sources of any length, as long as the commands that Quiet names
\* are not bound (Sources.Walk, Sources.restoreLineBuffer, Sources.Save).
THEOREM InputLineRestored ==
  ASSUME Quiet
  PROVE  Spec => WalkRestoresInput
  <1>1. Init => Calm
    BY InitCalm
  <1>2. Calm /\ [Next]_vars => Calm'
    BY NextCalm
  <1>3. ASSUME Calm, [Next]_vars, h.hpos > 0, h'.hpos = -1, WalkingDown
        PROVE  h'.line = typed.line
    <2> DEFINE saved == SaveState(h)
               len == Len(Current(h))
    <2>1. reading
      BY <1>3 DEF WalkingDown, downHistory, downLineOrHistory, endOfHistory, Run
    <2>2. Ok(h) /\ Live(h) /\ Holds(h, typed.line) /\ h.hpos \in Int
      BY <1>3, <2>1 DEF Calm, IInv, Held, Ok, Typed, TypedMoving
    <2>3. Ok(saved) /\ Live(saved) /\ saved.hpos = h.hpos /\ Holds(saved, typed.line)
      BY <2>2, SaveCommand, SaveStateLive, SaveHolds DEF Live
    <2>4. len \in Nat /\ HasCurrent(h)
      BY <2>2, CurrentTyped DEF Ok, Live, Steady
    <2> HIDE DEF saved
    <2>5. CASE downHistory
      <3>1. Run("next-history", Walk(saved, -1))
        BY <2>5 DEF downHistory, saved
      <3> QED
        BY <1>3, <2>1, <2>2, <2>3, <3>1, WalkRuns
    <2>6. ASSUME NEW times \in 1 .. MaxTimes, times <= h.hpos + 1, downLineOrHistory(times)
          PROVE  h'.line = typed.line
      <3>1. Run("down-line-or-history", Walk(h, -times))
        BY <2>6 DEF downLineOrHistory
      <3>2. -times \in Int /\ h.hpos + (-times) >= -1
        BY <2>2, <2>6, HistoryBounds
      <3> QED
        BY <1>3, <2>1, <2>2, <3>1, <3>2, WalkRuns
    <2>7. CASE len - 1 <= h.hpos + 1 /\ endOfHistory
      <3>1. Run("end-of-history", Walk(h, 1 - len))
        BY <2>4, <2>7 DEF endOfHistory
      <3>2. 1 - len \in Int /\ h.hpos + (1 - len) >= -1
        BY <2>2, <2>4, <2>7
      <3> HIDE DEF len
      <3> QED
        BY <1>3, <2>1, <2>2, <3>1, <3>2, WalkRuns
    <2> QED
      BY <1>3, <2>5, <2>6, <2>7 DEF WalkingDown
  <1>4. Calm /\ [Next]_vars =>
          [(h.hpos > 0 /\ h'.hpos = -1 /\ typed.source = Name(h) /\ WalkingDown)
             => h'.line = typed.line]_vars
    BY <1>3
  <1> QED
    BY <1>1, <1>2, <1>4, PTL DEF Spec, WalkRestoresInput

-----------------------------------------------------------------------------
(* The line after the one that was accepted                                *)

\* The line that a source shows at position p: as it was last edited, or as it
\* is in the source.
Shown(s, p) ==
  LET i  == Len(Current(s)) - p
      lh == s.lines[Name(s)][i]
  IN  IF lh.items = << >> THEN GetLine(s, i) ELSE LastItem(lh).line

\* Sources.setLineCursorMatch.
LEMMA CursorMatchLine ==
  ASSUME NEW s, DOMAIN s = Fields, NEW l
  PROVE  setLineCursorMatch(s, l).line = l /\ setLineCursorMatch(s, l).hpos = s.hpos
  <1> DEFINE c == IF s.cpos = -1 /\ Len(s.line) > 0 THEN s.pos ELSE s.cpos
             v == [s EXCEPT !.cpos = c]
             p == IF PreservePoint /\ Len(l) > c /\ c # -1 THEN c ELSE Len(l)
  <1>1. DOMAIN v = Fields /\ v.hpos = s.hpos
    BY DEF Fields
  <1>2. setLineCursorMatch(s, l) = SetLine(v, l, p)
    BY DEF setLineCursorMatch
  <1> HIDE DEF v, p
  <1> QED
    BY <1>1, <1>2, SetLineOnly DEF Only, Fields

\* A walk by one line down to a line of the source.
LEMMA WalkShows ==
  ASSUME NEW s, Ok(s), HasCurrent(s), s.hpos \in 2 .. Len(Current(s))
  PROVE  Walk(s, -1).hpos = s.hpos - 1 /\ Walk(s, -1).line = Shown(s, s.hpos - 1)
  <1> DEFINE len == Len(Current(s))
             to == s.hpos - 1
             u == [s EXCEPT !.hpos = to]
             i == len - to
             l == Shown(s, to)
  <1>1. len \in 0 .. MaxHist /\ len \in Nat /\ DOMAIN s = Fields
    BY CurrentTyped, SourcesAssumption DEF Ok, Typed
  <1>2. /\ s.hpos # -1 /\ len # 0 /\ s.hpos + (-1) = to /\ to \in 1 .. len - 1
        /\ ~(to < -1) /\ to # 0 /\ ~(to > len) /\ to > -1
    BY <1>1
  <1>3. Walk(s, -1) = WalkTo(s, to)
    BY <1>2 DEF Walk
  <1>4. WalkTo(s, to) = WalkLine(u)
    BY <1>2 DEF WalkTo
  <1>5. Only(s, u, {"hpos"}) /\ u.hpos = to /\ DOMAIN u = Fields
    BY <1>1 DEF Only, Fields
  <1> HIDE DEF u
  <1>6. Name(u) = Name(s) /\ Current(u) = Current(s) /\ u.lines = s.lines
    BY <1>5, OnlyMore, SameCurrent DEF Only, Fields, Moving
  <1>7. Slot(u) = i /\ GetLineHistory(u) = s.lines[Name(s)][i]
    BY <1>2, <1>5, <1>6 DEF Slot, GetLineHistory
  <1>8. i \in 0 .. len - 1
    BY <1>1, <1>2
  <1>9. ~GetLineFails(u, i) /\ GetLine(u, i) = GetLine(s, i)
    BY <1>6, <1>8 DEF GetLineFails, GetLine
  <1>10. WalkLine(u) = setLineCursorMatch(u, l)
    BY <1>5, <1>6, <1>7, <1>9 DEF WalkLine, Shown
  <1> HIDE DEF l
  <1>11. WalkLine(u).line = l /\ WalkLine(u).hpos = to
    BY <1>5, <1>10, CursorMatchLine
  <1> QED
    BY <1>3, <1>4, <1>11 DEF l

\* The line is emptied before that, and its undo list reset: the line that
\* follows has another list.
LEMMA EmptiedShows ==
  ASSUME NEW s, Ok(s), HasCurrent(s), s.hpos \in 2 .. Len(Current(s))
  PROVE  LET t == ResetState([s EXCEPT !.line = << >>, !.pos = 0])
         IN  /\ Ok(t) /\ HasCurrent(t) /\ Current(t) = Current(s)
             /\ t.hpos = s.hpos /\ t.infer = s.infer /\ t.acceptHold = s.acceptHold
             /\ Shown(t, s.hpos - 1) = Shown(s, s.hpos - 1)
  <1> DEFINE e == [s EXCEPT !.line = << >>, !.pos = 0]
             r == [e EXCEPT !.skip = FALSE, !.undoing = FALSE]
             g == Reset(GetLineHistory(e), e.undoing)
             t == ResetState(e)
             len == Len(Current(s))
             n == Name(s)
             i == len - (s.hpos - 1)
             k == len - s.hpos
  <1>1. /\ Only(s, e, Moving) /\ Only(s, e, {"line", "pos"}) /\ e.line = << >> /\ e.pos = 0
        /\ DOMAIN e = Fields
    BY DEF Only, Fields, Moving, Saving, Ok, Typed
  <1> HIDE DEF e
  <1>2. Ok(e)
    <2>1. << >> \in Line /\ Len(<< >>) = 0
      BY DEF Line
    <2>2. /\ e.lines = s.lines /\ e.cpos = s.cpos /\ e.hpos = s.hpos
          /\ e.acceptLine = s.acceptLine
      BY <1>1 DEF Only, Fields
    <2>3. TypedMoving(e) /\ OnLine(e)
      BY <1>1, <2>1, <2>2 DEF Ok, Typed, TypedMoving, OnLine
    <2> QED
      BY <1>1, <2>3, MovingTyped DEF Ok
  <1>3. Only(e, r, {"skip", "undoing"}) /\ DOMAIN r = Fields
    BY <1>1 DEF Only, Fields
  <1>4. HasCurrent(e)
    BY <1>1, SameCurrent
  <1>5. t = SetLineHistory(r, g)
    BY <1>4 DEF ResetState
  <1> HIDE DEF r, g
  <1>6. /\ r.lines = s.lines /\ r.hpos = s.hpos
        /\ Name(r) = n /\ Current(r) = Current(s)
    <2>1. Only(e, r, Moving)
      BY <1>3, OnlyMore DEF Moving, Saving
    <2>2. Only(s, r, Moving)
      BY <1>1, <2>1, OnlyTrans
    <2> QED
      BY <1>1, <1>3, <2>2, SameCurrent DEF Only, Fields
  <1>7. Ok(t) /\ Only(e, t, Saving)
    BY <1>1, <1>2, ResetStateTyped, ResetStateOnly
  <1>8. t.lines = [r.lines EXCEPT ![Name(r)][Slot(r)] = g]
    BY <1>3, <1>5 DEF SetLineHistory, Fields
  <1> HIDE DEF t
  <1>9. /\ t.hpos = s.hpos /\ t.infer = s.infer /\ t.acceptHold = s.acceptHold
    BY <1>1, <1>7 DEF Only, Fields, Saving
  <1>10. Name(t) = n /\ Current(t) = Current(s) /\ HasCurrent(t)
    <2>1. Only(e, t, Moving)
      BY <1>7, OnlyMore DEF Moving
    <2>2. Only(s, t, Moving)
      BY <1>1, <2>1, OnlyTrans
    <2> QED
      BY <2>2, SameCurrent
  <1>11. len \in 0 .. MaxHist /\ n \in Names /\ MaxHist \in Nat
    BY CurrentTyped, SourcesAssumption DEF Ok
  <1>12. Slot(r) = k
    BY <1>6, <1>11 DEF Slot
  <1>13. i \in Slots /\ k \in Slots /\ i # k
    BY <1>11 DEF Slots
  <1>14. t.lines[n][i] = s.lines[n][i]
    <2>1. s.lines \in [Names -> [Slots -> Histories]]
      BY DEF Ok, Typed, TypedMoving
    <2> HIDE DEF i, k, n
    <2> QED
      BY <1>6, <1>8, <1>11, <1>12, <1>13, <2>1
  <1>15. GetLine(t, i) = GetLine(s, i)
    BY <1>10 DEF GetLine
  <1>16. Shown(t, s.hpos - 1) = Shown(s, s.hpos - 1)
    BY <1>10, <1>14, <1>15 DEF Shown
  <1> QED
    BY <1>7, <1>9, <1>10, <1>16 DEF t, e

\* After operate-and-get-next on a history line the next loop starts on the
\* line that follows it, as it was last edited, on sources of any length and
\* whatever the application has done to them meanwhile, short of making a
\* shorter one the active source (Sources.Accept, history.Init, Sources.Walk).
THEOREM NextLineFollows == Spec => OperateGetsNext
  <1> DEFINE p == h.hpos - 1
             len == Len(Current(h))
             After == /\ h.infer /\ ~h.acceptHold
                      /\ Indexable(h) /\ HasCurrent(h) /\ h.hpos \in 2 .. len
                      /\ Readline
             Follow == /\ h'.hpos = h.hpos - 1
                       /\ LET lh == h.lines[Name(h)][len - h.hpos + 1]
                          IN  h'.line = IF lh.items = << >> THEN GetLine(h, len - h.hpos + 1)
                                        ELSE LastItem(lh).line
  <1>1. ASSUME IInv, After PROVE Follow
    <2> DEFINE e  == [h EXCEPT !.line = << >>, !.pos = 0]
               s0 == ResetState(e)
               w  == Walk(s0, -1)
               s1 == [w EXCEPT !.infer = FALSE]
               z  == [s1 EXCEPT !.accepted = FALSE, !.acceptLine = << >>, !.cpos = -1]
    <2>1. Ok(h) /\ len \in Nat
      BY <1>1, CurrentTyped DEF IInv, Ok
    <2>2. /\ Ok(s0) /\ HasCurrent(s0) /\ Current(s0) = Current(h)
          /\ s0.hpos = h.hpos /\ s0.infer = h.infer /\ s0.acceptHold = h.acceptHold
          /\ Shown(s0, p) = Shown(h, p)
      BY <1>1, <2>1, EmptiedShows
    <2>3. h' = InitLoop(h)
      BY <1>1 DEF Readline, Step
    <2>4. h.hpos # -1 /\ h.hpos # 0
      BY <1>1, <2>1
    <2>5. InferLine(s0) = w
      BY <2>2, <2>4 DEF InferLine
    <2>6. InitLoop(h) = SaveState(z)
      BY <1>1, <2>2, <2>5 DEF InitLoop
    <2> HIDE DEF s0
    <2>7. w.hpos = p /\ w.line = Shown(h, p) /\ DOMAIN w = Fields
      <3>1. s0.hpos \in 2 .. Len(Current(s0))
        BY <1>1, <2>2
      <3>2. w.hpos = p /\ w.line = Shown(h, p)
        BY <2>2, <3>1, WalkShows
      <3>3. Ok(w)
        BY <2>2, WalkTyped
      <3> QED
        BY <3>2, <3>3 DEF Ok, Typed
    <2> HIDE DEF w
    <2>8. DOMAIN z = Fields /\ z.hpos = p /\ z.line = Shown(h, p)
      BY <2>7 DEF Fields
    <2> HIDE DEF z
    <2>9. h'.hpos = p /\ h'.line = Shown(h, p)
      <3>1. Only(z, h', Saving)
        BY <2>3, <2>6, <2>8, SaveStateOnly
      <3> QED
        BY <2>8, <3>1 DEF Only, Fields, Saving
    <2>10. len - p = len - h.hpos + 1
      BY <1>1, <2>1
    <2> QED
      BY <2>9, <2>10 DEF Shown
  <1>2. IInv /\ [Next]_vars => IInv'
    BY NextIInv
  <1>3. IInv /\ [Next]_vars => [After => Follow]_vars
    BY <1>1
  <1> QED
    BY <1>2, <1>3, InitIInv, PTL DEF Spec, OperateGetsNext
=============================================================================
