----------------------------- MODULE LineLemmas -----------------------------
(***************************************************************************)
(* What the operators on lines, cursors and undo lists return, for lines   *)
(* and lists of any length over any set of characters.                     *)
(***************************************************************************)
EXTENDS UndoList, SequenceTheorems, InductionLemmas

\* Each saved position is on the line saved with it.
Fits(lh) == \A i \in 1 .. Len(lh.items) : lh.items[i].pos <= Len(lh.items[i].line)

\* CheckAppend brings any position onto the line, append position included.
LEMMA CheckAppendRange ==
  ASSUME NEW l \in Line, NEW p \in Int
  PROVE  CheckAppend(l, p) \in 0 .. Len(l)
  BY DEF CheckAppend, checkPosRange, Line

\* So does CheckCommand: it only steps back from the end of a line that is not
\* empty, and from a newline that is not at the start.
LEMMA CheckCommandRange ==
  ASSUME NEW l \in Line, NEW p \in Int
  PROVE  CheckCommand(l, p) \in 0 .. Len(l)
  <1>1. Len(l) \in Nat
    BY DEF Line
  <1>2. ASSUME NEW q \in 0 .. Len(l) PROVE offEnd(l, q) \in 0 .. Len(l)
    <2>1. ASSUME Len(l) = 0 PROVE OnEmptyLine(l, q)
      BY <2>1 DEF OnEmptyLine
    <2>2. QED
      BY <1>1, <2>1 DEF offEnd
  <1>3. ASSUME NEW q \in 0 .. Len(l) PROVE offNewline(l, q) \in 0 .. Len(l)
    BY <1>1 DEF offNewline
  <1>4. QED
    BY <1>2, <1>3, CheckAppendRange DEF CheckCommand

\* The edits of the actions give lines.
LEMMA SliceType ==
  ASSUME NEW l \in Line, NEW b \in Int, NEW e \in Int, 0 <= b, e <= Len(l)
  PROVE  Slice(l, b, e) \in Line
  BY DEF Slice, Line

\* An insertion leaves a line.
LEMMA InsertType ==
  ASSUME NEW l \in Line, NEW p \in Int, NEW ch \in Char
  PROVE  Insert(l, p, <<ch>>) \in Line
  <1>1. CASE p < 0 \/ p > Len(l)
    BY <1>1 DEF Insert
  <1>2. CASE ~(p < 0 \/ p > Len(l))
    <2>1. Slice(l, 0, p) \in Line /\ Slice(l, p, Len(l)) \in Line
      BY <1>2, SliceType DEF Line
    <2>2. <<ch>> \in Line
      BY DEF Line
    <2> QED
      BY <1>2, <2>1, <2>2 DEF Insert, Line
  <1> QED
    BY <1>1, <1>2

\* A deletion leaves a line.
LEMMA DeleteType ==
  ASSUME NEW l \in Line, NEW b \in Int, NEW e \in Int, 0 <= b, b <= Len(l), 0 <= e, e <= Len(l)
  PROVE  Delete(l, b, e) \in Line
  <1>1. Slice(l, 0, b) \in Line /\ Slice(l, e, Len(l)) \in Line
    BY SliceType DEF Line
  <1> QED
    BY <1>1 DEF Delete, Line

\* Cutting a rune leaves a line.
LEMMA CutRuneType ==
  ASSUME NEW l \in Line, NEW p \in Int
  PROVE  CutRune(l, p) \in Line
  <1>1. Len(l) \in Nat
    BY DEF Line
  <1>2. CASE p < 0 \/ p > Len(l) \/ Len(l) = 0
    BY <1>2 DEF CutRune
  <1>3. CASE ~(p < 0 \/ p > Len(l) \/ Len(l) = 0) /\ p = Len(l)
    <2>1. Delete(l, p - 1, p) \in Line
      BY <1>1, <1>3, DeleteType
    <2> QED
      BY <1>3, <2>1 DEF CutRune
  <1>4. CASE ~(p < 0 \/ p > Len(l) \/ Len(l) = 0) /\ p # Len(l)
    <2>1. Delete(l, p, p + 1) \in Line
      BY <1>1, <1>4, DeleteType
    <2> QED
      BY <1>4, <2>1 DEF CutRune
  <1> QED
    BY <1>2, <1>3, <1>4

\* A save that does not fault gives a history whose positions fit their lines.
LEMMA SaveItemKeeps ==
  ASSUME NEW lh \in LineHistory, NEW l \in Line, NEW p \in Int,
         Fits(lh), ~SaveFaults(lh, l)
  PROVE  /\ SaveItem(lh, l, p) \in LineHistory
         /\ Fits(SaveItem(lh, l, p))
  <1> DEFINE n == Len(lh.items)
  <1>1. /\ lh.items \in Seq(Item) /\ lh.pos \in Int /\ n \in Nat
        /\ lh = [pos |-> lh.pos, items |-> lh.items]
    BY DEF LineHistory
  <1>2. CASE IsLast(lh, l)
    <2> DEFINE q     == CheckAppend(l, p)
               items == [lh.items EXCEPT ![n] = [@ EXCEPT !.pos = q]]
    <2>1. q \in Nat /\ q <= Len(l)
      BY CheckAppendRange DEF Line
    <2> HIDE DEF q
    <2>2. n \in 1 .. n /\ lh.items[n] \in Item /\ lh.items[n].line = l
      BY <1>1, <1>2 DEF IsLast, LastItem
    <2>3. [lh.items[n] EXCEPT !.pos = q] \in Item
      BY <2>1, <2>2 DEF Item
    <2>4. items \in Seq(Item) /\ Len(items) = n
      BY <1>1, <2>2, <2>3
    <2>5. SaveItem(lh, l, p) = [lh EXCEPT !.items = items]
      BY <1>2 DEF SaveItem, q
    <2>6. SaveItem(lh, l, p).items = items /\ SaveItem(lh, l, p) \in LineHistory
      BY <1>1, <2>4, <2>5 DEF LineHistory
    <2>7. ASSUME NEW i \in 1 .. n PROVE items[i].pos <= Len(items[i].line)
      <3>1. CASE i = n
        BY <1>1, <2>1, <2>2, <3>1 DEF Item
      <3>2. CASE i # n
        BY <1>1, <3>2 DEF Fits
      <3> QED
        BY <3>1, <3>2
    <2> QED
      BY <2>4, <2>6, <2>7 DEF Fits
  <1>3. CASE ~IsLast(lh, l)
    <2> DEFINE undone == IF lh.pos > n THEN n ELSE lh.pos
               kept   == SubSeq(lh.items, 1, n - undone)
               it     == [line |-> l, pos |-> CheckCommand(l, CheckAppend(l, p))]
    <2>1. undone \in 0 .. n
      BY <1>1, <1>3 DEF SaveFaults
    <2> HIDE DEF undone
    <2>2. /\ kept \in Seq(Item) /\ Len(kept) = n - undone
          /\ \A i \in 1 .. n - undone : kept[i] = lh.items[i]
      BY <1>1, <2>1
    <2> HIDE DEF kept
    <2>3. CheckCommand(l, CheckAppend(l, p)) \in Nat /\ CheckCommand(l, CheckAppend(l, p)) <= Len(l)
      <3>1. CheckAppend(l, p) \in Int
        BY CheckAppendRange
      <3>2. CheckCommand(l, CheckAppend(l, p)) \in 0 .. Len(l)
        BY <3>1, CheckCommandRange
      <3> QED
        BY <3>2 DEF Line
    <2>4. it \in Item /\ it.pos <= Len(it.line)
      BY <2>3 DEF Item
    <2> HIDE DEF it
    <2>5. SaveItem(lh, l, p) = [pos |-> undone, items |-> Append(kept, it)]
      BY <1>3 DEF SaveItem, undone, kept, it
    <2>6. Append(kept, it) \in Seq(Item) /\ Len(Append(kept, it)) = n - undone + 1
      BY <2>2, <2>4
    <2>7. ASSUME NEW i \in 1 .. n - undone + 1
          PROVE  Append(kept, it)[i].pos <= Len(Append(kept, it)[i].line)
      <3>1. CASE i = n - undone + 1
        BY <2>2, <2>4, <3>1
      <3>2. CASE i # n - undone + 1
        BY <1>1, <2>1, <2>2, <2>4, <3>2 DEF Fits
      <3> QED
        BY <3>1, <3>2
    <2> QED
      BY <2>1, <2>5, <2>6, <2>7, <1>1 DEF Fits, LineHistory
  <1> QED
    BY <1>2, <1>3

\* The items of a history, and their positions.
LEMMA ItemType ==
  ASSUME NEW lh \in LineHistory, NEW i \in 1 .. Len(lh.items)
  PROVE  lh.items[i].line \in Line /\ lh.items[i].pos \in Nat
  <1>1. lh.items \in Seq(Item)
    BY DEF LineHistory
  <1>2. lh.items[i] \in Item
    BY <1>1
  <1> QED
    BY <1>2 DEF Item

\* Moving the undo position keeps the items.
LEMMA MovePos ==
  ASSUME NEW lh \in LineHistory, NEW k \in Int, Fits(lh)
  PROVE  /\ [lh EXCEPT !.pos = k] \in LineHistory
         /\ [lh EXCEPT !.pos = k].pos = k
         /\ [lh EXCEPT !.pos = k].items = lh.items
         /\ Fits([lh EXCEPT !.pos = k])
  <1>1. /\ [lh EXCEPT !.pos = k] \in LineHistory
        /\ [lh EXCEPT !.pos = k].pos = k
        /\ [lh EXCEPT !.pos = k].items = lh.items
    BY DEF LineHistory
  <1> QED
    BY <1>1 DEF Fits

\* Undo stops on a position of the list, on another line than the current one.
LEMMA UndoToStop ==
  ASSUME NEW lh \in LineHistory, NEW l \in Line, lh.pos >= 0, UndoStops(lh, l) # {}
  PROVE  UndoTo(lh, l) \in 1 .. Len(lh.items)
  <1>1. lh.pos \in Nat /\ Len(lh.items) \in Nat
    BY DEF LineHistory
  <1>2. UndoStops(lh, l) \subseteq 1 .. Len(lh.items)
    BY <1>1 DEF UndoStops
  <1>3. Min(UndoStops(lh, l)) \in UndoStops(lh, l)
    BY <1>2, MinInSet
  <1> QED
    BY <1>2, <1>3 DEF UndoTo

\* The items that a save of the line l leaves: l is the last one, and when the
\* line was another one before, that one is next to it.
Saved(lh, l, items) ==
  /\ Len(items) \in Nat \ {0} /\ items[Len(items)].line = l
  /\ lh.pos = 0 /\ Len(lh.items) > 0 /\ LastItem(lh).line # l =>
       Len(items) > 1 /\ items[Len(items) - 1].line = LastItem(lh).line

\* A save that does not fault leaves such items.
LEMMA SaveItemLast ==
  ASSUME NEW lh \in LineHistory, NEW l \in Line, NEW p \in Int, ~SaveFaults(lh, l)
  PROVE  Saved(lh, l, SaveItem(lh, l, p).items)
  <1> DEFINE n == Len(lh.items)
  <1>1. /\ lh.items \in Seq(Item) /\ lh.pos \in Int /\ n \in Nat
        /\ lh = [pos |-> lh.pos, items |-> lh.items]
    BY DEF LineHistory
  <1>2. CASE IsLast(lh, l)
    <2> DEFINE q     == CheckAppend(l, p)
               items == [lh.items EXCEPT ![n] = [@ EXCEPT !.pos = q]]
    <2>1. q \in Nat
      BY CheckAppendRange DEF Line
    <2> HIDE DEF q
    <2>2. n \in 1 .. n /\ lh.items[n] \in Item /\ lh.items[n].line = l /\ n # 0
      BY <1>1, <1>2 DEF IsLast, LastItem
    <2>3. [lh.items[n] EXCEPT !.pos = q] \in Item
      BY <2>1, <2>2 DEF Item
    <2>4. items \in Seq(Item) /\ Len(items) = n
      BY <1>1, <2>2, <2>3
    <2>5. items[n].line = l
      BY <1>1, <2>2 DEF Item
    <2>6. SaveItem(lh, l, p) = [lh EXCEPT !.items = items]
      BY <1>2 DEF SaveItem, q
    <2> HIDE DEF items
    <2>7. SaveItem(lh, l, p).items = items
      BY <1>1, <2>6
    <2>8. LastItem(lh).line = l
      BY <1>2 DEF IsLast
    <2> QED
      BY <1>1, <2>2, <2>4, <2>5, <2>7, <2>8 DEF Saved
  <1>3. CASE ~IsLast(lh, l)
    <2> DEFINE undone == IF lh.pos > n THEN n ELSE lh.pos
               kept   == SubSeq(lh.items, 1, n - undone)
               it     == [line |-> l, pos |-> CheckCommand(l, CheckAppend(l, p))]
    <2>1. undone \in 0 .. n /\ (lh.pos = 0 => undone = 0)
      BY <1>1, <1>3 DEF SaveFaults
    <2> HIDE DEF undone
    <2>2. /\ kept \in Seq(Item) /\ Len(kept) = n - undone
          /\ \A i \in 1 .. n - undone : kept[i] = lh.items[i]
      BY <1>1, <2>1
    <2> HIDE DEF kept
    <2>3. it \in Item /\ it.line = l
      <3>1. CheckAppend(l, p) \in Int
        BY CheckAppendRange
      <3>2. CheckCommand(l, CheckAppend(l, p)) \in 0 .. Len(l)
        BY <3>1, CheckCommandRange
      <3>3. CheckCommand(l, CheckAppend(l, p)) \in Nat
        BY <3>2 DEF Line
      <3> QED
        BY <3>3 DEF Item
    <2> HIDE DEF it
    <2> DEFINE items == Append(kept, it)
               k == n - undone
    <2>4. SaveItem(lh, l, p) = [pos |-> undone, items |-> items]
      BY <1>3 DEF SaveItem, undone, kept, it
    <2>5. /\ Len(items) = k + 1 /\ items[k + 1] = it
          /\ \A i \in 1 .. k : items[i] = kept[i]
      BY <2>2, <2>3
    <2>6. k \in Nat /\ (lh.pos = 0 => k = n)
      BY <1>1, <2>1
    <2>7. SaveItem(lh, l, p).items = items
      BY <2>4
    <2>8. \A i \in 1 .. k : kept[i] = lh.items[i]
      BY <2>2
    <2> HIDE DEF items, k
    <2>9. Len(items) \in Nat \ {0} /\ items[Len(items)].line = l
      BY <2>3, <2>5, <2>6
    <2>10. ASSUME lh.pos = 0, n > 0
           PROVE  Len(items) > 1 /\ items[Len(items) - 1].line = LastItem(lh).line
      <3>1. k = n /\ k \in 1 .. k /\ k + 1 > 1 /\ (k + 1) - 1 = k
        BY <1>1, <2>6, <2>10
      <3>2. items[k] = lh.items[n]
        BY <2>5, <2>8, <3>1
      <3> QED
        BY <2>5, <3>1, <3>2 DEF LastItem
    <2> QED
      BY <2>7, <2>9, <2>10 DEF Saved
  <1> QED
    BY <1>2, <1>3
=============================================================================
