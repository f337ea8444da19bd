----------------------------- MODULE LineCursor -----------------------------
(***************************************************************************)
(* The input line (core.Line, a rune slice) and the cursor arithmetic      *)
(* (core.Cursor) as operators.  A line is a sequence of characters;        *)
(* positions count from 0 as in the code, so that position p addresses     *)
(* line[p+1], and Len(line) is the append position.                        *)
(*                                                                         *)
(* The characters are abstracted to their class: what the operations tell  *)
(* apart is a newline, a blank, and anything else.                         *)
(***************************************************************************)
EXTENDS Integers, Sequences, FiniteSets, FiniteSetsExt

CONSTANTS
  Char,     \* all characters a line may hold
  Newline,  \* inputrc.Newline
  Space     \* inputrc.Space and inputrc.Tab, which no operation here tells apart

ASSUME CharAssumption == Newline # Space

Line == Seq(Char)

\* The character at position p of line l (the Go expression l[p]).
At(l, p) == l[p + 1]

\* The slice l[b:e] of the code.
Slice(l, b, e) == SubSeq(l, b + 1, e)

-----------------------------------------------------------------------------
(* Line: bounds                                                            *)

\* Brings a position back onto the line, append position included.
checkPosRange(l, p) ==
  IF p < 0 THEN 0 ELSE IF p > Len(l) THEN Len(l) ELSE p

\* The ordered range that Cut and InsertBetween work on.  Its "valid" result
\* is false exactly when both ends are -1.
checkRange(l, b, e) ==
  LET e1 == IF e > Len(l) THEN Len(l) ELSE e
      b1 == IF b < 0 THEN 0 ELSE b
  IN  IF e1 > -1 /\ e1 < b1
      THEN [bpos |-> e1, epos |-> b1]
      ELSE [bpos |-> b1, epos |-> e1]

-----------------------------------------------------------------------------
(* Line: edits                                                             *)

Insert(l, p, chars) ==
  IF p < 0 \/ p > Len(l)
  THEN l
  ELSE Slice(l, 0, p) \o chars \o Slice(l, p, Len(l))

\* slices.Delete: the code panics unless 0 <= b <= e <= len, which callers of
\* this operator establish with InDeleteRange.
Delete(l, b, e) == Slice(l, 0, b) \o Slice(l, e, Len(l))

InDeleteRange(l, b, e) == 0 <= b /\ b <= e /\ e <= Len(l)

Cut(l, b, e) ==
  IF b = -1 /\ e = -1
  THEN l
  ELSE LET r == checkRange(l, b, e)
       IN  Delete(l, r.bpos, IF r.epos = -1 THEN Len(l) ELSE r.epos)

CutRune(l, p) ==
  IF p < 0 \/ p > Len(l) \/ Len(l) = 0
  THEN l
  ELSE IF p = Len(l) THEN Delete(l, p - 1, p) ELSE Delete(l, p, p + 1)

-----------------------------------------------------------------------------
(* Line: searches                                                          *)

\* The position of the next ch strictly after (forward) or strictly before p,
\* or -1.
Find(l, ch, p, forward) ==
  LET from  == checkPosRange(l, p)
      after == {i \in from + 1 .. Len(l) - 1 : At(l, i) = ch}
      before == {i \in 0 .. from - 1 : At(l, i) = ch}
  IN  IF forward
      THEN IF after = {} THEN -1 ELSE Min(after)
      ELSE IF before = {} THEN -1 ELSE Max(before)

\* The ends of the lines of the buffer: every newline, and the end of buffer.
newlines(l) == {i \in 0 .. Len(l) - 1 : At(l, i) = Newline} \cup {Len(l)}

\* Line.Lines: how many newlines the buffer holds.
Lines(l) == Cardinality(newlines(l)) - 1

-----------------------------------------------------------------------------
(* Cursor: checks                                                          *)

CheckAppend(l, p) == checkPosRange(l, p)

\* CheckAppend also drops a mark that has fallen off the line.
CheckMark(l, m) == IF m < -1 \/ m > Len(l) - 1 THEN -1 ELSE m

\* Indexing the line at p (or at p - 1) is what makes this panic when the
\* cursor is stale, that is past the end of a line that has been cut.
OnEmptyLine(l, p) ==
  \/ Len(l) = 0
  \/ p = 0 /\ At(l, p) = Newline
  \/ p # 0 /\ p = Len(l) /\ At(l, p - 1) = Newline
  \/ p # 0 /\ p # Len(l) /\ At(l, p) = Newline /\ At(l, p - 1) = Newline

offEnd(l, p) == IF p = Len(l) /\ ~OnEmptyLine(l, p) THEN p - 1 ELSE p

offNewline(l, p) ==
  IF 0 < p /\ p < Len(l) /\ At(l, p) = Newline /\ ~OnEmptyLine(l, p) THEN p - 1 ELSE p

CheckCommand(l, p) == offNewline(l, offEnd(l, CheckAppend(l, p)))

\* At the start of the buffer, or right after a newline.
AtBeginningOfLine(l, p) == p = 0 \/ p - 1 \in newlines(l)

IsBlank(ch) == ch \in {Space, Newline}

-----------------------------------------------------------------------------
(* Cursor: movements.  Each gives the new position.                        *)

Inc(l, p) == IF p < Len(l) THEN p + 1 ELSE p

Dec(p) == IF p > 0 THEN p - 1 ELSE p

\* Scans over blanks.  Running off the right end stops on the append position
\* because Char() clamps the cursor and answers 0 there.
ToFirstNonSpace(l, p, forward) ==
  LET fwd   == forward /\ p < Len(l)
      start == IF p >= Len(l) THEN Len(l) - 1 ELSE p
      right == {i \in start .. Len(l) - 1 : ~IsBlank(At(l, i))} \cup {Len(l)}
      left  == {i \in 1 .. start : ~IsBlank(At(l, i))} \cup {0}
  IN  IF Len(l) = 0 THEN p
      ELSE CheckAppend(l, IF fwd THEN Min(right) ELSE Max(left))

BeginningOfLine(l, p) ==
  CheckCommand(l, Find(l, Newline, p, FALSE) + 1)

EndOfLine(l, p) ==
  LET nl == Find(l, Newline, p, TRUE)
  IN  CheckCommand(l, IF OnEmptyLine(l, p) THEN p
                      ELSE IF nl # -1 THEN nl - 1 ELSE Len(l) - 1)

EndOfLineAppend(l, p) ==
  LET nl == Find(l, Newline, p - 1, TRUE)
  IN  CheckAppend(l, IF OnEmptyLine(l, p) THEN p
                     ELSE IF nl # -1 THEN nl ELSE Len(l))

\* The index of the buffer line that holds the cursor.
LinePos(l, p) == Cardinality({e \in newlines(l) : e < CheckAppend(l, p)})

\* One line down: keep the column, or stop on the end of a shorter line.
moveLineDown(l, p) ==
  LET end   == Min({e \in newlines(l) : e >= p})
      above == Max({e \in newlines(l) : e < p} \cup {-1})
      below == {e \in newlines(l) : e > end}
      cpos  == p - above
  IN  IF below = {} THEN p
      ELSE IF Min(below) - end > cpos THEN end + cpos ELSE Min(below)

\* One line up.  The end of the first line is taken one column short.
moveLineUp(l, p) ==
  LET above == {e \in newlines(l) : e < p}
      end   == Max(above)
      begin == Max((above \ {end}) \cup {-1})
      last  == IF above = {end} THEN end - 1 ELSE end
      cpos  == p - end
  IN  IF above = {} THEN p
      ELSE IF last - begin > cpos THEN begin + cpos ELSE last

LineMove(l, p, n) ==
  LET start == CheckAppend(l, p)
      down[i \in 0 .. n] ==
        IF i = 0 THEN start ELSE CheckCommand(l, moveLineDown(l, down[i - 1]))
      up[i \in 0 .. -n] ==
        IF i = 0 THEN start ELSE CheckCommand(l, moveLineUp(l, up[i - 1]))
  IN  IF Lines(l) = 0 \/ n = 0 THEN start
      ELSE CheckAppend(l, IF n > 0 THEN down[n] ELSE up[-n])
=============================================================================
