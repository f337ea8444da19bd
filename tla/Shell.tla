------------------------------- MODULE Shell -------------------------------
(***************************************************************************)
(* The state that the editing commands of the shell work on, and the core  *)
(* operations they are made of: cursor, selection (core.Selection),        *)
(* numeric argument (core.Iterations) and operator-pending mode of Vim     *)
(* (keymap.Engine).                                                        *)
(*                                                                         *)
(* One step of the program runs a command and then the operator that waits *)
(* for it, so commands are written as operators from state to state:       *)
(*   line, pos, mark   core.Line and core.Cursor                           *)
(*   sel               core.Selection                                      *)
(*   iter              core.Iterations                                     *)
(*   buf               editor.Buffers                                      *)
(*   main, local       the two keymaps                                     *)
(*   pending, skip     the commands that wait for a motion                 *)
(*   active, caller    the matched command, and the key that called it     *)
(*   fault             "panic" when an index is out of range, "hang" when  *)
(*                     a loop never ends, else "none"                      *)
(***************************************************************************)
EXTENDS Words, Registers

Fault(s, f) == [s EXCEPT !.fault = IF @ = "none" THEN f ELSE @]
Panic(s) == Fault(s, "panic")

\* The rest of a command, which is not reached after a fault.
Then(s, Rest(_)) == IF s.fault = "none" THEN Rest(s) ELSE s

-----------------------------------------------------------------------------
(* Cursor.  A command may leave the cursor stale, past the end of a line   *)
(* it has cut; every read goes through Pos, which brings it back.          *)

Pos(s) == checkPosRange(s.line, s.pos)

Check(s) == [s EXCEPT !.pos = Pos(s), !.mark = CheckMark(s.line, @)]

Set(s, p) == Check([s EXCEPT !.pos = p])

Move(s, offset) == Set(s, s.pos + offset)

SetMark(s) == [Check(s) EXCEPT !.mark = Pos(s)]

CharUnder(s) == IF Pos(s) = Len(s.line) THEN Nul ELSE At(s.line, Pos(s))

\* Line.Insert drops the trailing Nul characters of what it inserts.
Trim(text) ==
  SubSeq(text, 1, Max({i \in 1 .. Len(text) : text[i] # Nul} \cup {0}))

InsertIn(s, p, text) == [s EXCEPT !.line = Insert(@, p, Trim(text))]

InsertAt(s, text) ==
  [InsertIn(Check(s), Pos(s), text) EXCEPT !.pos = Pos(s) + Len(text)]

ReplaceWith(s, c) ==
  IF Pos(s) = Len(s.line) THEN InsertIn(Check(s), Pos(s), <<c>>)
  ELSE [Check(s) EXCEPT !.line[Pos(s) + 1] = c]

CutIn(s, b, e) == [s EXCEPT !.line = Cut(@, b, e)]
CutRuneAt(s, p) == [s EXCEPT !.line = CutRune(@, p)]

\* InsertBetween on a range that the selection has already put in order.
InsertBetween(s, b, e, text) == InsertIn(CutIn(s, b, e), b, text)

-----------------------------------------------------------------------------
(* Iterations                                                              *)

NoIterations == [times |-> <<>>, active |-> FALSE, pending |-> FALSE]

Minus == -1  \* the sign, as an element of times, whose others are digits

\* The sign is put first, digits last.
AddIterations(iter, d) ==
  [times |-> IF d = Minus THEN <<d>> \o iter.times ELSE Append(iter.times, d),
   active |-> TRUE, pending |-> TRUE]

\* The value of a string of decimal digits.
Number(digits) ==
  LET val[n \in 0 .. Len(digits)] ==
        IF n = 0 THEN 0 ELSE 10 * val[n - 1] + digits[n]
  IN  val[Len(digits)]

\* strconv.Atoi, its errors giving 0.
Atoi(digits) ==
  IF digits # <<>> /\ Minus \notin Range(digits) THEN Number(digits) ELSE 0

orOne(n) == IF n = 0 THEN 1 ELSE n

Times(s) ==
  IF s.iter.times # <<>> /\ s.iter.times[1] = Minus
  THEN -orOne(Atoi(Tail(s.iter.times))) ELSE orOne(Atoi(s.iter.times))

\* Iterations.Get clears the value, not the flags.
Got(s) == [s EXCEPT !.iter.times = <<>>]

ResetIterations(s) == [s EXCEPT !.iter = NoIterations]

ResetPostRunIterations(s) ==
  IF s.iter.pending THEN [s EXCEPT !.iter.pending = FALSE]
  ELSE [s EXCEPT !.iter.active = FALSE]

\* A loop of n turns, none when n is negative; it ends with the first fault.
Loop(s, n, Body(_)) ==
  LET turn[i \in 0 .. n] == IF i = 0 THEN s ELSE Then(turn[i - 1], Body)
  IN  IF n < 1 THEN s ELSE turn[n]

\* The loop of a command over its numeric argument.
Repeat(s, Body(_)) == Loop(Got(s), Times(s), Body)

-----------------------------------------------------------------------------
(* Selection                                                               *)

NoSelection == [active |-> FALSE, visual |-> FALSE, vline |-> FALSE,
                bpos |-> -1, epos |-> -1, surrounds |-> <<>>]

ResetSelection(s) == [s EXCEPT !.sel = NoSelection]

NoRange == [bpos |-> -1, epos |-> -1]

clip(l, p) == IF p > Len(l) THEN Len(l) ELSE IF p < 0 THEN -1 ELSE p

ordered(b, e) ==
  IF b > e /\ e # -1 THEN [bpos |-> e, epos |-> b] ELSE [bpos |-> b, epos |-> e]

\* Selection.checkRange: the ends in order and on the line, the second one -1
\* while it is not set; NoRange when there is nothing to fix.
selRange(l, b, e) ==
  IF l = <<>> \/ (b < 0 /\ e < 0) \/ (b > Len(l) /\ e > Len(l)) THEN NoRange
  ELSE IF b < 0 THEN [bpos |-> clip(l, e), epos |-> -1]
  ELSE ordered(clip(l, b), clip(l, e))

setRange(s, r) == [s EXCEPT !.sel.bpos = r.bpos, !.sel.epos = r.epos]

MarkRange(s, b, e) ==
  LET mark(r) == IF r = NoRange THEN s
                 ELSE setRange([s EXCEPT !.sel.active = TRUE], r)
  IN  mark(selRange(s.line, b, e))

Mark(s, p) == IF p < 0 \/ p > Len(s.line) THEN s ELSE MarkRange(s, p, -1)

Visual(s, vline) == [s EXCEPT !.sel.visual = TRUE, !.sel.vline = vline]

MarkSurround(s, b, e) ==
  IF b < 0 \/ e > Len(s.line) - 1 THEN s
  ELSE [s EXCEPT !.sel.active = TRUE, !.sel.surrounds = @ \o <<b, e>>]

\* From the mark to the cursor, or to the ends of their lines.
lineRange(s, lo, hi) ==
  IF s.sel.vline
  THEN [bpos |-> Max({e + 1 : e \in {n \in newlines(s.line) : n < lo}} \cup {0}),
        epos |-> Min({e \in newlines(s.line) : e >= hi})]
  ELSE [bpos |-> lo, epos |-> hi]

selectToCursor(s, b) == lineRange(s, Min({Pos(s), b}), Max({Pos(s), b}))

\* In visual mode the character under the second end is selected too.
visualRange(s, r) ==
  selRange(s.line, r.bpos, IF s.sel.visual THEN r.epos + 1 ELSE r.epos)

\* Selection.Pos.
SelPos(s) ==
  LET whole(r) ==
        IF r = NoRange THEN NoRange
        ELSE visualRange(s, IF r.epos = -1 THEN selectToCursor(s, r.bpos) ELSE r)
  IN  IF s.sel.active THEN whole(selRange(s.line, s.sel.bpos, s.sel.epos)) ELSE NoRange

\* Selection.Pos also keeps the range that it has put in order.
SelChecked(s) ==
  LET keep(r) == IF r = NoRange THEN s ELSE setRange(s, r)
  IN  IF s.sel.active THEN keep(selRange(s.line, s.sel.bpos, s.sel.epos)) ELSE s

\* Selection.Cursor: where the cursor goes once the selection is deleted.  In
\* a line selection it keeps its column, on the next line or, when the last
\* one is deleted, on the one above.
SelCursor(s) ==
  LET above(p) == Max({e \in newlines(s.line) : e < p} \cup {-1})
      indent == Pos(s) - above(Pos(s)) - 1
      column(hpos) ==
        Min({e \in newlines(s.line) : e >= hpos} \cup {hpos + indent}) - hpos
      after(r) ==
        IF r = NoRange THEN Pos(s)
        ELSE IF ~(s.sel.visual /\ s.sel.vline) THEN r.bpos
        ELSE IF r.epos # Len(s.line) THEN r.bpos + column(r.epos + 1)
        ELSE above(r.bpos - 1) + 1 + column(above(r.bpos - 1) + 1)
  IN  after(SelPos(s))

SelText(s) ==
  LET text(r) == IF r = NoRange THEN <<>> ELSE Slice(s.line, r.bpos, r.epos)
  IN  text(SelPos(s))

\* Selection.Len slices the line at -1 when the selection has fallen off it.
LenPanics(s) ==
  s.line # <<>> /\ s.sel.bpos # s.sel.epos /\ SelPos(s) = NoRange

\* What its callers do: nothing when the length is zero.
IfSelected(s, Change(_)) ==
  LET on(r) == IF r = NoRange THEN Panic(s)
               ELSE IF r.bpos = r.epos THEN SelChecked(s)
               ELSE ResetSelection(Change(r))
  IN  IF s.line = <<>> \/ s.sel.bpos = s.sel.epos THEN SelChecked(s) ELSE on(SelPos(s))

\* Selection.Cut: the surrounding characters one by one, or else the range.
SelCut(s) ==
  LET pair == s.sel.surrounds
      cut[i \in 0 .. Len(pair)] ==
        IF i = 0 THEN s ELSE CutRuneAt(cut[i - 1], pair[i] - (i - 1))
      without(r) == IF r = NoRange THEN s ELSE CutIn(s, r.bpos, r.epos)
  IN  IF s.line = <<>> THEN s
      ELSE ResetSelection(IF pair # <<>> THEN cut[Len(pair)] ELSE without(SelPos(s)))

\* The text that Selection.Cut returns.
CutText(s) == IF s.sel.surrounds # <<>> THEN <<>> ELSE SelText(s)

\* Selection.Pop leaves the selection alone on an empty line.
PopSelection(s) == IF s.line = <<>> THEN s ELSE ResetSelection(s)

PopCursor(s) == IF SelPos(s) = NoRange THEN 0 ELSE SelCursor(s)

\* Selection.ReplaceWith: f maps a character to its replacement.
SelReplace(s, f(_)) ==
  LET replaced(r) ==
        [s EXCEPT !.line =
           [i \in DOMAIN @ |-> IF i \in r.bpos + 1 .. r.epos THEN f(@[i]) ELSE @[i]]]
  IN  IfSelected(s, replaced)

Surround(s, bchar, echar) ==
  LET surrounded(r) ==
        InsertBetween(s, r.bpos, r.epos,
                      <<bchar>> \o Slice(s.line, r.bpos, r.epos) \o <<echar>>)
  IN  IfSelected(s, surrounded)

-----------------------------------------------------------------------------
(* Selecting words                                                         *)

FirstNonSpace(s, forward) == [s EXCEPT !.pos = ToFirstNonSpace(s.line, @, forward)]

\* Increments and decrements of the cursor, which look at the line's end only.
Incr(s) == [s EXCEPT !.pos = Inc(s.line, @)]
Decr(s) == [s EXCEPT !.pos = Dec(@)]

spaceAfter(s) == Pos(s) < Len(s.line) - 1 /\ isSpace(At(s.line, Pos(s) + 1))

\* With the cursor on the last character of the word: the blanks after it are
\* taken, or when there are none, the blanks before.  Gives the new beginning.
adjustWordBegin(s, b) ==
  IF spaceAfter(s) THEN b
  ELSE Incr(FirstNonSpace(Set(s, b - 1), FALSE)).pos

adjustWordCursor(s, under) ==
  IF spaceAfter(s) /\ ~under
  THEN Decr(FirstNonSpace(Incr(s), TRUE))
  ELSE s

\* The mark is left alone when the cursor has not moved past its new place.
markBehind(s, b) == IF ~s.sel.active \/ b < Pos(s) THEN Mark(s, b) ELSE s

SelectAWord(s) ==
  LET under == isSpace(CharUnder(s))
      w == SelectWord(s.line, Pos(s))
      at == Set(s, w.epos)
      b == adjustWordBegin(at, w.bpos)
      moved == adjustWordCursor(at, under)
  IN  IF s.line = <<>> THEN s
      ELSE IF ~s.sel.active \/ b < Pos(at) THEN Mark(moved, b) ELSE moved

SelectABlankWord(s) ==
  LET under == isSpace(CharUnder(s))
      before == Pos(s) > 0 /\ isSpace(At(s.line, Pos(s) - 1))
      starts == TokenizeSpace(s.line)
      back == LET t == Incr(s) IN Move(t, Backward(s.line, starts, Pos(t)))
      from == IF ~under /\ ~before THEN back ELSE FirstNonSpace(s, TRUE)
      bpos == IF ~under /\ ~before THEN Pos(back) ELSE Pos(s)
      at == Move(from, ForwardEnd(s.line, starts, Pos(from)))
  IN  IF s.line = <<>> THEN s
      ELSE markBehind(adjustWordCursor(at, under), adjustWordBegin(at, bpos))

\* The beginning of the shell word that is found from position m on: before
\* the blanks that precede it.
shellBegin(l, m) ==
  LET begin[i \in 0 .. Len(l)] ==
        IF i = 0 THEN 0
        ELSE IF isSpace(At(l, i - 1)) THEN Inc(l, ToFirstNonSpace(l, i - 1, FALSE))
        ELSE begin[checkPosRange(l, i + Backward(l, TokenizeSpace(l), i))]
  IN  begin[m]

\* Its end: the last character before a blank or of the line.  -1 when the
\* loop of the code never comes to one, the motion it repeats not moving.
shellEnd(l, c) ==
  LET next(i) == checkPosRange(l, i + ForwardEnd(l, TokenizeSpace(l), i))
      end[i \in 0 .. Len(l)] ==
        IF i = Len(l) - 1 \/ (i < Len(l) - 1 /\ isSpace(At(l, i + 1))) THEN i
        ELSE IF next(i) = i THEN -1 ELSE end[next(i)]
  IN  end[c]

quotesAround(l, p) ==
  AdjustSurroundQuotes(SurroundQuotes(l, DoubleQuote, p),
                       SurroundQuotes(l, SingleQuote, p))

\* Where SelectAShellWord looks: the quotes around the cursor or the blank word.
shellWord(s) ==
  LET word(quoted) ==
        IF quoted = NoRange THEN SelectBlankWord(s.line, Pos(s)) ELSE quoted
  IN  word(quotesAround(s.line, Pos(s)))

shellEnds(l, w) == [bpos |-> shellBegin(l, w.bpos), epos |-> shellEnd(l, w.epos)]

\* The range that SelectAShellWord returns.
shellRange(s) ==
  IF s.line = <<>> THEN [bpos |-> 0, epos |-> 0]
  ELSE shellEnds(s.line,
         shellWord(FirstNonSpace([s EXCEPT !.pos = CheckCommand(s.line, @)], TRUE)))

markShell(s, r) ==
  IF s.line = <<>> THEN s
  ELSE IF r.epos = -1 THEN Fault(s, "hang")
  ELSE markBehind(Set(s, r.epos), r.bpos)

SelectAShellWord(s) == markShell(s, shellRange(s))

-----------------------------------------------------------------------------
(* Keymaps and operators                                                   *)

SetLocal(s, keymap) == [s EXCEPT !.local = keymap]

\* Pending: the command waits for the next one.
Pend(s) ==
  [s EXCEPT !.local = "vi-opp", !.skip = TRUE, !.pending = Append(@, s.active)]

DropLocal(s) ==
  IF s.pending = <<>> /\ s.local = "vi-opp" THEN SetLocal(s, "none") ELSE s

CancelPending(s) ==
  IF s.pending = <<>> THEN s
  ELSE DropLocal([s EXCEPT !.pending = SubSeq(@, 1, Len(@) - 1)])

\* The command is called while it waits itself (dd, yy).
IsPending(s) == s.pending # <<>> /\ s.active = s.pending[1]

IsEmacs(s) == s.main = "emacs"

\* The check of the cursor after a command, which Vim's command mode keeps on
\* a character.
CheckAfter(s) ==
  IF s.main = "vi-command"
  THEN LET c == Check(s) IN [c EXCEPT !.pos = CheckCommand(s.line, @)]
  ELSE Check(s)
=============================================================================
