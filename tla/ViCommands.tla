---------------------------- MODULE ViCommands ----------------------------
(***************************************************************************)
(* The commands of vim.go, as operators from state to state, in the manner *)
(* of EmacsCommands.  The operators (delete, change, yank, and the two     *)
(* that change case) are called once to wait for a motion and once more    *)
(* after it, or from a visual selection.                                   *)
(***************************************************************************)
EXTENDS EmacsCommands

-----------------------------------------------------------------------------
(* Modes                                                                   *)

ResetModes(s) ==
  [ResetSelection(ResetIterations(s)) EXCEPT !.buf = ResetBuffers(@)]

viInsertMode(s) ==
  SetMark([SetLocal(ResetModes(s), "none") EXCEPT !.main = "vi-insert"])

viCommandMode(s) ==
  LET r == Check(ResetModes(s))
      back == s.main = "vi-insert" /\ ~AtBeginningOfLine(s.line, r.pos)
  IN  [SetLocal(r, "none") EXCEPT !.main = "vi-command",
         !.pos = CheckCommand(s.line, IF back THEN Dec(@) ELSE @)]

visualMode(s, vline) ==
  LET r == [ResetIterations(s) EXCEPT !.buf = ResetBuffers(@)]
  IN  SetLocal(Visual(Mark(r, Pos(r)), vline), "visual")

viVisualMode(s) == visualMode(s, FALSE)

viVisualLineMode(s) == visualMode(s, TRUE)

viInsertBol(s) == viInsertMode(beginningOfLine(ResetIterations(s)))

viAddNext(s) == viInsertMode(Incr(s))

viAddEol(s) ==
  viInsertMode(IF s.local = "visual" THEN Incr(s) ELSE endOfLine(ResetIterations(s)))

-----------------------------------------------------------------------------
(* Movement                                                                *)

\* One character on.  The code reads the character after the cursor, and past
\* the end of the line when the argument is larger than what is left.
stepForward(s) ==
  IF Pos(s) + 1 >= Len(s.line) THEN Panic(s)
  ELSE IF At(s.line, Pos(s) + 1) = Newline THEN s ELSE Incr(s)

\* Mutant: the end of the line is not looked at.
viForwardCharAnywhere(s) == IF s.main # "vi-insert" THEN Repeat(s, stepForward) ELSE s

viForwardChar(s) ==
  IF s.main # "vi-insert" /\ Pos(s) < Len(s.line) - 1
  THEN Repeat(s, stepForward) ELSE s

stepBackward(s) ==
  IF Pos(s) = 0 THEN Panic(s)
  ELSE IF At(s.line, Pos(s) - 1) = Newline THEN s ELSE Decr(s)

viBackwardChar(s) == IF Pos(s) = 0 THEN Got(s) ELSE Repeat(s, stepBackward)

viBackwardWord(s) == Repeat(s, MoveBack)

viForwardWord(s) == Repeat(s, MoveForward)

viBackwardBlankWord(s) == Repeat(s, MoveBackBlank)

MoveForwardBlank(s) == Move(s, Forward(s.line, TokenizeSpace(s.line), Pos(s)))

viForwardBlankWord(s) == Repeat(s, MoveForwardBlank)

\* To the end of the token, by words or by blank words.
ToEnd(s) == Move(s, ForwardEnd(s.line, Tokenize(s.line), Pos(s)))
ToBlankEnd(s) == Move(s, ForwardEnd(s.line, TokenizeSpace(s.line), Pos(s)))

backToEnd(s) ==
  LET back == MoveBack(MoveBack(Incr(s)))
  IN  ToEnd(IF CharUnder(back) \in Punct THEN Decr(back) ELSE back)

viBackwardWordEnd(s) == IF s.line = <<>> THEN Got(s) ELSE Repeat(s, backToEnd)

viForwardWordEnd(s) == Repeat(s, ToEnd)

backToBlankEnd(s) == ToBlankEnd(MoveBackBlank(MoveBackBlank(Incr(s))))

viBackwardBlankWordEnd(s) == Repeat(s, backToBlankEnd)

viForwardBlankWordEnd(s) == Repeat(s, ToBlankEnd)

\* To the next closing bracket unless on a bracket, then to its match.
viMatchBracket(s) ==
  LET on == CharUnder(s) \in {Open, Close}
      after == {i \in Pos(s) + 1 .. Len(s.line) - 1 : At(s.line, i) = Close}
      match(at, block) ==
        IF block.split = 0 THEN at
        ELSE IF block.pos # 0 THEN Move(at, -block.pos)
        ELSE IF block.split = 1 THEN Panic(at)
        ELSE Move(at, block.size)
      matchAt(at) == match(at, TokenizeBlock(s.line, Pos(at)))
  IN  IF ~on /\ after = {} THEN s ELSE matchAt(IF on THEN s ELSE Set(s, Min(after)))

viGotoColumn(s) ==
  LET to(bol, eol, column) ==
        IF column < 0 THEN Got(s)
        ELSE Set(Got(s), IF column > eol - Pos(s) THEN eol ELSE bol + column - 1)
      from(bol) == to(bol, EndOfLine(s.line, bol), Times(s))
  IN  from(BeginningOfLine(s.line, Pos(s)))

viEndOfLine(s) == endOfLine(s)

\* Also viFirstPrint.
viBackToIndent(s) ==
  Check([s EXCEPT !.pos = ToFirstNonSpace(s.line, BeginningOfLine(s.line, @), TRUE)])

viGotoMark(s) ==
  LET to(r) == Set(SelChecked(s), IF r.bpos # Pos(s) THEN r.bpos ELSE r.epos)
  IN  IF s.sel.active THEN to(SelPos(s))
      ELSE IF s.mark # -1 THEN Set(s, s.mark) ELSE s

-----------------------------------------------------------------------------
(* Changing text                                                           *)

\* Motions and selectors whose last character belongs to the selection.
Inclusive ==
  {"vi-end-word", "vi-end-bigword", "vi-find-next-char", "vi-find-next-char-skip",
   "vi-find-prev-char", "vi-find-prev-char-skip", "vi-match",
   "select-in-word", "select-a-word", "select-in-blank-word", "select-a-blank-word",
   "select-in-shell-word", "select-a-shell-word", "vi-select-inside", "vi-change-to"}

adjustSelectionPending(s) ==
  IF s.sel.active /\ s.active \in Inclusive THEN Visual(s, FALSE) ELSE s

\* The operator waits, with the selection started at the cursor.
WaitMotion(s) == Mark(Pend(s), Pos(s))

\* The line of the cursor is selected.
LineSelected(s) == Visual(Mark(s, Pos(s)), TRUE)

\* Mutant: the cursor stays where the motion has left it.
CutSelectionStays(s) == KillSelection(adjustSelectionPending(s))

\* The selection is cut into the registers.
CutSelection(s) ==
  LET cut(a) == Set(KillSelection(a), SelCursor(a)) IN cut(adjustSelectionPending(s))

viChangeEol(s) ==
  LET eol == endOfLine(Mark(s, Pos(s)))
  IN  viInsertMode(ResetIterations(Set(SelCut(eol), Pos(s))))

viKillEol(s) ==
  LET back(cut) == IF AtBeginningOfLine(cut.line, cut.pos) THEN cut ELSE Decr(cut)
  IN  ResetIterations(back(Set(KillSelection(endOfLine(Mark(s, Pos(s)))), Pos(s))))

\* The surrounding characters are changed for those of the key.
changeSurround(s, key) ==
  LET m == MatchSurround(key)
      pair == s.sel.surrounds
      at(i) == IF pair[i] > Len(s.line) THEN -1 ELSE pair[i]
  IN  ResetSelection(
        IF key = Esc THEN s
        ELSE IF \E i \in 1 .. 2 : at(i) \notin 0 .. Len(s.line) - 1 THEN Panic(s)
        ELSE [s EXCEPT !.line[at(1) + 1] = m.bchar, !.line[at(2) + 1] = m.echar])

viChangeTo(s, key) ==
  IF IsPending(s) THEN viInsertMode(SelCut(LineSelected(CancelPending(s))))
  ELSE IF Len(s.sel.surrounds) = 2 THEN changeSurround(s, key)
  ELSE IF s.sel.active THEN viInsertMode(CutSelection(s))
  ELSE IF s.caller = "c" THEN WaitMotion(s)
  ELSE IF s.caller = "C" THEN viChangeEol(s)
  ELSE s

isLine(text) == text[Len(text)] = Newline

\* A line that is killed or yanked whole ends with a newline.
WithNewline(text) ==
  IF text # <<>> /\ ~isLine(text) THEN Append(text, Newline) ELSE text

deleteLine(s) ==
  LET delete(l) == Set(WriteBuf(SelCut(l), WithNewline(CutText(l))), SelCursor(l))
  IN  delete(LineSelected(CancelPending(s)))

viDeleteTo(s) ==
  IF IsPending(s) THEN deleteLine(s)
  ELSE IF s.sel.active THEN viCommandMode(CutSelection(s))
  ELSE IF s.caller = "d" THEN WaitMotion(s)
  ELSE IF s.caller = "D" THEN viKillEol(s)
  ELSE s

\* The characters deleted one by one.  Past the end of the line, the code adds
\* a Nul and deletes the character before the cursor.
viDeleteChar(s) ==
  LET cut(st) == [st EXCEPT !.cut = Append(@, CharUnder(st.s)), !.s = CutUnder(@)]
      turn[i \in 0 .. Times(s)] ==
        IF i = 0 THEN [s |-> Got(s), cut |-> <<>>] ELSE cut(turn[i - 1])
      last == IF Times(s) < 1 THEN [s |-> Got(s), cut |-> <<>>] ELSE turn[Times(s)]
  IN  IF Pos(s) = Len(s.line) THEN s ELSE WriteBuf(last.s, last.cut)

viChangeChar(s, key) ==
  LET replaced(c) == key
  IN  IF key = Esc THEN s
      ELSE IF s.sel.active /\ s.sel.visual THEN SelReplace(s, replaced)
      ELSE ReplaceWith(s, key)

viBackwardDeleteChar(s) ==
  IF AtBeginningOfLine(s.line, s.pos) THEN s ELSE backwardDeleteChar(s)

viReplace(s, keys) == Decr(overwriteMode(s, keys))

SwapCase(c) == IF c \in DOMAIN Upper THEN ToUpper(c) ELSE ToLower(c)

viChangeCase(s) ==
  IF s.sel.active /\ s.sel.visual THEN SelReplace(s, SwapCase)
  ELSE IF Pos(s) = Len(s.line) THEN s
  ELSE ReplaceWith(s, SwapCase(CharUnder(s)))

\* The end of a selected line, before its newline.
withoutNewline(l, r) == IF At(l, r.epos - 1) = Newline THEN r.epos - 1 ELSE r.epos

\* Substituting the line keeps its newline, and on an empty line nothing is
\* done but to enter insert mode.
substituteLine(s) ==
  LET cut(l, r) ==
        Set(CutIn(WriteBuf(l, SelText(l)), r.bpos, withoutNewline(s.line, r)), r.bpos)
      line(l) == cut(l, SelPos(l))
  IN  IF OnEmptyLine(s.line, Pos(s)) THEN s ELSE line(LineSelected(s))

viSubstitute(s) ==
  viInsertMode(
    IF s.sel.active THEN Set(SelCut(s), SelCursor(s))
    ELSE IF s.caller = "s" THEN Repeat(s, CutUnder)
    ELSE IF s.caller = "S" THEN substituteLine(s)
    ELSE s)

viAddSurround(s, key) ==
  IF key = Esc THEN s
  ELSE Surround(s, MatchSurround(key).bchar, MatchSurround(key).echar)

viOpenLineAbove(s) ==
  LET at == IF OnEmptyLine(s.line, Pos(s)) THEN s ELSE beginningOfLine(s)
  IN  viInsertMode(Decr(InsertAt(at, <<Newline>>)))

viOpenLineBelow(s) ==
  LET at == IF OnEmptyLine(s.line, Pos(s)) THEN s ELSE endOfLine(s)
  IN  viInsertMode(InsertAt(at, <<Newline>>))

\* viDownCase and viUpCase.  Called twice in a row, they do not cancel the
\* first call.
changeCase(s, f(_)) ==
  IF ~IsPending(s) /\ ~s.sel.active THEN WaitMotion(s)
  ELSE Then(SelReplace(IF IsPending(s) THEN LineSelected(s) ELSE s, f), viCommandMode)

viDownCase(s) == changeCase(s, ToLower)

viUpCase(s) == changeCase(s, ToUpper)

-----------------------------------------------------------------------------
(* Killing and yanking                                                     *)

\* The characters are collected in the order in which they are deleted.
viRubout(s) ==
  LET cut(st) ==
        IF Pos(st.s) = 0 THEN st
        ELSE LET back == Decr(st.s)
             IN  [s |-> CutUnder(back), cut |-> Append(st.cut, CharUnder(back))]
      turn[i \in 0 .. Times(s)] ==
        IF i = 0 THEN [s |-> Got(s), cut |-> <<>>] ELSE cut(turn[i - 1])
      last == IF Times(s) < 1 THEN [s |-> Got(s), cut |-> <<>>] ELSE turn[Times(s)]
  IN  WriteBuf(last.s, last.cut)

\* A panic on an empty line, and past a newline that ends the buffer.
viYankWholeLine(s) ==
  LET copy(l, b, e) ==
        IF e < b THEN Panic(s) ELSE ResetSelection(WriteBuf(l, Slice(s.line, b, e)))
      yanked(l, r) ==
        IF r.epos < 1 THEN Panic(s) ELSE copy(l, r.bpos, withoutNewline(s.line, r))
      line(l) == yanked(l, SelPos(l))
  IN  line(LineSelected(s))

yankLine(s) ==
  LET copy(l) == WriteBuf(PopSelection(l), WithNewline(SelText(l)))
  IN  copy(LineSelected(CancelPending(s)))

\* Mutant: the last character of an inclusive motion is forgotten.
yankSelectionShort(s) == Set(WriteBuf(PopSelection(s), SelText(s)), PopCursor(s))

yankSelection(s) ==
  LET copy(a) == Set(WriteBuf(PopSelection(a), SelText(a)), PopCursor(a))
  IN  copy(adjustSelectionPending(s))

viYankTo(s) ==
  IF IsPending(s) THEN yankLine(s)
  ELSE IF s.sel.active THEN viCommandMode(yankSelection(s))
  ELSE IF s.caller = "y" THEN WaitMotion(s)
  ELSE IF s.caller = "Y" THEN viYankWholeLine(s)
  ELSE s

\* From the mark, where insert mode was entered, to the end of the line.
viKillLine(s) ==
  IF Pos(s) <= s.mark \/ Pos(s) = 0 THEN s
  ELSE KillSelection(Decr(MarkRange(s, s.mark, Len(s.line))))

\* The text put as many times as the argument says, where the cursor is.
putAt(s, text) ==
  LET Put(t) == InsertIn(t, Pos(s), text) IN Repeat(s, Put)

\* A text that ends with a newline is put below the line of the cursor.
viPutAfter(s) ==
  LET text == Active(s.buf)
      below(at) == IF Pos(at) = Len(s.line)
                   THEN <<Newline>> \o SubSeq(text, 1, Len(text) - 1) ELSE text
      line(at) == putAt(Incr(at), below(at))
      after(r) == IF text = <<>> THEN r
                  ELSE IF ~isLine(text) THEN putAt(Incr(r), text)
                  ELSE line(IF OnEmptyLine(s.line, Pos(s)) THEN r ELSE endOfLine(r))
  IN  after([s EXCEPT !.buf = ResetBuffers(@)])

viPutBefore(s) ==
  LET text == Active(s.buf)
      put(at, t) == Set(putAt(at, t), Pos(at))
      line(bol) == IF OnEmptyLine(s.line, bol.pos)
                   THEN put(Decr(bol), Append(text, Newline)) ELSE put(bol, text)
      before(r) == IF text = <<>> THEN r
                   ELSE IF ~isLine(text) THEN put(r, text)
                   ELSE line(Check([r EXCEPT !.pos = BeginningOfLine(s.line, @)]))
  IN  before([s EXCEPT !.buf = ResetBuffers(@)])

viSetBuffer(s, key) ==
  [s EXCEPT !.buf = IF key = Esc THEN ResetBuffers(@) ELSE SetActive(ResetBuffers(@), key)]

-----------------------------------------------------------------------------
(* Selecting text                                                          *)

viSelectABlankWord(s) ==
  LET c == Check(s) IN SelectABlankWord([c EXCEPT !.pos = CheckCommand(s.line, @)])

viSelectAShellWord(s) == SelectShellWord(s)

viSelectAWord(s) == SelectAWord(s)

viSelectInBlankWord(s) ==
  LET w == SelectBlankWord(s.line, Pos(s)) IN Mark(Set(s, w.epos), w.bpos)

viSelectInShellWord(s) ==
  LET select(at, quoted) ==
        IF quoted = NoRange THEN viSelectInBlankWord(at)
        ELSE Mark(Set(s, quoted.epos - 1), quoted.bpos + 1)
      from(at) == select(at, quotesAround(s.line, Pos(at)))
  IN  from(blankBegin(s))

viSelectInWord(s) == SelectInWord(s)

\* The key is the one that follows on the stack.
viSelectInside(s, key) ==
  LET r == FindSurround(s.line, key, Pos(s))
      in == IF s.caller = "i" THEN 1 ELSE 0
  IN  IF r = NoRange THEN s ELSE Set(Mark(s, r.bpos + in), r.epos - in)

viSelectSurround(s, key) ==
  LET r == FindSurround(s.line, key, Pos(s))
  IN  IF key = Esc \/ r.bpos = -1 \/ r.epos = -1 THEN s
      ELSE MarkSurround(s, r.bpos, r.epos)

viSetMark(s) == Mark(s, Pos(s))

\* The commands f, t, F and T read a key for each turn of their argument.
viFindKeys(s, forward, skip, keys) ==
  LET turn[i \in 0 .. Len(keys)] ==
        IF i = 0 THEN Got(s) ELSE findChar(turn[i - 1], forward, skip, keys[i])
  IN  turn[Len(keys)]
=============================================================================
