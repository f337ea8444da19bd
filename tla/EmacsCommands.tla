--------------------------- MODULE EmacsCommands ---------------------------
(***************************************************************************)
(* The editing commands of emacs.go, as operators from state to state.     *)
(* Those that read keys take them as a last parameter, Esc standing for    *)
(* the key that aborts.  Left out are calls to the undo history, to the    *)
(* completion engine and to the display, which other modules model or      *)
(* which leave this state alone.                                           *)
(***************************************************************************)
EXTENDS Shell

CONSTANTS
  Esc,        \* the key that aborts a command reading a key
  Backspace,  \* \C-?, which overwrite mode tells apart
  Autopairs   \* the option autopairs

-----------------------------------------------------------------------------
(* Movement                                                                *)

forwardChar(s) == Repeat(s, Incr)

backwardChar(s) == Repeat(s, Decr)

MoveEnd(s) == Move(s, ForwardEnd(s.line, Tokenize(s.line), Pos(s)) + 1)
MoveBack(s) == Move(s, Backward(s.line, Tokenize(s.line), Pos(s)))
MoveBackBlank(s) == Move(s, Backward(s.line, TokenizeSpace(s.line), Pos(s)))

forwardWord(s) == Repeat(s, MoveEnd)

backwardWord(s) == Repeat(s, MoveBack)

forwardShell(s) ==
  LET ToWordEnd(sel) == Set(PopSelection(sel), SelPos(sel).epos)
  IN  Then(SelectAShellWord(s), ToWordEnd)

forwardShellWord(s) == Repeat(s, forwardShell)

toShellBegin(s, r) ==
  LET ToWordBegin(sel) == Set(sel, r.bpos) IN Then(markShell(s, r), ToWordBegin)

atShellBegin(s) == toShellBegin(s, shellRange(s))

\* The selection that finds the word is not taken back.
backwardShell(s) == atShellBegin(MoveBackBlank(s))

backwardShellWord(s) == Repeat(s, backwardShell)

\* In Vim, 0 is a digit once an argument is being typed.
beginningOfLine(s) ==
  IF ~IsEmacs(s) /\ s.iter.active
  THEN [s EXCEPT !.iter = AddIterations(@, 0)]
  ELSE Check([s EXCEPT !.pos = BeginningOfLine(s.line, @)])

\* A panic when the cursor is stale: the command was waiting, and the one that
\* ran before it has cut the line.
endOfLine(s) ==
  IF s.line # <<>> /\ s.pos > Len(s.line) THEN Panic(s)
  ELSE Check([s EXCEPT !.pos = EndOfLineAppend(s.line, @)])

upLine(s) == Check([Got(s) EXCEPT !.pos = LineMove(s.line, @, -Times(s))])

downLine(s) == Check([Got(s) EXCEPT !.pos = LineMove(s.line, @, Times(s))])

-----------------------------------------------------------------------------
(* Changing text                                                           *)

CutUnder(s) == CutRuneAt(Check(s), Pos(s))

deleteChar(s) == Repeat(s, CutUnder)

\* completion.AutopairDelete: with the cursor between the two characters of a
\* pair, the closing one is cut too.
AutopairDelete(s) ==
  LET before == At(s.line, Pos(s) - 1)
  IN  IF before \in {Open, Close, SingleQuote, DoubleQuote}
         /\ CharUnder(s) = (IF before = Open THEN Close ELSE before)
      THEN CutUnder(s) ELSE s

CutBefore(s) == CutUnder(Decr(s))

backwardDeleteChar(s) ==
  IF Pos(s) = 0 THEN s
  ELSE IF Times(s) = 1 /\ Autopairs THEN CutBefore(AutopairDelete(Got(s)))
  ELSE Repeat(s, CutBefore)

forwardBackwardDeleteChar(s) ==
  IF Pos(s) = Len(s.line) THEN backwardDeleteChar(s) ELSE deleteChar(s)

tabInsert(s) == InsertAt(s, <<Space>>)

\* completion.AutopairInsertOrJump: the closing character is inserted along
\* with the opening one, and jumped over when it is typed.
AutopairJumps(s, key) ==
  key \in {Close, SingleQuote, DoubleQuote} /\ CharUnder(s) = key

AutopairInsert(s, key) ==
  IF \/ key = Open
     \/ /\ key \in {SingleQuote, DoubleQuote}
        /\ GetQuotedWordStart(Slice(s.line, 0, Pos(s))) = -1
  THEN InsertIn(s, Pos(s), <<MatchSurround(key).echar>>)
  ELSE s

\* The characters of the model are printable, so that quoting a key gives it.
selfInsert(s) ==
  LET key == s.caller
  IN  IF Autopairs /\ AutopairJumps(s, key) THEN Incr(s)
      ELSE InsertAt(IF Autopairs THEN AutopairInsert(s, key) ELSE s, <<key>>)

quotedInsert(s, key) == InsertAt(s, <<key>>)

transposeChars(s) ==
  LET p == IF Pos(s) = Len(s.line) THEN Pos(s) - 1 ELSE Pos(s)
      l == s.line
  IN  IF Pos(s) < 2 \/ Len(l) < 2 THEN s
      ELSE [s EXCEPT !.line[p] = l[p + 1], !.line[p + 1] = l[p]]

\* The line with its ranges w and t, w first, exchanged.  A panic when they
\* are out of order or not on the line.
Exchange(s, w, t) ==
  LET l == s.line
  IN  IF w.bpos < 0 \/ w.epos > t.bpos THEN Panic(s)
      ELSE Set([s EXCEPT !.line = Slice(l, 0, w.bpos) \o Slice(l, t.bpos, t.epos)
                 \o Slice(l, w.epos, t.bpos) \o Slice(l, w.bpos, w.epos)
                 \o Slice(l, t.epos, Len(l))], t.epos)

SelectInWord(s) ==
  LET w == SelectWord(s.line, Pos(s)) IN Mark(Set(s, w.epos), w.bpos)

MoveForward(s) == Move(s, Forward(s.line, Tokenize(s.line), Pos(s)))

transposeWords(s) ==
  LET from == [s EXCEPT !.pos = CheckCommand(s.line, ToFirstNonSpace(s.line, @, TRUE))]
      Word(at) == Visual(SelectInWord(at), FALSE)
      exchange(done, t, w) ==
        IF t.bpos = 0 THEN Set(done, Pos(s))
        ELSE IF w.bpos > t.bpos THEN Exchange(done, t, w)
        ELSE Exchange(done, w, t)
      with(t, second) == exchange(PopSelection(second), t, SelPos(second))
      Other(t, at) ==
        IF t.epos >= Len(s.line) - 1 \/ s.iter.active
        THEN Repeat(at, MoveBack) ELSE Repeat(at, MoveForward)
      select(first, t) == with(t, Word(Other(t, Set(PopSelection(first), t.bpos))))
      begin(first) == select(first, SelPos(first))
  IN  begin(Word(from))

blankBegin(s) == Set(s, SelectBlankWord(s.line, Pos(s)).bpos)

\* vi-select-a-shell-word, from the beginning of the blank word.
SelectShellWord(s) ==
  SelectAShellWord(blankBegin([s EXCEPT !.pos = CheckCommand(s.line, @)]))

shellTransposeWords(s) ==
  LET exchange(done, w, t) ==
        IF w.epos > t.bpos THEN Set(done, Pos(s)) ELSE Exchange(done, w, t)
      before(done, t) ==
        LET Swap(second) == exchange(PopSelection(second), SelPos(second), t)
        IN  Then(SelectShellWord(backwardShellWord(Set(done, t.bpos))), Swap)
      Previous(first) == before(PopSelection(first), SelPos(first))
  IN  Then(SelectShellWord(s), Previous)

\* To the beginning of the word, and to its end.
WordBegin(s) == MoveBack(Incr(s))

caseWord(s, f(_)) ==
  LET b == WordBegin(s)
      e == Move(Mark(b, Pos(b)), ForwardEnd(s.line, Tokenize(s.line), Pos(b)))
  IN  Set(SelReplace(e, f), Pos(s))

downCaseWord(s) == caseWord(s, ToLower)

upCaseWord(s) == caseWord(s, ToUpper)

capitalizeWord(s) ==
  LET b == WordBegin(s)
  IN  IF s.line = <<>> THEN s
      ELSE Set(ReplaceWith(b, ToUpper(CharUnder(b))), Pos(s))

\* One key of overwrite mode.  st is the state with the replaced characters
\* and the length of the line at the start.
overwriteKey(st, key) ==
  LET s == st.s
      recover(back) ==
        IF st.cache # <<>> /\ Pos(back) < st.start
        THEN [st EXCEPT !.s = ReplaceWith(back, st.cache[Len(st.cache)]),
                        !.cache = SubSeq(@, 1, Len(@) - 1)]
        ELSE [st EXCEPT !.s = back]
  IN  IF key = Backspace
      THEN recover(IF Pos(s) > st.start THEN backwardDeleteChar(s) ELSE Decr(s))
      ELSE IF Pos(s) = Len(s.line) THEN [st EXCEPT !.s = InsertAt(s, <<key>>)]
      ELSE [st EXCEPT !.s = Incr(ReplaceWith(s, key)), !.cache = Append(@, CharUnder(s))]

\* Reads keys until Esc.
overwriteMode(s, keys) ==
  LET st[n \in 0 .. Len(keys)] ==
        IF n = 0 THEN [s |-> s, cache |-> <<>>, start |-> Len(s.line)]
        ELSE overwriteKey(st[n - 1], keys[n])
  IN  st[Len(keys)].s

deleteHorizontalWhitespace(s) ==
  LET back == FirstNonSpace(s, FALSE)
      b == IF Pos(back) # Pos(s) THEN Incr(back) ELSE back
      fwd == FirstNonSpace(b, TRUE)
      e == IF Pos(fwd) # Pos(s) THEN Decr(fwd) ELSE fwd
  IN  Set(CutIn(s, Pos(b), Pos(e)), Pos(b))

deleteWord(s) ==
  LET m == Mark(s, Pos(s))
  IN  SelCut(Move(m, ForwardEnd(s.line, Tokenize(s.line), Pos(s))))

quoteRegion(s) ==
  Then(Surround(s, SingleQuote, SingleQuote), Incr)

\* The single quotes of the first line become double ones.
quoteLine(s) ==
  LET first == Min(newlines(s.line))
      inner == [i \in DOMAIN s.line |->
                  IF i <= first /\ s.line[i] = SingleQuote THEN DoubleQuote ELSE s.line[i]]
  IN  IF s.line = <<>> THEN s
      ELSE [s EXCEPT !.line = <<SingleQuote>> \o inner \o <<SingleQuote>>]

-----------------------------------------------------------------------------
(* Killing and yanking                                                     *)

WriteBuf(s, text) == [s EXCEPT !.buf = Write(@, text)]

\* The selection is cut into the kills.
KillSelection(s) == WriteBuf(SelCut(s), CutText(s))

killLine(s) ==
  LET r == ResetIterations(s)
      eol == EndOfLineAppend(s.line, Pos(s))
  IN  IF s.line = <<>> THEN r
      ELSE Set(KillSelection(MarkRange(Set(r, eol), Pos(s), eol)), Pos(s))

backwardKillLine(s) ==
  LET kill(r, bol) ==
        IF s.line = <<>> THEN r ELSE KillSelection(MarkRange(Set(r, bol), bol, Pos(s)))
  IN  kill(ResetIterations(s), BeginningOfLine(s.line, Pos(s)))

\* Also killBuffer.  The cursor is brought back by the check that follows.
killWholeLine(s) ==
  IF s.line = <<>> THEN s ELSE [WriteBuf(s, s.line) EXCEPT !.line = <<>>]

killWord(s) ==
  LET at == FirstNonSpace(s, TRUE)
      to == Move(at, Forward(s.line, TokenizeSpace(s.line), Pos(at)) - 1)
  IN  Set(KillSelection(MarkRange(to, Pos(s), Pos(to))), Pos(s))

backwardKillWord(s) == KillSelection(MoveBack(Mark(s, Pos(s))))

killRegion(s) == IF s.sel.active THEN KillSelection(s) ELSE s

\* The text of the selection goes to the kills and the selection is dropped.
CopySelection(s) == ResetSelection(WriteBuf(s, SelText(s)))

copyRegionAsKill(s) == IF s.sel.active THEN CopySelection(s) ELSE s

copyBackwardWord(s) == CopySelection(MoveBack(Mark(s, Pos(s))))

copyForwardWord(s) ==
  CopySelection(Move(Mark(s, Pos(s)),
                     Forward(s.line, Tokenize(s.line), Pos(s)) + 1))

\* The register is forgotten by the first reading.
yank(s) ==
  LET text == Active(s.buf)
      Put(t) == InsertAt(t, text)
  IN  Repeat([s EXCEPT !.buf = ResetBuffers(@)], Put)

PutPop(s) == [InsertAt(s, GetKill(s.buf)) EXCEPT !.buf = PopKill(@)]

\* Mutant: the kill is popped once whatever the argument.
yankPopOnce(s) ==
  LET Put(t) == InsertAt(t, GetKill(s.buf))
  IN  [Repeat(s, Put) EXCEPT !.buf = PopKill(@)]

yankPop(s) == Repeat(s, PutPop)

\* A panic when no word is found after the cursor, the line being empty or the
\* selection ending before it.
shellKillWord(s) ==
  LET kill(sel, e) ==
        IF e < Pos(s) THEN Panic(s)
        ELSE ResetSelection(Set(CutIn(WriteBuf(sel, Slice(s.line, Pos(s), e)), Pos(s), e),
                                Pos(s)))
      Kill(sel) == kill(sel, SelPos(sel).epos)
  IN  Then(SelectShellWord(s), Kill)

shellBackwardKillWord(s) ==
  LET kill(sel, b) ==
        IF b > Pos(s) THEN Panic(s)
        ELSE ResetSelection(CutIn(WriteBuf(Set(sel, b), Slice(s.line, b, Pos(s))), b, Pos(s)))
      killFrom(sel, b) == kill(sel, Pos(FirstNonSpace(Set(sel, b), TRUE)))
      KillWord(sel) == killFrom(sel, SelPos(sel).bpos)
      with(quote, from) ==
        IF quote = -1 THEN Then(SelectShellWord(from), KillWord) ELSE killFrom(from, quote)
  IN  IF Pos(s) = 0 THEN s
      ELSE with(GetQuotedWordStart(Slice(s.line, 0, Pos(s))), FirstNonSpace(Decr(s), FALSE))

\* Selection.InsertAt puts the selected text at the cursor.  The cursor is
\* moved by the bytes of the text.
copyPrevShellWord(s) ==
  LET put(at, text) ==
        Move(ResetSelection(InsertIn(at, Pos(s), SelText(at))), Bytes(text, 0, Len(text)))
      Copy(sel) == IF s.line = <<>> THEN sel ELSE put(Set(sel, Pos(s)), SelText(sel))
  IN  Then(Then(Loop(s, 2, backwardShellWord), SelectShellWord), Copy)

-----------------------------------------------------------------------------
(* Numeric arguments and the mark                                          *)

\* Also vi-arg-digit.
digitArgument(s) ==
  [s EXCEPT !.iter = AddIterations(@, IF s.caller = "-" THEN Minus ELSE Digits[s.caller])]

\* With an argument the mark is set at the cursor, and without one at
\* position 1.
setMark(s) ==
  IF s.iter.active THEN SetMark(s)
  ELSE IF Times(s) > Len(s.line) - 1 THEN Got(s)
  ELSE Set(SetMark(Set(Got(s), Times(s))), Pos(s))

exchangePointAndMark(s) ==
  LET m == s.mark
      swapped == Set(SetMark(s), m)
  IN  IF m < 0 THEN Set(SetMark(Set(s, 0)), Pos(s))
      ELSE Visual(MarkRange(swapped, swapped.mark, Pos(swapped)), FALSE)

\* viFindChar: the argument, if it is still set, and then the key.
findChar(s, forward, skip, key) ==
  LET step(t) ==
        LET p == Find(t.line, key, Pos(t), forward)
        IN  IF p = -1 THEN t
            ELSE Set(t, IF ~skip THEN p ELSE IF forward THEN p - 1 ELSE p + 1)
  IN  IF key = Esc THEN s ELSE Repeat(s, step)

characterSearch(s, key) == findChar(Got(s), Times(s) > 0, FALSE, key)

characterSearchBackward(s, key) == findChar(Got(s), Times(s) < 0, FALSE, key)

emacsEditingMode(s) ==
  [ResetSelection(ResetIterations(s)) EXCEPT !.buf = ResetBuffers(@), !.main = "emacs"]
=============================================================================
