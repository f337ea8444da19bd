------------------------------- MODULE Editor -------------------------------
(***************************************************************************)
(* The editing loop of the shell: a key is matched with a command in the   *)
(* local keymap or else in the main one, the command runs, then the        *)
(* operator that waits for it, and the cursor and the numeric argument are *)
(* checked before the next key (Shell.run and Shell.execute).              *)
(***************************************************************************)
EXTENDS ViCommands

CONSTANTS
  Binds,      \* keymap -> key -> name of a command
  ReadKeys,   \* the keys typed to a command that reads one, Esc among them
  Lines0,     \* function from the lines at the start to how many keys follow
  InitKills,  \* the kills of earlier lines
  MaxLen, MaxDigits, MaxTyped  \* bounds

VARIABLES
  ed,     \* the state of the shell
  steps   \* how many keys are still to come

vars == <<ed, steps>>

-----------------------------------------------------------------------------
(* Commands                                                                *)

\* The keys that a command reads once it runs.
KeysRead(action, s) ==
  LET one == [1 .. 1 -> ReadKeys]
      turns == IF Times(s) < 0 THEN 0 ELSE Times(s)
  IN  CASE action \in {"character-search", "character-search-backward", "vi-change-char",
                       "vi-add-surround", "vi-set-buffer", "vi-select-surround"} -> one
        [] action = "quoted-insert" -> [1 .. 1 -> ReadKeys \ {Esc}]
        \* a letter would have matched a longer bind
        [] action = "vi-select-inside" -> [1 .. 1 -> ReadKeys \ (Alnum \cup {Esc})]
        [] action = "vi-change-to" /\ ~IsPending(s) /\ Len(s.sel.surrounds) = 2 -> one
        [] action \in {"vi-find-next-char", "vi-find-next-char-skip",
                       "vi-find-prev-char", "vi-find-prev-char-skip"} ->
             [1 .. turns -> ReadKeys]
        [] action \in {"overwrite-mode", "vi-replace"} ->
             UNION {[1 .. n -> (ReadKeys \ {Esc}) \cup {Backspace}] : n \in 0 .. MaxTyped}
        [] OTHER -> {<<>>}

\* The commands by their names: the tables of emacs.go and vim.go.
EmacsCommand(action, s, keys) ==
  CASE action = "none" -> s  \* the key is bound to nothing
    [] action = "forward-char" -> forwardChar(s)
    [] action = "backward-char" -> backwardChar(s)
    [] action = "forward-word" -> forwardWord(s)
    [] action = "backward-word" -> backwardWord(s)
    [] action = "shell-forward-word" -> forwardShellWord(s)
    [] action = "shell-backward-word" -> backwardShellWord(s)
    [] action = "beginning-of-line" -> beginningOfLine(s)
    [] action = "end-of-line" -> endOfLine(s)
    [] action = "previous-screen-line" -> upLine(s)
    [] action = "next-screen-line" -> downLine(s)
    [] action = "delete-char" -> deleteChar(s)
    [] action = "backward-delete-char" -> backwardDeleteChar(s)
    [] action = "forward-backward-delete-char" -> forwardBackwardDeleteChar(s)
    [] action = "quoted-insert" -> quotedInsert(s, keys[1])
    [] action = "tab-insert" -> tabInsert(s)
    [] action = "self-insert" -> selfInsert(s)
    [] action = "transpose-chars" -> transposeChars(s)
    [] action = "transpose-words" -> transposeWords(s)
    [] action = "shell-transpose-words" -> shellTransposeWords(s)
    [] action = "down-case-word" -> downCaseWord(s)
    [] action = "up-case-word" -> upCaseWord(s)
    [] action = "capitalize-word" -> capitalizeWord(s)
    [] action = "overwrite-mode" -> overwriteMode(s, keys)
    [] action = "delete-horizontal-whitespace" -> deleteHorizontalWhitespace(s)
    [] action = "delete-word" -> deleteWord(s)
    [] action = "quote-region" -> quoteRegion(s)
    [] action = "quote-line" -> quoteLine(s)
    [] action = "kill-line" -> killLine(s)
    [] action = "backward-kill-line" -> backwardKillLine(s)
    [] action = "kill-whole-line" -> killWholeLine(s)
    [] action = "kill-word" -> killWord(s)
    [] action = "backward-kill-word" -> backwardKillWord(s)
    [] action = "kill-region" -> killRegion(s)
    [] action = "copy-region-as-kill" -> copyRegionAsKill(s)
    [] action = "copy-backward-word" -> copyBackwardWord(s)
    [] action = "copy-forward-word" -> copyForwardWord(s)
    [] action = "yank" -> yank(s)
    [] action = "yank-pop" -> yankPop(s)
    [] action = "shell-kill-word" -> shellKillWord(s)
    [] action = "shell-backward-kill-word" -> shellBackwardKillWord(s)
    [] action = "copy-prev-shell-word" -> copyPrevShellWord(s)
    [] action = "digit-argument" -> digitArgument(s)
    [] action = "set-mark" -> setMark(s)
    [] action = "exchange-point-and-mark" -> exchangePointAndMark(s)
    [] action = "character-search" -> characterSearch(s, keys[1])
    [] action = "character-search-backward" -> characterSearchBackward(s, keys[1])
    [] action = "emacs-editing-mode" -> emacsEditingMode(s)

\* The commands that wait for a motion.
Operators == {"vi-change-to", "vi-delete-to", "vi-yank-to", "vi-down-case", "vi-up-case"}

OperatorCommand(action, s, keys) ==
  CASE action = "vi-change-to" -> viChangeTo(s, IF keys = <<>> THEN Esc ELSE keys[1])
    [] action = "vi-delete-to" -> viDeleteTo(s)
    [] action = "vi-yank-to" -> viYankTo(s)
    [] action = "vi-down-case" -> viDownCase(s)
    [] action = "vi-up-case" -> viUpCase(s)

ViCommand(action, s, keys) ==
  CASE action \in Operators -> OperatorCommand(action, s, keys)
    [] action = "vi-append-mode" -> viAddNext(s)
    [] action = "vi-append-eol" -> viAddEol(s)
    [] action = "vi-insertion-mode" -> viInsertMode(s)
    [] action = "vi-insert-beg" -> viInsertBol(s)
    [] action = "vi-movement-mode" -> viCommandMode(s)
    [] action = "vi-visual-mode" -> viVisualMode(s)
    [] action = "vi-visual-line-mode" -> viVisualLineMode(s)
    [] action = "vi-backward-char" -> viBackwardChar(s)
    [] action = "vi-forward-char" -> viForwardChar(s)
    [] action = "vi-backward-word" -> viBackwardWord(s)
    [] action = "vi-forward-word" -> viForwardWord(s)
    [] action = "vi-backward-bigword" -> viBackwardBlankWord(s)
    [] action = "vi-forward-bigword" -> viForwardBlankWord(s)
    [] action = "vi-end-word" -> viForwardWordEnd(s)
    [] action = "vi-end-bigword" -> viForwardBlankWordEnd(s)
    [] action = "vi-backward-end-word" -> viBackwardWordEnd(s)
    [] action = "vi-backward-end-bigword" -> viBackwardBlankWordEnd(s)
    [] action = "vi-match" -> viMatchBracket(s)
    [] action = "vi-column" -> viGotoColumn(s)
    [] action = "vi-end-of-line" -> viEndOfLine(s)
    [] action = "vi-back-to-indent" -> viBackToIndent(s)
    [] action = "vi-goto-mark" -> viGotoMark(s)
    [] action = "vi-delete" -> viDeleteChar(s)
    [] action = "vi-change-char" -> viChangeChar(s, keys[1])
    [] action = "vi-backward-delete-char" -> viBackwardDeleteChar(s)
    [] action = "vi-replace" -> viReplace(s, keys)
    [] action = "vi-change-case" -> viChangeCase(s)
    [] action = "vi-subst" -> viSubstitute(s)
    [] action = "vi-change-eol" -> viChangeEol(s)
    [] action = "vi-add-surround" -> viAddSurround(s, keys[1])
    [] action = "vi-open-line-above" -> viOpenLineAbove(s)
    [] action = "vi-open-line-below" -> viOpenLineBelow(s)
    [] action = "vi-kill-eol" -> viKillEol(s)
    [] action = "vi-rubout" -> viRubout(s)
    [] action = "vi-yank-whole-line" -> viYankWholeLine(s)
    [] action = "vi-kill-line" -> viKillLine(s)
    [] action = "vi-put-after" -> viPutAfter(s)
    [] action = "vi-put-before" -> viPutBefore(s)
    [] action = "vi-set-buffer" -> viSetBuffer(s, keys[1])
    [] action = "select-a-blank-word" -> viSelectABlankWord(s)
    [] action = "select-a-shell-word" -> viSelectAShellWord(s)
    [] action = "select-a-word" -> viSelectAWord(s)
    [] action = "select-in-blank-word" -> viSelectInBlankWord(s)
    [] action = "select-in-shell-word" -> viSelectInShellWord(s)
    [] action = "select-in-word" -> viSelectInWord(s)
    [] action = "vi-select-inside" -> viSelectInside(s, keys[1])
    [] action = "vi-select-surround" -> viSelectSurround(s, keys[1])
    [] action = "vi-arg-digit" -> digitArgument(s)
    [] action = "vi-set-mark" -> viSetMark(s)
    [] action = "vi-find-next-char" -> viFindKeys(s, TRUE, FALSE, keys)
    [] action = "vi-find-next-char-skip" -> viFindKeys(s, TRUE, TRUE, keys)
    [] action = "vi-find-prev-char" -> viFindKeys(s, FALSE, FALSE, keys)
    [] action = "vi-find-prev-char-skip" -> viFindKeys(s, FALSE, TRUE, keys)
    [] OTHER -> EmacsCommand(action, s, keys)

\* The command that waits, if it is to run now.
Waiting(s) ==
  IF s.fault # "none" \/ s.iter.pending \/ s.pending = <<>> \/ s.skip THEN {}
  ELSE {s.pending[Len(s.pending)]}

\* Engine.RunPending: only operators have themselves called again.
RunPending(s, keys) ==
  IF s.fault # "none" \/ s.iter.pending \/ s.pending = <<>> THEN s
  ELSE IF s.skip THEN [s EXCEPT !.skip = FALSE]
  ELSE LET popped == [s EXCEPT !.pending = SubSeq(@, 1, Len(@) - 1)]
       IN  DropLocal(OperatorCommand(s.pending[Len(s.pending)], popped, keys))

\* Mutant: the cursor is not checked after the command.
AfterRunUnchecked(s) ==
  [ResetPostRunIterations(s) EXCEPT !.active = "none", !.caller = "none"]

\* The end of Shell.execute, and updatePosRunHints.  The matched command and
\* its key are read by the command alone, and so are forgotten here.
AfterRun(s) ==
  [ResetPostRunIterations(CheckAfter(s)) EXCEPT !.active = "none", !.caller = "none"]

-----------------------------------------------------------------------------
(* The loop                                                                *)

\* The local keymap is tried first.
Matched(s, key) ==
  IF s.local # "none" /\ key \in DOMAIN Binds[s.local] THEN Binds[s.local][key]
  ELSE Binds[s.main][key]

MatchedKeys(s) ==
  DOMAIN Binds[s.main] \cup (IF s.local = "none" THEN {} ELSE DOMAIN Binds[s.local])

Called(s, key) == [s EXCEPT !.active = Matched(s, key), !.caller = key]

\* A fault ends the program in the middle, and the state is left as it was
\* before.
end(called, s) ==
  IF s.fault = "none" THEN AfterRun(s) ELSE [called EXCEPT !.fault = s.fault]

\* What follows the command in Shell.execute: the command that waits for it
\* and the checks.
finish(called, after, then) == end(called, RunPending(after, then))

Init ==
  \E l \in DOMAIN Lines0, m \in {"emacs", "vi-insert", "vi-command"}, kills \in InitKills :
    \E p \in 0 .. Len(l) :
      /\ m = "vi-command" => CheckCommand(l, p) = p
      /\ steps = Lines0[l]
      /\ ed = [line |-> l, pos |-> p, mark |-> -1, sel |-> NoSelection,
               iter |-> NoIterations, buf |-> [NewBuffers EXCEPT !.num = kills],
               main |-> m, local |-> "none", pending |-> <<>>, skip |-> FALSE,
               active |-> "none", caller |-> "none", fault |-> "none"]

\* The keys of the command that waits, if it runs after this one.
KeysThen(after) ==
  IF Waiting(after) = {} THEN {<<>>}
  ELSE UNION {KeysRead(w, after) : w \in Waiting(after)}

\* One key: Shell.execute on the command that it matches.
Key(key) ==
  /\ ed.fault = "none"
  /\ steps > 0
  /\ steps' = steps - 1
  /\ \E called \in {Called(ed, key)} :
       \E read \in KeysRead(called.active, called) :
         \E after \in {ViCommand(called.active, called, read)} :
           \E then \in KeysThen(after) : ed' = finish(called, after, then)
  /\ Len(ed'.line) <= MaxLen
  /\ Len(ed'.iter.times) <= MaxDigits

Next == \E key \in MatchedKeys(ed) : Key(key)

Spec == Init /\ [][Next]_vars

-----------------------------------------------------------------------------
(* Properties                                                              *)

\* Types; the cursor is on the line and, in Vim's command mode, on one of its
\* characters unless the line is empty; the kills are numbered from 0 on.
TypeOK ==
  /\ ed.line \in Seq(Char \cup {Nul})
  /\ ed.pos \in 0 .. Len(ed.line)
  /\ ed.mark \in -1 .. Len(ed.line) - 1
  /\ ed.main \in {"emacs", "vi-insert", "vi-command"}
  /\ ed.local \in {"none", "vi-opp", "visual"}
  /\ ed.main = "vi-command" => CheckCommand(ed.line, ed.pos) = ed.pos
  /\ DOMAIN ed.buf.num = 0 .. Cardinality(DOMAIN ed.buf.num) - 1

\* A command that nothing waits for panics or hangs in these cases only: the
\* shell word commands do not end on a line with a newline or a character of
\* several bytes, a count takes h and l off the line, % is on nested or
\* unmatched brackets, Y is on an empty line, three commands slice the line
\* with its ends out of order, and a selection has fallen off the line.
FaultCauses ==
  ed.fault # "none" /\ ed.pending = <<>> =>
    \/ ed.fault = "hang" /\ Range(ed.line) \cap (Wide \cup {Newline}) # {}
    \/ ed.active \in {"vi-forward-char", "vi-backward-char"} /\ Times(ed) > 1
    \/ ed.active = "vi-match" /\ Close \in Range(ed.line)
    \/ ed.active \in {"vi-yank-to", "vi-yank-whole-line"} /\ ed.pos = Len(ed.line)
    \/ ed.active \in {"transpose-words", "shell-kill-word", "shell-backward-kill-word"}
    \/ ed.active = "shell-transpose-words" /\ ed.line = <<>>
    \/ LenPanics(ed)

\* The state after a command that reads no key.
Executed(called) == finish(called, ViCommand(called.active, called, <<>>), <<>>)

Pressed(s, key) == IF s.fault = "none" THEN Executed(Called(s, key)) ELSE s

\* What a sequence of keys would make of the present state.
Typed[keys \in Seq(STRING)] ==
  IF keys = <<>> THEN ed
  ELSE Pressed(Typed[SubSeq(keys, 1, Len(keys) - 1)], keys[Len(keys)])

AfterKeys(seqs) == [keys \in seqs |-> Typed[keys]]

\* A mode in which nothing is under way: no argument, operator, selection or
\* register.
Rests(mode) ==
  /\ ed.fault = "none"
  /\ ed.main = mode /\ ed.local = "none" /\ ed.pending = <<>>
  /\ ed.iter = NoIterations /\ ed.sel = NoSelection /\ ~ed.buf.selected

\* Every character takes one byte, which the motions by words count on.
Narrow == Range(ed.line) \cap Wide = {}

\* The motions and text objects that operators are combined with.
Motions ==
  {"h", "l", "b", "w", "B", "W", "e", "E", "ge", "%", "|", "$", "0", "^",
   "aW", "aa", "aw", "iW", "ia", "iw"}

\* The operators agree on what a motion selects: y stores in the registers what
\* d stores, c deletes what d deletes and stores it too, and y leaves the line.
OperatorsAgree ==
  Rests("vi-command") =>
    \A m \in Motions :
      \A after \in {AfterKeys({<<op, m>> : op \in {"d", "y", "c"}})} :
        LET d == after[<<"d", m>>]
            y == after[<<"y", m>>]
            c == after[<<"c", m>>]
        IN  d.fault = "none" =>
              y.buf = d.buf /\ y.line = ed.line /\ c.buf = d.buf /\ c.line = d.line

\* The commands that cut text in a mode, and those that put it back.
Cuts ==
  IF ed.main = "emacs"
  THEN {<<"kill-line">>, <<"backward-kill-line">>, <<"kill-whole-line">>, <<"kill-word">>,
        <<"backward-kill-word">>, <<"shell-kill-word">>, <<"shell-backward-kill-word">>}
  ELSE {<<"d", m>> : m \in Motions}

Puts == IF ed.main = "emacs" THEN {"yank"} ELSE {"p", "P"}

\* What was cut can be put back: whatever a kill command has taken off the line,
\* yank puts back in its place; what an operator has deleted with its motion, a
\* put before or after the cursor restores, unless the text ends with a newline
\* and is put as a line.
CutRestored ==
  (Rests("emacs") /\ Narrow) \/ Rests("vi-command") =>
    \A cut \in Cuts :
      \A after \in {AfterKeys({cut} \cup {Append(cut, put) : put \in Puts})} :
        LET t == after[cut]
            putAsLine == ed.main = "vi-command" /\ isLine(GetKill(t.buf))
        IN  t.fault = "none" /\ t.line # ed.line /\ ~putAsLine =>
              \E put \in Puts : after[Append(cut, put)].line = ed.line

\* A numeric argument means repetition: 2 and a command do what the command
\* called twice does.
CountRepeats ==
  Rests("emacs") =>
    \A k \in {"forward-char", "forward-word", "backward-word", "delete-char",
              "yank", "yank-pop"} :
      \A after \in {AfterKeys({<<k, k>>, <<"2", k>>})} :
        LET twice == after[<<k, k>>]
            count == after[<<"2", k>>]
        IN  twice.fault = "none" /\ count.fault = "none" =>
              <<twice.line, twice.pos, twice.buf>> = <<count.line, count.pos, count.buf>>

\* The motions forward and backward by words are each other's inverse, up to
\* the word they are on: w then b comes back to the word or before it, b then
\* w to where it was or after.
WordMotionsAgree ==
  Rests("vi-command") /\ Narrow =>
    \A m \in {<<"w", "b">>, <<"W", "B">>} :
      \A after \in {AfterKeys({<<m[1]>>, <<m[2]>>, m, <<m[2], m[1]>>})} :
        LET w == after[<<m[1]>>].pos
            b == after[<<m[2]>>].pos
        IN  /\ b <= ed.pos /\ ed.pos <= w
            /\ ed.pos < w => after[m].pos <= ed.pos
            /\ b < ed.pos => ed.pos <= after[<<m[2], m[1]>>].pos

\* The numbered registers, in the order of their numbers.
Ring == [i \in 1 .. Cardinality(DOMAIN ed.buf.num) |-> ed.buf.num[i - 1]]

Kills == INSTANCE KillRing WITH Size <- numRegisters, ring <- Ring

\* No command puts the kills out of order, leaves a number out or holds one
\* twice: a kill goes on the top and moves the others up one by one, the oldest
\* is forgotten when there is no room, and yank-pop only takes kills off the
\* top (writeNum, Pop).
KillsInOrder ==
  [][\/ Kills!Kill
     \/ \E n \in 0 .. Len(Ring) : Ring' = SubSeq(Ring, n + 1, Len(Ring))]_vars

\* Contradicted.  The comment of Pop: it rotates the kill ring, so that the
\* numbered registers implement one.
KillRingRefined == Kills!Spec
=============================================================================
