----------------------------- MODULE Completion -----------------------------
(***************************************************************************)
(* The completion engine (completion.Engine) with the commands that use    *)
(* it: menus of candidates, a candidate inserted virtually, incremental    *)
(* and non-incremental searches with their minibuffer, and the keymaps     *)
(* they set and restore.  The engine is a record; lines are real or        *)
(* virtual:                                                                *)
(*   line, pos          the real line and its cursor                       *)
(*   comp               the completed line and its cursor; empty while no  *)
(*                      candidate is inserted, when it is never read       *)
(*   selected           the value of the inserted candidate, or << >>      *)
(*   prefix             what a candidate replaces                          *)
(*   groups, cur        the menu, see Menu                                 *)
(*   cached             the completer in use, or ""                        *)
(*   auto               completion is as-you-type                          *)
(*   local, main        the keymaps of the keymap engine                   *)
(*   nonInc             its nonIncSearch flag                              *)
(*   buf, regex         the minibuffer and the search text, or Nil         *)
(*   insert, replace, startBuf, startPos, modeExit   the isearch* fields   *)
(*   source             the active history source                          *)
(*   options            the options of the configuration                   *)
(*   fault              the code has indexed or dereferenced wrongly       *)
(* The cursor of the minibuffer is always at its end, for only self-insert *)
(* and backward-delete-char edit it here.  Completers set no suffix        *)
(* matcher, hints and display are left out, a search text that is a regular *)
(* expression at all matches literally, and the history menu that follows   *)
(* the line (autoForce) is not modelled.                                    *)
(***************************************************************************)
EXTENDS LineCursor, Menu

CONSTANTS
  Nil,           \* the nil pointer
  Words,         \* what the application's completer returns, sorted
  HistLines,     \* for each history source, its lines, newest first
  Columns,       \* the columns of candidates that fit in the terminal
  IsearchBinds,  \* the commands bound in the isearch keymap
  MenuBinds,     \* those bound in the menu-select keymap
  Bound,         \* all commands that are bound
  Keymaps,       \* the main keymaps a configuration may start with
  Options,       \* values of the options autocomplete and displayPrefix
  Wide,          \* the characters that take two bytes in UTF-8, the others one
  Malformed,     \* the texts that are no regular expression
  DescMatches,   \* the pairs of a description and a text that matches it
  MaxLen, MaxBuf \* bounds on the lengths of the line and of the minibuffer

ASSUME CompletionAssumption ==
  /\ Columns \in Nat \ {0}
  /\ Words \in Seq([value : Line, desc : STRING, tag : STRING])
  /\ HistLines \in Seq(Seq(Line)) /\ HistLines # << >>
  /\ Nil \notin Line
  /\ Malformed \subseteq Line
  /\ Keymaps \subseteq {"emacs", "vi-insert"}
  /\ Options \subseteq [autocomplete : BOOLEAN, displayPrefix : BOOLEAN]
  /\ MaxLen \in Nat /\ MaxBuf \in Nat

VARIABLES
  e,        \* the engine, see above
  last,     \* history variable: how the last step ended a search, if it did
  origin,   \* history variable: line and main keymap when a search started
  returned  \* history variable: the line the return key returned, or Nil

vars == <<e, last, origin, returned>>

-----------------------------------------------------------------------------
(* Modes                                                                   *)

\* NonIncrementallySearching
Searching(s) == s.buf # Nil /\ s.local # "isearch"

IsActive(s) ==
  /\ s.local \in {"menu-select", "isearch"} \/ s.auto
  /\ ~Searching(s)

AutoCompleting(s) == s.local = "isearch"

IsInserting(s) == s.selected # << >>

\* Engine.Line: the line that is displayed.
Shown(s) == IF IsInserting(s) THEN s.comp ELSE [line |-> s.line, pos |-> s.pos]

SetLine(s, l, p) == [s EXCEPT !.line = l, !.pos = CheckAppend(l, p)]

\* Mutant: the keymap to return to is not kept.
AdaptForgets(s) ==
  [s EXCEPT !.modeExit = "",
            !.main = IF s.main = "emacs" THEN "emacs" ELSE "vi-insert"]

adaptIsearchInsertMode(s) ==
  [s EXCEPT !.modeExit = s.main,
            !.main = IF s.main = "emacs" THEN "emacs" ELSE "vi-insert"]

resetIsearchInsertMode(s) ==
  IF s.modeExit = "" THEN s
  ELSE [s EXCEPT !.main = s.modeExit,
                 !.modeExit = IF s.main = s.modeExit THEN @ ELSE "",
                 !.pos = IF s.modeExit = "vi-command" THEN CheckCommand(s.line, @) ELSE @]

-----------------------------------------------------------------------------
(* Candidates in the line                                                  *)

\* What Go's len gives for a string: its bytes, where a line counts characters.
Bytes(l) == Len(l) + Cardinality({i \in DOMAIN l : l[i] \in Wide})

\* Mutant: the prefix stays in the line.
CompleteKeepsPrefix(s, val) ==
  [line |-> Insert(s.line, s.pos, val), pos |-> s.pos + Len(val)]

\* The end of acceptCandidate and of insertCandidate.  The cursor moves back by
\* the bytes of the prefix and as many characters are cut: more than the prefix
\* when a character of it is wide.
Complete(s, val) ==
  LET Put(l, p) == [line |-> Insert(l, p, val), pos |-> p + Len(val)]
      CutAt(l, p) == Put(l, CheckAppend(l, p))
      From(p) == CutAt(Cut(s.line, p, p + Bytes(s.prefix)), p)
  IN  From(CheckAppend(s.line, s.pos - Bytes(s.prefix)))

Current(s) == s.groups[s.cur]

\* selected panics on a cell that does not exist, prepareSuffix on a candidate
\* that is shorter than the prefix.
CellFault(s) ==
  \/ Current(s).rows = << >>
  \/ LET g == Current(s) IN -1 \notin {g.posX, g.posY} /\ ~Selectable(g, g.posX, g.posY)

SelectedValue(s) == SelectedCell(Current(s)).value

acceptCandidate(s) ==
  LET Accept(val, c) ==
        IF Bytes(val) < Bytes(s.prefix) THEN [s EXCEPT !.fault = TRUE]
        ELSE [s EXCEPT !.selected = val, !.line = c.line, !.pos = c.pos, !.prefix = << >>]
  IN  IF CellFault(s) THEN [s EXCEPT !.fault = TRUE]
      ELSE Accept(SelectedValue(s), Complete(s, SelectedValue(s)))

insertCandidate(s) ==
  IF CellFault(s) THEN [s EXCEPT !.fault = TRUE]
  ELSE [s EXCEPT !.selected = SelectedValue(s),
                 !.comp = IF Bytes(SelectedValue(s)) < Bytes(s.prefix) THEN @
                          ELSE Complete(s, SelectedValue(s))]

NoCompletion == [line |-> << >>, pos |-> 0]

cancelCompletedLine(s) == [s EXCEPT !.comp = NoCompletion, !.selected = << >>]

Cancel(s, inserted, cached) ==
  LET Ended(r) == IF ~IsInserting(r) /\ ~inserted THEN r
                  ELSE IF inserted THEN cancelCompletedLine(r)
                  ELSE cancelCompletedLine(SetLine(r, r.comp.line, r.comp.pos))
  IN  Ended([s EXCEPT !.cached = IF cached THEN "" ELSE @])

\* Mutant: the current group outlives the groups.
ResetValuesKeeps(s, comps) ==
  [s EXCEPT !.selected = << >>, !.comp = NoCompletion,
            !.groups = IF comps THEN << >> ELSE @,
            !.cur = IF s.groups = << >> THEN 0 ELSE 1]

resetValues(s, comps) ==
  [s EXCEPT !.selected = << >>, !.comp = NoCompletion,
            !.groups = IF comps THEN << >> ELSE @,
            !.cur = IF comps \/ s.groups = << >> THEN 0 ELSE 1]

ClearMenu(s, comps) ==
  [resetValues(s, comps) EXCEPT !.local = IF @ = "menu-select" THEN "" ELSE @]

-----------------------------------------------------------------------------
(* Starting and ending searches                                            *)

IsearchStart(s, autoinsert, replaceLine) ==
  adaptIsearchInsertMode(
    [s EXCEPT !.insert = autoinsert, !.replace = replaceLine,
              !.startBuf = s.line, !.startPos = s.pos,
              !.buf = << >>, !.auto = TRUE, !.local = "isearch"])

\* Mutant: the line the search has cleared is not put back.
IsearchStopKeeps(s, revertLine) ==
  resetIsearchInsertMode(
    [s EXCEPT !.buf = Nil, !.regex = Nil, !.startBuf = << >>, !.startPos = 0,
              !.replace = FALSE, !.auto = FALSE, !.local = ""])

IsearchStop(s, revertLine) ==
  LET r == IF s.replace /\ revertLine THEN SetLine(s, s.startBuf, s.startPos) ELSE s
  IN  resetIsearchInsertMode(
        [r EXCEPT !.buf = Nil, !.regex = Nil, !.startBuf = << >>, !.startPos = 0,
                  !.replace = FALSE, !.auto = FALSE, !.local = ""])

NonIsearchStart(s) == adaptIsearchInsertMode([s EXCEPT !.buf = << >>, !.nonInc = TRUE])

NonIsearchStop(s) ==
  resetIsearchInsertMode([s EXCEPT !.buf = Nil, !.regex = Nil, !.nonInc = FALSE])

\* The menu is cleared, and with it the menu-select keymap, before the line is
\* considered: only an incremental search reverts it.
ResetForce(s) ==
  LET Stopped(r) == IsearchStop(r, r.local = "isearch")
  IN  Stopped(ClearMenu(Cancel(s, TRUE, TRUE), TRUE))

Reset(s) ==
  IF ~IsActive(s) THEN ClearMenu(s, TRUE)
  ELSE IsearchStop(ClearMenu(Cancel(s, FALSE, TRUE), TRUE), FALSE)

-----------------------------------------------------------------------------
(* Generating candidates                                                   *)

\* The blank-separated word that ends at the character before the cursor; at
\* the start of the line the code takes the character after it.
Word(l, p) ==
  LET c == IF p = 0 THEN 0 ELSE p - 1
      from == Min({i \in 0 .. c : \A j \in i .. c : ~IsBlank(At(l, j))})
  IN  IF l = << >> THEN << >> ELSE IF IsBlank(At(l, c)) THEN << >> ELSE Slice(l, from, c + 1)

Contains2(l, text) == \E i \in 0 .. Len(l) - Len(text) : Slice(l, i, i + Len(text)) = text

\* history.Complete: the lines of the active source, without duplicates.
HistoryValues(s) ==
  LET Id(l) == l
      lines == Filter(Firsts(HistLines[s.source], Id),
                      LAMBDA l : s.regex # Nil => Contains2(l, s.regex))
  IN  [i \in DOMAIN lines |-> [value |-> lines[i], desc |-> "", tag |-> ""]]

Values(s) ==
  IF s.cached = "commands" THEN Words ELSE HistoryValues(s)

\* setPrefix: a history completer sets it to the whole line.
setPrefix(s) ==
  IF s.cached = "commands" \/ s.line = << >> THEN Word(s.line, s.pos) ELSE s.line

\* The completers of history list one candidate a row.
ColumnsOf(s) == IF s.cached = "commands" THEN Columns ELSE 1

\* prepare, with the completer as if it were cached.
prepare(s, completer) ==
  LET c == [s EXCEPT !.cached = completer]
      Menu1(prefix) ==
        [s EXCEPT !.prefix = prefix, !.cur = 0,
                  !.groups = Groups(Filter(Values(c), LAMBDA v : IsPrefix(prefix, v.value)),
                                    ColumnsOf(c))]
  IN  Menu1(setPrefix(c))

noCompletions(s) == NonEmpty(s.groups) = {}

Matches(s) == Len(FlattenSeq([i \in DOMAIN s.groups |-> FlattenSeq(s.groups[i].rows)]))

\* Generate: without candidates the menu is closed; a single one is accepted at
\* once, except in an incremental search.  Counting the candidates of a single
\* group makes it the current one.
Generate(s) ==
  LET Unless(p) == IF noCompletions(p) THEN ClearMenu(p, TRUE) ELSE p
      Counted(r) == IF Len(r.groups) = 1
                    THEN [r EXCEPT !.cur = currentGroup(r.groups, @)] ELSE r
      Unique(r) == IF hasUniqueCandidate(r.groups) /\ r.local # "isearch"
                   THEN ClearMenu(acceptCandidate(r), TRUE)
                   ELSE r
  IN  Unique(Counted(Unless(prepare(s, s.cached))))

GenerateWith(s, completer) ==
  IF completer = "" THEN [s EXCEPT !.cached = ""]
  ELSE Generate([s EXCEPT !.cached = completer])

-----------------------------------------------------------------------------
(* Selecting                                                               *)

adjustSelectKeymap(s) ==
  [s EXCEPT !.local = IF @ = "isearch" THEN @ ELSE "menu-select"]

refreshLine(s) ==
  LET Insert1(r) == IF hasUniqueCandidate(r.groups) /\ r.local # "isearch"
                    THEN ResetForce(acceptCandidate(r))
                    ELSE insertCandidate(r)
  IN  IF noCompletions(s) THEN Cancel(s, TRUE, TRUE)
      ELSE Insert1([s EXCEPT !.cur = currentGroup(s.groups, @)])

Uninserted(s) == IF IsInserting(s) THEN cancelCompletedLine(s) ELSE s

\* adjustCycleKeys: arrows up and down move in a column, and so does any key
\* but the arrows in an aliased group.
Vertical(g, key) == key = "vertical" \/ (g.aliased /\ key # "horizontal")

\* moveSelector, by a key.
MoveBy(g, d, key) ==
  IF Vertical(g, key) THEN moveSelector(g, 0, d) ELSE moveSelector(g, d, 0)

\* The selector of the current group has made move m; a group that is left hands
\* it over to the next or the previous one.
Moved(s, m) ==
  LET r == [s EXCEPT !.groups[s.cur] = m.g]
      Enter(to) == [r EXCEPT !.cur = to,
                             !.groups[to] = IF m.next THEN firstCell(@) ELSE lastCell(@)]
  IN  IF m.done THEN Enter(CycleGroup(r.groups, r.cur, IF m.next THEN 1 ELSE -1)) ELSE r

\* Select(d, 0), called by a key.
Select(s, d, key) ==
  LET In(r) == IF r.cur = 0 THEN r
               ELSE IF Current(r).rows = << >> THEN r
               ELSE refreshLine(Moved(Uninserted(adjustSelectKeymap(r)),
                                      MoveBy(Current(r), d, key)))
  IN  In([s EXCEPT !.cur = currentGroup(s.groups, @)])

\* Mutant: the group is entered by the last of its columns in its last row.
SelectTagLast(s, d) ==
  LET Enter(r, to) ==
        refreshLine([r EXCEPT !.cur = to, !.groups[to] = At2(@, @.maxX - 1, Len(@.rows) - 1)])
      In(r) == IF Len(r.groups) <= 1 THEN r
               ELSE IF noCompletions(r) THEN [r EXCEPT !.fault = TRUE]
               ELSE Enter(Uninserted(r), CycleGroup(r.groups, r.cur, d))
  IN  In(adjustSelectKeymap(s))

\* SelectTag dereferences nil, or never ends, when all groups are empty.
SelectTag(s, d) ==
  LET Enter(r, to) == refreshLine([r EXCEPT !.cur = to, !.groups[to] = firstCell(@)])
      In(r) == IF Len(r.groups) <= 1 THEN r
               ELSE IF noCompletions(r) THEN [r EXCEPT !.fault = TRUE]
               ELSE Enter(Uninserted(r), CycleGroup(r.groups, r.cur, d))
  IN  In(adjustSelectKeymap(s))

-----------------------------------------------------------------------------
(* Between commands                                                        *)

\* Mutant: the candidate goes with every key of a search.
UpdateInsertedAll(s, key) ==
  ClearMenu(Cancel(s, s.local = "isearch", FALSE), IsInserting(s))

\* UpdateInserted, between the local and the main keymap, for a key.
UpdateInserted(s, key) ==
  LET inserted == s.local = "isearch" /\ key \notin {"escape", "return", ""}
      Cleared(c) == IF s.auto THEN c ELSE ClearMenu(c, IsInserting(s))
  IN  Cleared(Cancel(s, inserted, s.local # "isearch"))

\* A search finds a candidate by its value or by its description.
Found(v, text) ==
  Contains2(v.value, text) \/ (v.desc # "" /\ <<v.desc, text>> \in DescMatches)

\* A text that does not compile leaves the groups as they are generated.
updateIncrementalSearch(s) ==
  LET rx == IF s.buf \in Malformed THEN Nil ELSE s.buf
      Filtered(g) == FilterGroup(g, ColumnsOf(s), LAMBDA v : Found(v, s.buf))
      Replaced(r) == IF s.replace THEN [r EXCEPT !.prefix = << >>, !.line = << >>, !.pos = 0] ELSE r
      Shown1(r) == IF s.insert /\ Matches(r) > 0 /\ s.buf # << >> THEN Select(Replaced(r), 1, "key")
                   ELSE IF s.replace THEN SetLine(r, s.startBuf, s.startPos)
                   ELSE r
      Kept(r) == Shown1([r EXCEPT !.groups = IF rx = Nil THEN @ ELSE Map(@, Filtered)])
  IN  Kept(GenerateWith([s EXCEPT !.regex = rx], s.cached))

UpdateIsearch(s) ==
  IF s.local = "isearch" /\ ~IsInserting(s) THEN updateIncrementalSearch(s) ELSE s

needsAutoComplete(s) ==
  /\ s.options.autocomplete
  /\ s.local \notin {"menu-select", "isearch"}
  /\ s.line # << >>
  /\ s.main # "vi-command"
  /\ ~IsInserting(s)

\* Autocomplete, at every refresh of the display.
Autocomplete(s) ==
  LET Reset1(a) == IF a.auto \/ (~IsActive(a) /\ a.pos = 0) THEN resetValues(a, TRUE) ELSE a
      Prepared(r) == IF r.auto THEN prepare(r, IF s.cached # "" THEN s.cached ELSE "commands") ELSE r
  IN  Prepared(Reset1([s EXCEPT !.auto = needsAutoComplete(s)]))

\* The cursor check of execute, on the buffer the command was given: the real
\* cursor is not checked when that is the minibuffer or the completed line.  The
\* cursor of the completed line, which the code then checks, is left as it is here.
\* Only one command keeps a completed line, the choice of a tag in a menu of one
\* group; in vi-command mode the code then moves that cursor off the line's end.
CheckCursor(before, s) ==
  IF before.local = "isearch" \/ Searching(before) \/ IsInserting(before) THEN s
  ELSE [s EXCEPT !.pos = IF s.main = "vi-command" THEN CheckCommand(s.line, @)
                         ELSE CheckAppend(s.line, @)]

\* The end of Shell.run, and the refresh before the next key.
AfterRun(before, s) == Autocomplete(UpdateIsearch(CheckCursor(before, s)))

\* What Readline does between two calls: its line is returned, init starts anew.
NextCall(s) == Autocomplete(ResetForce(SetLine(s, << >>, 0)))

-----------------------------------------------------------------------------
(* Commands                                                                *)

startMenuComplete(s, completer) ==
  GenerateWith([s EXCEPT !.local = "menu-select"], completer)

Started(s) == IF IsActive(s) THEN s ELSE startMenuComplete(s, "commands")

\* menu-complete, and complete, which only differs in the display.
menuComplete(s, key) ==
  IF ~IsActive(s) /\ s.options.displayPrefix THEN Started(s) ELSE Select(Started(s), 1, key)

menuCompleteBackward(s, key) == Select(Started(s), -1, key)

possibleCompletions(s) == startMenuComplete(s, "commands")

insertCompletions(s) ==
  LET Step(r, i) == IF i > Matches(r) THEN r ELSE Cancel(Select(r, 1, "key"), FALSE, FALSE)
      All(r) == LET f[i \in 0 .. Matches(r)] == IF i = 0 THEN r ELSE Step(f[i - 1], i)
                IN  f[Matches(r)]
  IN  ClearMenu(Cancel(All(Started(s)), FALSE, FALSE), TRUE)

menuCompleteTag(s, d) == IF IsActive(s) THEN SelectTag(s, d) ELSE s

acceptAndMenuComplete(s) ==
  IF IsActive(s) /\ IsInserting(s) THEN Select(Cancel(s, FALSE, FALSE), 1, "key") ELSE s

menuIncrementalSearch(s) == IsearchStart(GenerateWith(s, "commands"), FALSE, FALSE)

deleteCharOrList(s) ==
  IF s.pos < Len(s.line) THEN [s EXCEPT !.line = CutRune(s.line, s.pos)]
  ELSE possibleCompletions(s)

\* historyCompletion: a second call goes on to the next source, and ends the
\* search after the last.
historyCompletion(s) ==
  LET again  == s.local \in {"menu-select", "isearch"}
      onLast == s.source = Len(HistLines)
      r == [s EXCEPT !.source = IF ~again THEN @ ELSE IF onLast THEN 1 ELSE @ + 1]
  IN  IF again /\ onLast THEN ResetForce(r)
      ELSE IsearchStart(GenerateWith(r, "history"), TRUE, TRUE)

\* The buffer of GetBuffer that the editing commands work on.
OnMinibuffer(s) == s.local = "isearch" \/ Searching(s)

selfInsert(s, ch) ==
  IF OnMinibuffer(s) THEN [s EXCEPT !.buf = Append(@, ch)]
  ELSE [s EXCEPT !.line = Insert(@, s.pos, <<ch>>), !.pos = @ + 1]

backwardDeleteChar(s) ==
  LET On(r) == IF OnMinibuffer(s)
               THEN [r EXCEPT !.buf = IF @ = << >> THEN @ ELSE SubSeq(@, 1, Len(@) - 1)]
               ELSE IF r.pos = 0 THEN r
               ELSE [r EXCEPT !.line = CutRune(@, r.pos - 1), !.pos = @ - 1]
  IN  On(UpdateInserted(s, ""))

backwardChar(s) == [s EXCEPT !.pos = Dec(@)]

viCommandMode(s) ==
  LET Left(r) == IF r.main = "vi-insert" /\ ~AtBeginningOfLine(r.line, r.pos) THEN r.pos - 1 ELSE r.pos
      In(r) == [r EXCEPT !.pos = CheckCommand(r.line, Left(r)), !.local = "", !.main = "vi-command"]
  IN  In(Reset(s))

viInsertMode(s) == [s EXCEPT !.local = "", !.main = "vi-insert"]

emacsEditingMode(s) == [Reset(s) EXCEPT !.main = "emacs"]

\* The lines History.InsertMatch may find for the minibuffer, or none.
InsertMatch(s) == {s} \cup {SetLine(s, l, Len(l)) : l \in Range(HistLines[s.source])}

-----------------------------------------------------------------------------
(* The loop of Readline                                                    *)

\* Of the commands modelled here, those that stay bound in each kind of search.
isearchCommands ==
  {"abort", "backward-delete-char", "vi-movement-mode", "self-insert", "accept-line", "reverse-search-history"}

nonIsearchCommands == {"abort", "accept-line", "backward-delete-char", "self-insert"}

LocalBinds(s) ==
  CASE s.local = "menu-select" -> MenuBinds
    [] s.local = "isearch" -> IsearchBinds
    [] OTHER -> {}

MainBinds(s) ==
  CASE s.local = "isearch" -> Bound \cap isearchCommands
    [] s.local # "isearch" /\ s.nonInc -> Bound \cap nonIsearchCommands
    [] OTHER -> Bound

\* The states in which a key runs command c: as it is for a bind of the local
\* keymap, after UpdateInserted for one of the main keymap.
Before(c, key) ==
  LET u == UpdateInserted(e, key)
  IN  {s \in {e} : c \in LocalBinds(s)} \cup {s \in {u} : c \in MainBinds(s)}

Fits(s) ==
  /\ Len(s.line) <= MaxLen /\ Len(s.comp.line) <= MaxLen
  /\ s.buf # Nil => Len(s.buf) <= MaxBuf

NoOrigin == [line |-> << >>, main |-> ""]

\* The engine becomes s, by command c; a program that has panicked does no more.
Becomes(s, c) ==
  /\ ~e.fault
  /\ e' = s
  /\ Fits(e')
  /\ last' = IF c \in {"vi-movement-mode", "emacs-editing-mode"} THEN "mode"
             ELSE IF c = "abort" THEN c ELSE ""
  /\ origin' = IF e'.buf = Nil THEN NoOrigin
               ELSE IF e.buf # Nil THEN origin
               ELSE [line |-> e'.line, main |-> e.main]

Run(c, key, command(_)) ==
  \E s \in Before(c, key) :
    /\ Becomes(AfterRun(s, command(s)), c)
    /\ returned' = Nil

Keys1 == {"key", "vertical", "horizontal"}

MenuComplete ==
  \E key \in Keys1 : Run("menu-complete", key, LAMBDA s : menuComplete(s, key))

MenuCompleteBackward ==
  \E key \in Keys1 :
    Run("menu-complete-backward", key, LAMBDA s : menuCompleteBackward(s, key))

PossibleCompletions == Run("possible-completions", "key", possibleCompletions)
InsertCompletions == Run("insert-completions", "key", insertCompletions)
DeleteCharOrList == Run("delete-char-or-list", "key", deleteCharOrList)
MenuCompleteNextTag == Run("menu-complete-next-tag", "key", LAMBDA s : menuCompleteTag(s, 1))
MenuCompletePrevTag == Run("menu-complete-prev-tag", "key", LAMBDA s : menuCompleteTag(s, -1))
AcceptAndMenuComplete == Run("accept-and-menu-complete", "key", acceptAndMenuComplete)
MenuIncrementalSearch == Run("menu-incremental-search", "key", menuIncrementalSearch)

ReverseSearchHistory == Run("reverse-search-history", "key", historyCompletion)
NonIncrementalSearch == Run("non-incremental-reverse-search-history", "key", NonIsearchStart)

\* vi-search-again: a whole search in one command.
ViSearchAgain ==
  \E s \in Before("vi-search-again", "key") :
    \E r \in InsertMatch(NonIsearchStart(s)) :
      /\ Becomes(AfterRun(s, NonIsearchStop(r)), "vi-search-again")
      /\ returned' = Nil

SelfInsert ==
  \E ch \in Char :
    /\ e.main # "vi-command"
    /\ Run("self-insert", "key", LAMBDA s : selfInsert(s, ch))

BackwardDeleteChar == Run("backward-delete-char", "key", backwardDeleteChar)
BackwardChar == Run("backward-char", "key", backwardChar)

ViMovementMode == e.main # "emacs" /\ Run("vi-movement-mode", "escape", viCommandMode)
ViInsertionMode == e.main = "vi-command" /\ Run("vi-insertion-mode", "key", viInsertMode)

\* Also what an escape alone does to an incremental search in emacs mode.
EmacsEditingMode ==
  \/ Run("emacs-editing-mode", "key", emacsEditingMode)
  \/ /\ e.local = "isearch" /\ e.main = "emacs"
     /\ Becomes(AfterRun(e, emacsEditingMode(e)), "emacs-editing-mode")
     /\ returned' = Nil

\* acceptLine: the line is returned, unless a minibuffer is being edited.
AcceptLine ==
  \E key \in {"return", "key"} : \E s \in Before("accept-line", key) : \E r \in {Reset(s)} :
    \/ /\ Searching(r)
       /\ \E m \in InsertMatch(r) : Becomes(AfterRun(s, NonIsearchStop(m)), "accept-line")
       /\ returned' = Nil
    \/ /\ ~Searching(r)
       /\ Becomes(NextCall(r), "accept-line")
       /\ returned' = IF key = "return" THEN r.line ELSE Nil

\* abort: cancels a completion or a search, or else returns an error if no more
\* keys have been typed.
Abort ==
  \E s \in Before("abort", "key") :
    /\ \E r \in IF AutoCompleting(s) \/ IsInserting(s) THEN {AfterRun(s, ResetForce(s))}
                ELSE IF Searching(s) THEN {AfterRun(s, NonIsearchStop(s))}
                ELSE {NextCall(s), AfterRun(s, s)} :
         Becomes(r, "abort")
    /\ returned' = Nil

\* A key without a bind: it ends an incremental search.
Undefined ==
  \E u \in {UpdateInserted(e, "key")} : \E r \in {UpdateIsearch(CheckCursor(u, u))} :
    /\ ~u.nonInc
    /\ Becomes(Autocomplete(IF r.local = "isearch" THEN Reset(r) ELSE r), "")
    /\ returned' = Nil

\* The first key of a longer sequence of the main keymap.
Prefixed ==
  \E key \in {"key", "escape"} : \E u \in {UpdateInserted(e, key)} :
    /\ ~u.nonInc
    /\ Becomes(Autocomplete(u), "")
    /\ returned' = Nil

\* WatchResize: the menu is generated anew.  The code runs it in a goroutine of
\* its own, without a lock; here it comes between two commands, and what it may
\* do to a command that is running is not modelled.
Resize ==
  /\ Becomes(Autocomplete(GenerateWith(e, e.cached)), "")
  /\ returned' = Nil

Init ==
  /\ \E m \in Keymaps, o \in Options :
       e = [line |-> << >>, pos |-> 0, comp |-> NoCompletion,
            selected |-> << >>, prefix |-> << >>,
            groups |-> << >>, cur |-> 0, cached |-> "", auto |-> FALSE,
            local |-> "", main |-> m, nonInc |-> FALSE,
            buf |-> Nil, regex |-> Nil, insert |-> FALSE, replace |-> FALSE,
            startBuf |-> << >>, startPos |-> 0, modeExit |-> "",
            source |-> 1, options |-> o, fault |-> FALSE]
  /\ last = ""
  /\ origin = NoOrigin
  /\ returned = Nil

Completing ==
  \/ MenuComplete
  \/ MenuCompleteBackward
  \/ PossibleCompletions
  \/ InsertCompletions
  \/ DeleteCharOrList
  \/ MenuCompleteNextTag
  \/ MenuCompletePrevTag
  \/ AcceptAndMenuComplete

StartSearch ==
  \/ MenuIncrementalSearch
  \/ ReverseSearchHistory
  \/ NonIncrementalSearch
  \/ ViSearchAgain

Edit ==
  \/ SelfInsert
  \/ BackwardDeleteChar
  \/ BackwardChar
  \/ ViMovementMode
  \/ ViInsertionMode
  \/ EmacsEditingMode

Next ==
  \/ Completing \/ StartSearch \/ Edit
  \/ AcceptLine \/ Abort \/ Undefined \/ Prefixed \/ Resize

Spec == Init /\ [][Next]_vars

-----------------------------------------------------------------------------
(* Properties                                                              *)

\* The engine's fields have their types, and both cursors are on their lines.
TypeOK ==
  /\ e.line \in Line /\ e.pos \in 0 .. Len(e.line)
  /\ e.comp.line \in Line /\ e.comp.pos \in 0 .. Len(e.comp.line)
  /\ e.cur \in 0 .. Len(e.groups)
  /\ e.local \in {"", "menu-select", "isearch"}
  /\ e.main \in {"emacs", "vi-insert", "vi-command"}
  /\ e.local = "isearch" => e.buf # Nil

\* No sequence of menu and search commands makes the selector index a cell that
\* does not exist, or select in a menu without candidates.
NoFault == ~e.fault

\* The selector is on the candidate that is inserted: the menu was not generated
\* again since.
Pointed == IsInserting(e) /\ e.cur # 0 /\ -1 \notin {e.groups[e.cur].posX, e.groups[e.cur].posY}

\* While a candidate is inserted from the menu, and what the menu was generated
\* for is still before the cursor, the completed line is the real one with just
\* that replaced: the text before the word and after the cursor is not touched.
\* The cursor is after the candidate, but for the check in vi-command mode.
\* It takes a prefix of one-byte characters: the code cuts as many characters as
\* the prefix has bytes.
\* In vi-command mode it takes candidates that do not end in a blank: the check of
\* the cursor that follows a command moves the real one, and not the candidate.
CompletedLine ==
  LET from == e.pos - Len(e.prefix)
  IN  (/\ Pointed /\ from >= 0 /\ Slice(e.line, from, e.pos) = e.prefix
       /\ Bytes(e.prefix) = Len(e.prefix)) =>
        /\ e.comp.line = Slice(e.line, 0, from) \o e.selected \o Slice(e.line, e.pos, Len(e.line))
        /\ e.main # "vi-command" => e.comp.pos = from + Len(e.selected)

\* The return key returns the line that is displayed, with the candidate that a
\* menu or a search has inserted in it.
ReturnsShown ==
  [][returned' # Nil => returned' = Shown(e).line]_vars

\* A history search that is aborted gives back the line it was started on, though
\* it clears the line for each match and matches come and go.
AbortRestores ==
  [][(last' = "abort" /\ e.local = "isearch" /\ e.replace)
       => e'.line = origin.line /\ e'.local = ""]_vars

\* A search is edited in an insert mode, with few commands allowed: its end,
\* whichever command ends it, allows them all again, and brings back the main
\* keymap it was started from unless it is ended by changing modes.
KeymapRestored ==
  [][(e.buf # Nil /\ e'.buf = Nil)
       => ~e'.nonInc /\ (last' # "mode" => e'.main = origin.main)]_vars

\* The cell of the selector.
Cell(s) == <<s.cur, Current(s).posX, Current(s).posY>>

\* Pressing the completion key once for each candidate visits all of them, in
\* all groups and rows, from wherever it starts, and the backward key undoes a
\* press of the forward one.
VisitsAll ==
  LET n == Matches(e)
      f[i \in 0 .. n] == IF i = 0 THEN e ELSE Select(f[i - 1], 1, "key")
      back == Select(f[1], -1, "key")
  IN  /\ (n > 1 /\ e.groups[currentGroup(e.groups, e.cur)].rows # << >>) =>
           Cardinality({Cell(f[i]) : i \in 1 .. n}) = n
      /\ (n > 0 /\ Pointed) => Cell(back) = Cell(e) /\ back.selected = e.selected
=============================================================================
