# Verification of reeflective/readline

TLA+ models of the line editor's state machines, checked with TLC on small
instances, and TLAPS proofs about undo, histories, the key reader, the dispatcher,
completion and inputrc files.  `PROJECT.json` maps every definition to the source lines it
models and lists runs, mutants, findings, hazards and theorems.

## The system

A `Shell` owns one input line and runs a loop (`readline.go`): flush the keys
used, redraw, wait for keys, match them against the local and the main keymap,
run the command, save the line to the undo list, return if it was accepted.

| Part | State it keeps | Operations | Correct when |
|---|---|---|---|
| Line and cursor (`core/line.go`, `core/cursor.go`) | runes, position, mark | insert, cut, find, moves, range checks | the cursor is on the line after every command |
| Undo (`history/undo.go`) | per history line: items and a position; flags `skip`, `undoing` | Save, Undo, Redo, Revert, Reset | positions are in range; undo gives back what an edit took away |
| History sources (`history/sources.go`, `file.go`, `history.go`) | named sources, active index, position `hpos`, what accept leaves for the next call | Walk, Fetch, InsertMatch, InferNext, Write, Accept, Init, Add, Delete, Cycle | the input line survives a walk; indexes are valid; sources only grow by accepted lines |
| History commands (`history.go`) | none of their own | compositions of the above | as above |
| Key reader (`core/keys.go`, `keys_unix.go`) | key stack, flags `waiting`, `reading`, `mustWait`, channels | wait, read, read one key, cursor query, end of input | keys are dispatched once, in order; cursor reports are not taken for keys; nobody waits forever |
| Dispatcher (`keymap/dispatch.go`) | local and main keymap, active bind, bind kept for a prefix | MatchLocal, MatchMain, handleEscape | what is run does not depend on how input is cut into reads |
| Completion and searches (`completion/`) | candidates, virtual line, minibuffer, keymap to return to | Generate, Select, Cancel, Reset, IsearchStart... | the line is restored or completed; modes are left |
| Selection, iterations, operators (`core/selection.go`, `core/iterations.go`, `keymap/pending.go`) | a region and its mark, the argument as a string with two flags, the stack of waiting operators | Mark, Pos, Cut, Pop, word selectors; Add, Get, Reset; Pending, RunPending | operators agree on what a motion selects; a count means repetition |
| Kill ring and registers (`editor/buffers.go`) | two maps, the selected register | Write, Get, Pop | the last kills are kept, newest first |
| Editing commands (`emacs.go`, `vim.go`) | none of their own | about 250 commands | no index out of range; what is cut can be put back |
| Macros (`macro/`) | recorded keys | record, run | keys are fed once, in order |
| inputrc parser (`inputrc/`, `keymap/config.go`) | variables, binds; per file a stack of conditions and a keymap | parse, set, bind, include, reload, dump | conditions and includes nest; types are kept; what is dumped reads back |
| Display, prompt, hints, colours, terminal | rows and columns | output | not a subject of the models |

Parts interact by calls within one goroutine, with two exceptions: a resize
signal redraws the interface from a goroutine of its own, and redrawing asks
the terminal for the cursor position, whose answer arrives on the same input as
the keys.  The hard behaviours are therefore: that race; input cut into reads at
any place; state that one command leaves for the save of the same run, for the
next command, or for the next call of `Readline` (flags, undo position, bind
kept for a prefix, history position, active source, selection, argument, waiting
operator, selected register); indexes counted from the end of a list that has
grown or shrunk since; and offsets in bytes added to positions in characters.

## Modules

* `LineCursor`: the buffer and the cursor as operators on sequences and
  positions.  Positions are those of the code (from 0); characters are model
  values, of which a newline and a space are told apart.
* `UndoList`: the undo list of one line (`lineHistory`) as operators.
* `Undo`: one input line in emacs and vi modes.  Variables: the line, the
  cursor, the main keymap, the undo list, `fault` (an index out of range) and
  `prev`, a history variable with the previous command and line.  One action per
  command; `Finish` is the end of `Shell.run` (cursor check and save).
* `HistorySources`: the struct `Sources` as a record and its methods as
  operators from records to records (to sets of records for `Write`, which
  visits a map in any order).
* `History`: the commands that use it and the calls of the application.
  `InBounds` bounds the state, `Run` is the end of `Shell.run`.
* `Keys`: the main goroutine, the resize goroutine, the user and the terminal.
  Keys are numbered in the order they are typed, and a cursor report is two pieces; a
  read takes any part of what has arrived, so that it may end inside of a report.  The
  steps of a goroutine are its accesses to shared state: the flags, the stack, the
  channels, the input.  The resize goroutine appends to the stack in two steps, a load
  and a store, because it holds a read lock only and the main goroutine pops keys
  without any: a change in between is lost, or loses the append (`StackStore`).  Each
  refresh queries the cursor once, or twice on a line of several rows
  (`EnsureInputSpace`, `WatchEnsure`).  `cuts` and `races` count the reports cut and
  the overlapping changes, which are at most `MaxFaults`.  A change of the stack by the
  main goroutine is one store, also when the code pops the keys of a prefix one by one;
  torn slice headers and two goroutines that write into one array are not modelled.
* `Dispatch`: the key stack and the matches, in the loop of `Readline`.  Commands
  are names; only those that change keymaps have an effect, among them the menu, the
  searches, the visual mode and the operators, which wait in `vi-opp`.  Sequences are
  those the code compares keys with: `ConvertMeta`, which turns a meta character of an
  inputrc sequence into an escape and a character, has been applied.  It is the part of
  the loop that `Keys` abstracts to "a key is dispatched" and "the keys are a
  prefix".
* `Menu`: a group of candidates (`group`) as a record: its rows, and the selector
  with the four cases of `moveSelector`; moving from group to group.  A column
  stands for its width.
* `Completion`: the struct `Engine` of the completion package with the keymaps it
  sets, as a record; its methods are operators from records to records, and each
  command is an action that has the steps of the loop around it (`Before` is the
  match in the local or the main keymap with `UpdateInserted` in between,
  `AfterRun` the cursor check, `UpdateIsearch` and the refresh).  The completed
  line is empty while no candidate is inserted: the code leaves a stale copy
  there, which it reads in the history menu only, and that is not modelled.  The prefix
  is counted in bytes where the code does so (`Bytes`; characters in `Wide` take two).
  A search text is found in values and descriptions (`DescMatches`), or is no regular
  expression (`Malformed`).  `Resize` comes between two commands: the goroutine of the
  code may also generate the menu while a command uses it.
  `last`, `origin` and `returned` are history variables for the properties.
* `Words`: tokenizers, word motions, word selectors, quotes and brackets of
  `core/line.go` and `strutil/surround.go`.  A character is a model value with a
  class (blank, newline, punctuation, letter, bracket, quote) and a size: those in
  `Wide` take two bytes, because the code measures tokens in bytes.
* `Registers`: `editor.Buffers` as a record, its maps as functions; `KillRing`: the
  kill ring of the code's comments, a bounded sequence that a kill is added to and
  yank-pop rotates.
* `Shell`: the state that editing commands work on, as one record (line, cursor,
  mark, selection, argument, registers, keymaps, waiting operators, the command and
  its key, and `fault`), with the methods of `Cursor`, `Iterations`, `Selection` and
  the operator-pending engine as operators from records to records.  An index out of
  range sets `fault` to "panic", a loop that never ends to "hang".
* `EmacsCommands`, `ViCommands`: one operator per command of `emacs.go` and `vim.go`,
  under its name in the code.  They leave out calls to the undo list, the completion
  engine and the display, which `Undo`, `History` and `Completion` model, and which
  leave the record alone.
* `Editor`: the loop.  One step is one key: the command it is bound to, the operator
  that waits for it (`RunPending`), and the checks at the end of `Shell.execute`.  The
  key is matched in the local keymap or else in the main one.  A key of the model may
  stand for a sequence (`gu`); `Dispatch` is about how sequences are matched.
* `Escapes`: how key sequences are written and read in inputrc text, on code points.
* `Inputrc`: `ReloadConfig`.  A line is a record that says what it is; one action per
  line read, per file opened, skipped or ended, and per stage of a reload.  Parsers
  form a stack, an included file's on top.  The default binds of local keymaps are
  installed anew by each reload; in the code they are maps of the package, menu-select
  and isearch the same one (`keymap/config.go:114`), so that changes to them stay.
* `UndoProofs`, `HistoryProofs`, `KeysProofs`, `DispatchProofs`, `InputrcProofs`,
  `CompletionProofs`: the theorems about the module each is named after.  `LineLemmas`
  is what the first two share, about lines and undo lists; `InductionLemmas` is
  induction and recursion over the naturals.
* `MCUndo`, `MCHistory`, `MCKeys`, `MCDispatch`, `MCCompletion`, `MCEditor`,
  `MCInputrc`: constants for TLC.

## Runs

Passing runs:

| Run | Instance | Shows |
|---|---|---|
| `undo` | lines of up to 2 characters out of a letter and a newline, up to 4 undo items, emacs and vi, both redo commands | `TypeOK`, `UndoPosInRange`, `ItemsFit`, `UndoInSync`; an undo gives back what an edit deleted (`UndoRestoresDeleted`), a redo goes back one undo (`RedoStepsBack`) |
| `history` | a memory source that grows from 1 to 2 lines over several calls of `Readline`, lines of one character of 2; walks with arguments up to 3, backward searches, undo and revert on the lines visited, all the ways to accept, suggestions, save-line, delete-all | `NoFault`, the input line comes back at the end of a walk (`WalkRestoresInput`), `AppendOnly`, `OperateGetsNext` |
| `history_sources` | two file sources and a memory one, added, deleted and cycled in every order, with fetches, forward searches and inference | `TypeOK`, `SourceAvailable` |
| `keys` | both goroutines, 2 keys, a resize, reads that end anywhere, cursor queries, single-key reads, pastes, the input closed at any moment; one report cut or one overlapping change of the stack (`MaxFaults`) | `TypeOK` (no piece of a report reaches the stack or a command unless a read has cut one), `InOrder` (a key is never in two places unless the stack was changed during an append; keys are in order while the main goroutine alone reads); `KeysDispatched`, `QuietInputRead`, `EOFReturned` under fairness |
| `dispatch` | up to 6 keys of 4 in reads of up to 3; emacs-standard and vi keymaps with a bind that extends another, a key that only starts binds, two binds with a common start; vi operators and the visual mode; emacs with the completion menu, both kinds of search and a macro | `TypeOK`, `LocalRunsLocal`, `SameAsWhole`, `WaitsOnPrefix`, `KeysConserved` |
| `completion` | 3 candidates in a grid of 2 columns, 2 aliases, a history of 2 lines; lines and minibuffers of up to 2 characters of 2, one of them of two bytes; a search text that matches a description and one that does not compile; vi modes from the start, emacs after a command; options off and on; resizes | the selector: `TypeOK`, `NoFault`, `VisitsAll`; the line: `CompletedLine`, `ReturnsShown`, `AbortRestores`; the keymaps: `KeymapRestored` |
| `editor` | 9 lines of up to 4 characters with every cursor and keymap, 2 or 3 keys each; all the commands of `EmacsCommands` and `ViCommands`; 2 numbered registers, empty or full | `TypeOK`, `FaultCauses`, `OperatorsAgree`, `CutRestored`, `CountRepeats`, `WordMotionsAgree`, `KillsInOrder` |
| `inputrc` | every file of up to 2 lines of 37, every one of 4 lines of conditions, keymaps and includes; missing and unreadable files; strict and halting options; 2 reloads of 2 passes | `TypeOK`, `ParserMatchesLines`, `VarsKeepType`, `DumpReadsBack` |

`CompletedLine` says what a candidate replaces when the prefix has one-byte
characters, and where the cursor then is outside of vi-command mode.  `KillsInOrder`
says that a kill goes on the top of the numbered registers and moves the others up, and
that yank-pop takes kills off the top: what the code does, and no more than that.
`OperatorsAgree`, `CutRestored`, `CountRepeats` and `WordMotionsAgree` compare what
several sequences of keys would do from one and the same state, in every state
reached in which nothing is under way.

Violation runs each contradict one sentence of the repository's documentation,
quoted in `PROJECT.json`:

* `history_all`: an accepted line that one source ends with already may be
  written to no other source, though `Write` "writes the accepted input line to
  all available sources";
* `keys_resize`: a resize during a read can leave both goroutines blocked, each
  waiting for the other;
* `kill_ring`: yank-pop takes the top off the numbered registers and forgets it, though
  `Pop` "rotates the kill ring and returns the new top".  With the registers, in the
  order of their numbers, as its sequence, `Editor` would have to refine `KillRing`
  (`KillRingRefined`);
* `inputrc_dump`: dump-variables prints `set name true`, which the parser reads as
  off, though its output "can be made part of an inputrc file".

Further disagreements were met while modelling.  The model has the code's
behaviour; the passing runs leave the trigger out through their constants where
it would break a property:

* undo: `redo` with nothing undone makes the next save or undo index the items out
  of range (`undo.go:148`; the theorem `UndoNeverFaults` shows that nothing else
  does); a redo after one undo does not bring the line back (`undo.go:150`); an
  edit after an undo drops the state it was made on (`undo.go:43`);
* history: a walk that is asked to go further down than one line past the input line,
  with an argument or by end-of-history on a long source, leaves the history line on
  the screen as the new input (`sources.go:192`), though at the end of the history
  "the main input buffer and cursor position is restored" (`sources.go:168`); a
  forward search without a match panics on a memory source and does
  not give the input line back (`sources.go:399`, `:597`); end-of-history with one
  line of history drops unsaved input (`sources.go:207`); with revert-all-at-newline, the
  line that operate-and-get-next brings stays on the screen at the end of the history,
  the input line having no saved state (`sources.go:361`); an accepted history line
  is saved in the undo list of a newer line, because the source has grown
  (`undo.go:219`); with a history size, lines are written only once it is exceeded
  (`sources.go:313`); nothing is inferred for a typed line (`sources.go:106`); stale
  indexes after deleting all sources, cycling with none, or adding a name twice
  (`sources.go:142`, `:259`, `:150`); a position outside of a shorter source after
  cycling to it (`sources.go:259`);
* keys: keys read along with a reply are dropped (`keys_unix.go:59`); a report that a
  read cuts is taken for keys, and the query that asked for it goes on reading keys
  until another report comes (`keys_unix.go:43`, `keys.go:95`: `KeysDispatched` excepts
  it); a key popped while the resize goroutine appends may come back or, with what is
  appended, be lost (`keys_unix.go:64`: `InOrder` excepts it); keys out of
  order when the resize goroutine reads them (`keys_unix.go:45`); single-key reads
  panic on an empty read (`keys.go:277`); the end of the input within a paste makes
  the shell loop (`emacs.go:457`); a quoted insert overtakes the keys on the stack
  (`keys.go:276`);
* dispatch: keys that start a sequence of the local keymap and do not finish it
  are lost (`dispatch.go:33`); a bind kept for the main keymap is run from the local
  one (`dispatch.go:139`); in a non-incremental search a key that starts a sequence
  is inserted and kept (`dispatch.go:80`); a character of several bytes cut by a
  read is not inserted as one (`dispatch.go:103`);
* completion: a prefix with characters of several bytes is cut by its bytes: `x é`
  completed to `été` becomes `xété` (`insert.go:119`, `:155`); in vi-command mode the
  cursor is moved under a candidate that was just inserted (`readline.go:228`); a search started within a search overwrites the line and the keymap
  to return to (`isearch.go:18`, `:213`); a keymap to return to that was not cleared
  is set by a later reset (`isearch.go:225`); aborting a history menu after a
  non-incremental search has started in it leaves only minibuffer commands bound
  (`engine.go:229`), and accepting its only line puts a stale one back
  (`insert.go:98`); the tag commands dereference nil when a search has filtered all
  of several groups (`utils.go:215`); accept-and-menu-complete and
  insert-completions cut the prefix again from what they have accepted
  (`insert.go:155`); at the start of the line the prefix is the character after
  the cursor (`utils.go:61`); an arrow up onto a shorter row goes forward
  (`group.go:540`); a first column wider than half the terminal makes the layout
  loop (`group.go:188`); a single candidate next to an empty group is not accepted
  at once (`utils.go:357`);
* motions: h and l panic when their argument leads off the line (`vim.go:255`, `:275`),
  % does on nested or unmatched brackets (`line.go:543`); the offsets of words are
  bytes (`line.go:467`); f and t read a key for each turn of their argument
  (`vim.go:1399`); set-mark tests its argument the wrong way round (`emacs.go:1335`);
* words: transpose-words, shell-transpose-words, shell-kill-word and
  shell-backward-kill-word slice the line out of order (`emacs.go:549`, `:1035`,
  `:1066`); selecting a shell word never ends on a line with a newline or a character
  of several bytes (`selection.go:432`); the case commands leave the last letter of
  a word alone (`emacs.go:602`);
* operators: `gugu` waits again instead of ending (`vim.go:838`); `Y` panics on an
  empty line (`vim.go:987`), `dd` leaves the selection visual on one; `daw` on the
  only word leaves its first character; `x` past the end of the line stores nulls
  (`vim.go:633`); a stale selection panics when its length is asked for
  (`selection.go:223`) or its surrounds changed (`vim.go:550`);
* registers: a numbered register cannot be written, the error of a conversion that
  succeeded being asked for (`buffers.go:173`); `cc`, `C` and `s` store nothing;
* arguments: "-" followed by a command that takes no argument stays for the command
  after it, though `ResetPostRunIterations` "resets the iterations if the last
  command didn't set them" (`iterations.go:87`);
* inputrc: `C-\`, `M-\`, `M-"` and meta control codes are dumped in a form that is
  not read back (`inputrc.go:101`); an escape in hexadecimal takes one character too
  few (`parse.go:664`); an `$if` in a branch that is not followed is evaluated on its
  own (`parse.go:311`); because a reload reads the file twice with different modes,
  both branches of an `$if mode=` are applied (`config.go:44`); an included file
  neither halts on errors nor is strict, and its errors are dropped (`parse.go:370`);
  a file that includes itself is read without end; and, in the part that cuts a line
  into words, `set name` without a value panics (`parse.go:207`, `:507`) and a value
  ends at the second occurrence of its first character.

Bounds.  Two characters on a line and four undo items are enough for each pair of
neighbouring positions, for identical and different neighbours, and for the ends of
every list; a source of two lines, which `history` reaches by accepting, has an
oldest line, a newest one and a line that follows another.  Two keys in order or out of it, and a report
before, between or after them, cut or not, need one resize and one fault (`MaxFaults`);
580,000 states.  A grid whose last row is shorter and a second, aliased
group take the selector through all four cases of a move, in both directions.
Six keys let a sequence of three be cut in every way and be followed by another
one.  The lines of `editor` have a neighbour of every class on either side of
every position: words, punctuation, nested and adjacent brackets, quotes, a
trailing newline, a wide character; `MaxLen` 4, `MaxDigits` 1 and `MaxTyped` 1 leave room for an
operator, a motion and an argument, and for a kill on a full ring.  Four lines of
conditions open, turn and close two nested `$if`s, and two reloads read a file
four times (`MaxReloads`).

`CHECK_DEADLOCK FALSE` stands where the system may stop: the bounds on lines and
keys end the behaviours, a shell whose user does not type waits, and an index out
of range ends the program.

Fairness (`Keys`).  The Go scheduler runs every goroutine that can take a step,
so the main loop and the resize goroutine are weakly fair, and so is the answer
of the terminal to a query.  Typing, closing the input and resizing are not
fair: nobody has to type.

## Proofs

The theorems hold for every value of the constants that the modules' assumptions
allow: lines, undo lists, sources, files, keymaps and reads of any size, any number
of keys and resizes.  The bounds of the models are constants too, so that no theorem
rests on a small one.  Where a theorem has a hypothesis, it names what the code does
not survive (the list of disagreements above), and the run that checks the same
property satisfies it.

`UndoProofs`:

* `TypeCorrect`, `SavedPositionsFit`, `UndoSynchronised`: `TypeOK`, `ItemsFit` and
  `UndoInSync` are invariants of `Undo`.  None is inductive alone: an undo sets the
  cursor of an item (`ItemsFit`), which fits only because the lines saved had a
  checked cursor (`TypeOK`), and the position is in range after a save because the
  line is the item it names (`UndoInSync`).  The inductive invariant is their
  conjunction `Inv`; the lemma `FinishKeeps` shows once that the end of a run
  preserves it, and each action then only shows what it hands to `Finish`.
* `UndoPosSafe`: `UndoPosInRange` is an invariant, from `Inv` and the strengthening
  that a negative position means a redo just ran on a list that is not empty.
* `UndoNeverFaults`: with the `redo` command unbound no save or undo indexes the
  items out of range.  With it bound, one does: the position is below zero after a
  redo on a list with nothing undone (`UndoPosInRange`).
* `UndoGivesBack`, `RedoTakesBack`: the action properties `UndoRestoresDeleted` and
  `RedoStepsBack`.  A step of the history variable `prev` is related to the step
  before it by what that one left in the list (`Deleted`: the line before a deletion
  is next to the last item; `Undone`: the item one redo away from an undo is the line
  that was on the screen before it).

`HistoryProofs`.  Methods of the struct are operators on records, so a command is
proved in two parts: the fields it may touch (`Only`), and that these keep their
types (`Typed`).  A run of a command is then one lemma (`RunKeeps`).

* `TypeCorrect` (`TypeOK`) and `SourcesOnlyGrow` (`AppendOnly`) hold of any commands
  and any calls of the application.  The invariant adds to the types that the undo
  lists have no negative position, that sources have slots for all their lines, and
  when a line is accepted for an inference.
* `SourceStaysAvailable` (`SourceAvailable`) under `Tidy`: names of sources are
  distinct, and the last source is not deleted.  The code indexes the names without
  a check, and `Add` and `Delete` leave a stale index otherwise.
* `NothingFaults` (`NoFault`) under `Quiet`: `Tidy`, and neither a change of source on
  a history line nor the commands that ask for the line after the newest one are
  bound.  Each of these does index out of range.  The invariant is `Calm`: inside a
  loop there is a source, the position is on one of its lines, and the input line
  has been saved.
* `InputLineRestored` (`WalkRestoresInput`) under `Quiet`, from `Calm`, which also says
  that the input line, while a history line is shown, is the last item of its own
  undo list (`Held`): no save, undo or revert on another line touches that list, and
  every way to leave the input line saves it first (`LeftInput`).
* `NextLineFollows` (`OperateGetsNext`), without a hypothesis: the undo list that the
  start of a loop resets is not that of the line it then walks to.

`KeysProofs`, in any interleaving of the two goroutines, for any number of keys, resizes,
queries, cut reports and overlapping changes:

* `TypeCorrect` (`TypeOK`): as long as no read has ended inside of a report, no piece of
  one is on the stack, held for it, or given to a command.
* `KeysInOrder` (`InOrder`): no key is handled and kept, or kept twice, as long as the
  stack has not changed between the load and the store of an append; keys are in order
  while the main goroutine alone reads, wherever its reads end and also when they cut
  reports.

The inductive invariant `IInv` is `TypeOK`, what each goroutine holds at each of its
program points (`Places`), that an append finds the stack as it was loaded while there
is no overlapping change, and that the main goroutine alone has none (`Appending`), that
without a cut the input has whole reports only and nothing else has a piece (`Uncut`),
and that the keys handled, on the stack, held, taken and not yet read follow each other
(`Ordered`).  `TypeOK` needs `Uncut`: a read that does not end inside of a report takes
whole ones and leaves whole ones.  That the scan for a report (`extractCursorPos`) drops
the reports and keeps the keys in order is proved by induction over what was read.

`DispatchProofs`, for any keymaps that satisfy `DispatchAssumption`:

* `TypeCorrect` (`TypeOK`).
* `WaitsForBinds` (`WaitsOnPrefix`), when an escape starts a bind of vi-command, as it
  does by default: a local keymap that gives an escape to vi-movement-mode leaves it
  on the stack.
* `LocalRunsItsBinds` (`LocalRunsLocal`) under `Discrete`: no bind extends another one
  in the local keymaps and in the main ones that lead to them (by the menu, a search,
  the visual mode or an operator), and keys are bytes.
  Otherwise the bind that the main keymap keeps for a prefix is run by the local one.
* `KeysDispatchedOnce` (`KeysConserved`) under `Flat`: the local keymaps, and what a
  non-incremental search allows, bind single keys.  By default they do not: menus bind
  arrow keys, `vi-opp` and `vi-visual` text objects.  The keys of such a sequence are
  lost when it is not finished, or run twice.
* `ReadsDoNotMatter` (`SameAsWhole`) under both: what the typed keys run does not
  depend on how the reads cut them.  `Fits` says which command a sequence of keys
  runs, and that is what `dispatchKeys` finds with all of them on the stack
  (`WholeFound`).  The inductive invariant says that each run fits what was typed from
  its first key on (`AllFit`), that commands and stack together hold what was typed
  (`InStep`), and that a bind kept for a prefix is one of the keys on the stack, all
  of which start longer binds (`KeptHere`).  A read adds keys at the end, and what fits
  some keys fits more of them (`FitsLonger`), since a command is run only when no
  longer bind is possible.  `Discrete` leaves main keymaps that lead to no local one
  free to have a bind that extends another.

`InputrcProofs`, for any files and includes:

* `TypeCorrect` (`TypeOK`): each parser is at a line of its file and has a condition
  left to look at, whatever `$else` and `$endif` the file has.
* `VariablesKeepTheirType` (`VarsKeepType`).
* `ParsersMatch` (`ParserMatchesLines`): the stack of conditions is that of the `$if`s
  open in the lines read of the parser's own file.  The level of nesting is counted
  by a recursive function (`LevelIs`), and each kind of line is shown to keep the
  match.

`CompletionProofs`, for any candidates and histories, any width of the terminal and any
binds of the main keymaps.  All theorems have the hypothesis `MenuOnly`: the keymaps
menu-select and isearch bind the commands of `menuselectKeys` and abort, as they do by
default, for a command of the main keymap that is bound in a local one is run with
the candidate still virtual.

* `EngineGood`: the inductive invariant `Good`.  Its parts need each other.  `Sound`:
  cursors are on their lines; the selector of a group is on a cell of its grid or was
  never moved; all candidates of the menu have at least as many bytes as the prefix, which
  the code cuts from them without a check.  `Modes`: a minibuffer is open in either kind of search and
  in no other state, and only an incremental search leaves groups without
  candidates, so that elsewhere the search of a group to go on to ends.  `InSync`: the
  completed line is what inserting the candidate in the real line gives, which no
  operation may break by changing one of the two alone.
* `EngineTyped` (`TypeOK`) and `ReturnGivesShown` (`ReturnsShown`) follow.
* `CandidateReplacesPrefix` (`CompletedLine`), for a prefix of one-byte characters, of
  which alone the property speaks, and outside of vi-command mode.  For others the code
  cuts more of the line than the prefix.  In vi-command mode the theorem is false in
  general: after a command the code moves the real cursor back from the end of the
  line, also when it has just inserted a candidate.  It shows after a candidate that
  ends in a blank, which leaves an empty prefix; the run has none, and checks what is
  replaced in all modes.
* `NeverFaults` (`NoFault`) under `NoTags`: isearch does not bind
  menu-complete-next-tag and menu-complete-prev-tag.  By default it does, and they
  dereference nil in a menu of several groups all of which a search has emptied.
* `SearchRemembers`, and from it `AbortGivesBack` (`AbortRestores`) and
  `SearchGivesKeymapBack` (`KeymapRestored`), under `OneSearch`: no command that is bound
  in isearch starts a search, and there is one history source.  Otherwise a search
  within a search overwrites what there is to go back to.  The invariant `Remembers`
  ties the fields of the engine to the history variable `origin`.

A step is a key, a command and a refresh.  Each has a relation of its own between the
engine before and after it (`Passes`, `Fine`, `Shows`), lemmas show of each command
that it is `Fine`, and `StepsBy` composes the three.

Assumptions: those the modules make on their constants, which TLC evaluates on every
run.  They say that bounds are naturals and that binds, files and defaults are well
formed.  `DispatchAssumption` has two that are about data.  No search is started from
vi-command, where the code binds some: the search would switch to vi-insert until it
ends, which is the subject of `Completion`.  And each main keymap has a bind that is allowed in a
search, so that `MatchMain` does not return early on an empty keymap
(`dispatch.go:55`).  `InputrcAssumption` has one that is about data: `editing-mode` has a default
and it is a string (`src/inputrc/bind.go:51`).

Induction.  The provers cannot instantiate an operator, and with it the induction
rules of the library; `InductionLemmas` states them with a set in the place of the
predicate, and that the functions recursion defines exist.  What a loop of the code
computes is proved from these.

Only model-checked:

* all liveness (`KeysDispatched`, `QuietInputRead`, `EOFReturned`), beyond the prover's
  backends;
* `VisitsAll`, which counts the cells that a sequence of presses visits: an induction
  over the presses with the cardinality of a set, for four cases of a move;
* everything about editing (`Editor`), the order of the kills included: over a
  hundred commands on a record with some twenty fields, most of them built from scans
  of the line that would each need a lemma of its own;
* `DumpReadsBack`: that two scans, one writing and one reading escapes, undo each other
  for every sequence of keys is an induction over data.

## Not modelled

* Terminal output: prompts, hints, colours, screen coordinates, highlighting.
* The table of default binds (`inputrc/bind.go`): data, of which the instances take
  a few entries.
* How inputrc text is cut into words (`readNext`, `readSymbols`): a line of the model
  says what it is.  The error of a line that is too long for the scanner
  (`parse.go:85`).
* A resize that generates the menu while a command is using it; operators in the
  minibuffer of a non-incremental search; the cursor of the completed line in
  vi-command mode after a tag command (`readline.go:226`).
* Splitting by shell rules (`strutil/split.go`) and keyword switching
  (`strutil/keyword.go`), string code without state, and the commands that rest on
  them (yank-nth-arg, magic-space, keyword-increase, the keyword selectors).
* Recording and replay of macros; registers and history menus as completions; the
  history menu that follows the line; suffixes and the width of columns.
* The Windows reader, external editors, errors of the operating system.

## Plan

1. Proofs: that the kills stay in order (`KillsInOrder`), with a frame lemma for each
   command; `VisitsAll`.
2. `Macro`: recording and replay, fed to the stack of `Dispatch`.
3. `Completion`: the history menu that follows the line (`autoForce`) with the stale
   completed line, and several history sources within a search; then let `Dispatch`
   take its effects on keymaps from it.
4. Let the commands of `Editor` save to `UndoList`, so that every command is shown to
   be undoable.
