--------------------------- MODULE HistorySources ---------------------------
(***************************************************************************)
(* history.Sources: the history sources bound to the shell, the position   *)
(* in them, and the undo list of every line of every source.               *)
(*                                                                         *)
(* The struct is a record s, and its methods are operators that give the   *)
(* struct they leave, because a command calls several of them in a row:    *)
(*   line, pos        the input line and its cursor                        *)
(*   names, list      the names of the sources, and the lines of each      *)
(*   sourcePos        index of the active source                           *)
(*   hpos             -1 on the input line, k on the kth line from the end *)
(*   cpos             cursor column to come back to                        *)
(*   skip, undoing    flags a command raises for the Save that ends it     *)
(*   lines            undo list of each line of each source: the input     *)
(*                    line is at -1, a history line at its index           *)
(*   infer, accepted, acceptHold, acceptLine                               *)
(*   fault            a slice has been indexed out of range (a panic)      *)
(***************************************************************************)
EXTENDS UndoList, SequencesExt

CONSTANTS
  Default,        \* the name of the in-memory source the shell starts with
  Files,          \* names of file sources
  Memories,       \* names of in-memory sources the application may add
  Loaded,         \* the lines a source holds when it is added
  MaxHist,        \* bound on the number of lines of a source
  MaxEntries,     \* Sources.maxEntries, from history-size
  PreservePoint,  \* history-preserve-point
  RevertAll       \* revert-all-at-newline

Added == Files \cup Memories
Names == {Default} \cup Added

ASSUME SourcesAssumption ==
  /\ Default \notin Added
  /\ Files \cap Memories = {}
  /\ MaxHist \in Nat \ {0}
  /\ MaxEntries \in Int
  /\ Loaded \in [Added -> Seq(Line)]
  /\ \A n \in Added : Len(Loaded[n]) <= MaxHist
  /\ PreservePoint \in BOOLEAN
  /\ RevertAll \in BOOLEAN

Slots == -MaxHist .. MaxHist

\* NewSources.
NewSources ==
  [line |-> << >>, pos |-> 0,
   names |-> <<Default>>, list |-> [n \in {Default} |-> << >>],
   sourcePos |-> 0, hpos |-> -1, cpos |-> -1,
   skip |-> FALSE, undoing |-> FALSE,
   lines |-> [n \in Names |-> [i \in Slots |-> NewLineHistory]],
   infer |-> FALSE, accepted |-> FALSE, acceptHold |-> FALSE, acceptLine |-> << >>,
   fault |-> FALSE]

-----------------------------------------------------------------------------
(* The active source                                                       *)

\* Whether names[sourcePos] is in range when Current evaluates it.
Indexable(s) == DOMAIN s.list = {} \/ s.sourcePos \in 0 .. Len(s.names) - 1

Name(s) == s.names[s.sourcePos + 1]

\* Current() # nil.
HasCurrent(s) == DOMAIN s.list # {} /\ Name(s) \in DOMAIN s.list

Current(s) == s.list[Name(s)]

\* Source.GetLine: an empty memory source answers "" for every index.
GetLineFails(s, i) ==
  /\ i \notin 0 .. Len(Current(s)) - 1
  /\ Name(s) \in Files \/ Len(Current(s)) > 0

GetLine(s, i) == IF Len(Current(s)) = 0 THEN << >> ELSE Current(s)[i + 1]

\* A file source answers an error, a memory source panics.
GetLineFault(s) == IF Name(s) \in Files THEN s ELSE [s EXCEPT !.fault = TRUE]

\* The position of the line at index i.
FromEnd(s, i) == Len(Current(s)) - i

\* The undo list of the current line, getLineHistory.
Slot(s) == IF s.hpos > -1 THEN Len(Current(s)) - s.hpos ELSE -1

GetLineHistory(s) == s.lines[Name(s)][Slot(s)]

SetLineHistory(s, lh) == [s EXCEPT !.lines[Name(s)][Slot(s)] = lh]

SetLine(s, l, p) == [s EXCEPT !.line = l, !.pos = CheckAppend(l, p)]

-----------------------------------------------------------------------------
(* Undo lists                                                              *)

\* Sources.Reset.
ResetState(s) ==
  LET r == [s EXCEPT !.skip = FALSE, !.undoing = FALSE]
  IN  IF HasCurrent(s)
      THEN SetLineHistory(r, Reset(GetLineHistory(s), s.undoing))
      ELSE r

\* Sources.Save.
SaveState(s) ==
  ResetState(IF s.skip \/ ~HasCurrent(s) THEN s
             ELSE SetLineHistory(s, SaveItem(GetLineHistory(s), s.line, s.pos)))

\* Sources.Undo.
UndoState(s) ==
  LET r  == [s EXCEPT !.skip = TRUE, !.undoing = TRUE]
      lh == GetLineHistory(s)
      n  == UndoTo(lh, s.line)
      it == ItemAt(lh, n)
  IN  IF ~HasCurrent(s) \/ lh.items = << >> THEN r
      ELSE IF UndoStops(lh, s.line) = {} THEN SetLineHistory(r, [lh EXCEPT !.pos = n])
      ELSE SetLine(SetLineHistory(r, [lh EXCEPT !.pos = n]), it.line, it.pos)

\* Sources.Revert.
RevertState(s) ==
  LET lh == GetLineHistory(s)
      it == lh.items[1]
  IN  IF ~HasCurrent(s) \/ lh.items = << >> THEN s
      ELSE ResetState(SetLine(SetLineHistory(s, [lh EXCEPT !.items = << >>]),
                              it.line, it.pos))

\* Mutant: the undo list is looked up before the position is reset: it is still
\* that of the history line.
RestoreVisited(s) ==
  LET lh == GetLineHistory(s)
  IN  IF lh.items = << >> THEN [s EXCEPT !.hpos = -1]
      ELSE SetLine([s EXCEPT !.hpos = -1], LastItem(lh).line, LastItem(lh).pos)

\* Sources.restoreLineBuffer, called with a current source.
restoreLineBuffer(s) ==
  LET r  == [s EXCEPT !.hpos = -1]
      lh == GetLineHistory(r)
  IN  IF lh.items = << >> THEN r
      ELSE SetLine(r, LastItem(lh).line, LastItem(lh).pos)

-----------------------------------------------------------------------------
(* Moving through the lines                                                *)

setLineCursorMatch(s, next) ==
  LET c == IF s.cpos = -1 /\ Len(s.line) > 0 THEN s.pos ELSE s.cpos
  IN  SetLine([s EXCEPT !.cpos = c], next,
              IF PreservePoint /\ Len(next) > c /\ c # -1 THEN c ELSE Len(next))

\* Mutant: the line after the position is asked for.
WalkLineOffByOne(s) ==
  LET i == Len(Current(s)) - s.hpos + 1
  IN  IF GetLineFails(s, i) THEN GetLineFault(s) ELSE setLineCursorMatch(s, GetLine(s, i))

\* The line at the position: as it was last edited, or from the source.
WalkLine(s) ==
  LET i == Len(Current(s)) - s.hpos
  IN  IF GetLineHistory(s).items # << >>
      THEN setLineCursorMatch(s, LastItem(GetLineHistory(s)).line)
      ELSE IF GetLineFails(s, i) THEN GetLineFault(s)
      ELSE setLineCursorMatch(s, GetLine(s, i))

\* The second half of Sources.Walk.  A walk that ends on -1 exactly falls
\* through to the fetch, and finds the undo list of the input line there.
WalkTo(s, to) ==
  LET len == Len(Current(s))
  IN  IF to < -1 THEN [s EXCEPT !.hpos = -1]
      ELSE IF to = 0 THEN restoreLineBuffer(s)
      ELSE WalkLine([s EXCEPT !.hpos = IF to > len THEN len ELSE to])

\* Sources.Walk: the input line is saved on leaving it.
Walk(s, n) ==
  LET len  == Len(Current(s))
      left == IF s.hpos = -1 /\ n > 0
              THEN [SaveState([s EXCEPT !.skip = FALSE]) EXCEPT !.cpos = -1, !.hpos = 0]
              ELSE s
  IN  IF ~HasCurrent(s) \/ len = 0 \/ (s.hpos = len /\ n = 1) THEN s
      ELSE WalkTo(left, left.hpos + n)

\* Sources.Fetch: the line is shown, the position does not move.
Fetch(s, i) ==
  IF HasCurrent(s) /\ i \in 0 .. Len(Current(s)) - 1
  THEN setLineCursorMatch(s, GetLine(s, i))
  ELSE s

-----------------------------------------------------------------------------
(* Matching lines                                                          *)

\* Sources.match of pattern cline: the index of the first match, or what
\* stopped the scan.  The forward scan also asks for the index past the end.
match(s, cline, usePos, fwd, regex) ==
  LET len     == Len(Current(s))
      start   == IF usePos /\ s.hpos > -1 THEN len - s.hpos
                 ELSE IF fwd THEN -1 ELSE len
      visited == IF fwd THEN start + 1 .. len ELSE 0 .. start - 1
      matches(l) == IF regex THEN \E l1 \in Suffixes(l) : IsPrefix(cline, l1)
                    ELSE IsPrefix(cline, l)
      stops   == {i \in visited : GetLineFails(s, i) \/ matches(GetLine(s, i))}
      first   == IF fwd THEN Min(stops) ELSE Max(stops)
  IN  IF stops = {} THEN [found |-> FALSE, failed |-> FALSE, pos |-> 0]
      ELSE IF GetLineFails(s, first) THEN [found |-> FALSE, failed |-> TRUE, pos |-> 0]
      ELSE [found |-> TRUE, failed |-> FALSE, pos |-> first]

\* Sources.getLine saves the input line when it is the current one, without
\* touching the skip flag.
SaveMain(s) ==
  IF s.hpos = -1 THEN [SaveState([s EXCEPT !.skip = FALSE]) EXCEPT !.skip = s.skip]
  ELSE s

\* The line to match when the caller gives none: the undo list at index 0.
MatchItem(s) ==
  LET lh == s.lines[Name(s)][0]
  IN  IF lh.items = << >> THEN [line |-> << >>, pos |-> 0] ELSE LastItem(lh)

\* Sources.InsertMatch with the line and cursor of the shell (given) or with
\* none.  In the first case the line that is replaced is also the one the
\* cursor is read from afterwards.
InsertMatch(s, given, usePos, fwd, regex) ==
  LET s1    == SaveMain(s)
      it    == IF given THEN [line |-> s.line, pos |-> s.pos] ELSE MatchItem(s1)
      cline == Slice(it.line, 0, it.pos)
      m     == match(s1, cline, usePos, fwd, regex)
      r     == IF m.failed THEN GetLineFault(s1) ELSE s1
      found == GetLine(s1, m.pos)
  IN  IF ~HasCurrent(s) THEN s
      ELSE IF fwd /\ s1.hpos <= -1 THEN [s1 EXCEPT !.hpos = -1]
      ELSE IF ~m.found
      THEN IF fwd THEN UndoState([r EXCEPT !.hpos = -1]) ELSE r
      ELSE SetLine([s1 EXCEPT !.hpos = FromEnd(s1, m.pos)], found,
                   IF it.pos # 0 THEN it.pos ELSE Len(found))

\* Sources.InferNext.
InferNext(s) ==
  LET m == match(s, s.line, FALSE, FALSE, FALSE)
      l == GetLine(s, m.pos + 1)
  IN  IF ~HasCurrent(s) \/ ~m.found \/ m.pos <= 1 THEN s
      ELSE IF GetLineFails(s, m.pos + 1) THEN GetLineFault(s)
      ELSE SetLine(s, l, Len(l))

\* Sources.Suggest.
Suggest(s, l) ==
  LET m == match(s, l, FALSE, FALSE, FALSE)
  IN  IF l = << >> \/ ~HasCurrent(s) \/ ~m.found THEN l ELSE GetLine(s, m.pos)

-----------------------------------------------------------------------------
(* Writing, accepting and starting over                                    *)

\* strings.TrimSpace.
TrimSpace(l) ==
  LET ink == {i \in 1 .. Len(l) : ~IsBlank(l[i])}
  IN  IF ink = {} THEN << >> ELSE SubSeq(l, Min(ink), Max(ink))

\* fileHistory.Write trims the line, memory.Write does not.
WriteTo(n, ls, l) ==
  IF n \notin Files THEN Append(ls, l)
  ELSE IF TrimSpace(l) = << >> \/ (ls # << >> /\ Last(ls) = TrimSpace(l)) THEN ls
  ELSE Append(ls, TrimSpace(l))

\* The sets of sources that Write may write to.  The map is visited in any
\* order, and the first source whose last line is the line ends the loop.
WriteSets(s, l) ==
  LET open == {n \in DOMAIN s.list : MaxEntries # 0 /\ MaxEntries < Len(s.list[n])}
      same == {n \in open : /\ s.list[n] # << >>
                            /\ Last(s.list[n]) # << >>
                            /\ TrimSpace(Last(s.list[n])) = TrimSpace(l)}
  IN  IF same = {} THEN {open} ELSE SUBSET (open \ same)

\* Mutant: a line accepted for an inference is written too.
WriteInferred(s, infer) ==
  LET r == [s EXCEPT !.infer = infer]
  IN  IF TrimSpace(s.line) = << >> THEN {r}
      ELSE {[r EXCEPT !.list =
               [n \in DOMAIN s.list |-> IF n \in w THEN WriteTo(n, s.list[n], s.line)
                                        ELSE s.list[n]]] : w \in WriteSets(s, s.line)}

\* Sources.Write: the structs it may leave.
Write(s, infer) ==
  IF infer THEN {[s EXCEPT !.infer = TRUE]}
  ELSE IF TrimSpace(s.line) = << >> THEN {s}
  ELSE {[s EXCEPT !.list =
           [n \in DOMAIN s.list |-> IF n \in w THEN WriteTo(n, s.list[n], s.line)
                                    ELSE s.list[n]]] : w \in WriteSets(s, s.line)}

\* Sources.Accept, failed when an error is returned with the line.
Accept(s, hold, infer, failed) ==
  LET r == [s EXCEPT !.accepted = TRUE, !.acceptHold = hold, !.acceptLine = s.line]
  IN  IF failed THEN {r} ELSE Write(r, infer)

\* Sources.LineAccepted, when the line is accepted.
LineAccepted(s) ==
  IF RevertAll
  THEN [s EXCEPT !.lines = [n \in Names |-> [i \in Slots |-> NewLineHistory]]]
  ELSE s

\* Mutant: the inferred line is not fetched.
InferNone(s) == s

\* What history.Init infers from the position the last loop ended on.
InferLine(s) ==
  CASE s.hpos = -1 -> s
    [] s.hpos = 0  -> InferNext(s)
    [] OTHER       -> Walk(s, -1)

\* The part of Shell.init that works on the line and its history: the line is
\* emptied, then history.Init, then Save.
InitLoop(s) ==
  LET s0 == ResetState([s EXCEPT !.line = << >>, !.pos = 0])
      s1 == IF s0.acceptHold
            THEN SetLine([s0 EXCEPT !.hpos = -1], s0.acceptLine, Len(s0.acceptLine))
            ELSE IF ~s0.infer
            THEN IF HasCurrent(s0)
                 THEN SetLineHistory([s0 EXCEPT !.hpos = -1], NewLineHistory)
                 ELSE [s0 EXCEPT !.hpos = -1]
            ELSE [InferLine(s0) EXCEPT !.infer = FALSE]
  IN  SaveState([s1 EXCEPT !.accepted = FALSE, !.acceptLine = << >>, !.cpos = -1])

-----------------------------------------------------------------------------
(* The list of sources                                                     *)

\* Sources.Add.
AddSource(s, n) ==
  LET alone == Cardinality(DOMAIN s.list) = 1 /\ s.names[1] = Default
      names == IF alone THEN << >> ELSE s.names
      kept  == IF alone THEN DOMAIN s.list \ {Default} ELSE DOMAIN s.list
  IN  [s EXCEPT !.names = Append(names, n),
                !.list  = [m \in kept \cup {n} |->
                             IF m = n THEN Loaded[n] ELSE s.list[m]]]

\* Mutant: the active index survives the deletion.
DeleteKeepsPos(s, n) ==
  [s EXCEPT !.names = SelectSeq(s.names, LAMBDA m : m # n),
            !.list  = [m \in DOMAIN s.list \ {n} |-> s.list[m]]]

\* Sources.Delete of one source.  Only its first name goes.
DeleteSource(s, n) ==
  LET named == {i \in 1 .. Len(s.names) : s.names[i] = n}
  IN  [s EXCEPT !.names = IF named = {} THEN @ ELSE RemoveAt(@, Min(named)),
                !.list  = [m \in DOMAIN s.list \ {n} |-> s.list[m]],
                !.sourcePos = 0,
                !.hpos = IF s.infer THEN @ ELSE -1]

\* Sources.Delete of all sources: neither index is reset.
DeleteAll(s) == [s EXCEPT !.names = << >>, !.list = << >>]

\* Sources.Cycle.
Cycle(s, next) ==
  LET n == Len(s.names)
  IN  [s EXCEPT !.sourcePos =
         IF next THEN (IF @ + 1 = n THEN 0 ELSE @ + 1)
         ELSE (IF @ - 1 < 0 THEN n - 1 ELSE @ - 1)]
=============================================================================
