------------------------------ MODULE History -------------------------------
(***************************************************************************)
(* The readline loop seen from the history: a loop starts (Shell.init),    *)
(* commands run, a command accepts the line and the loop returns it to the *)
(* application, which may then add and delete sources before it reads the  *)
(* next line.  One action per history command of the shell.                *)
(***************************************************************************)
EXTENDS HistorySources

CONSTANTS
  MaxLen,     \* bound on the length of the line
  MaxItems,   \* bound on the length of an undo list
  MaxTimes,   \* bound on the argument of a command
  Initial,    \* the sources the application adds before the first loop
  Bound       \* the commands bound to keys, and the calls the application makes

ASSUME HistoryBounds ==
  /\ MaxLen \in Nat /\ MaxItems \in Nat /\ MaxTimes \in Nat
  /\ Initial \in Seq(Added)

VARIABLES
  h,          \* the Sources struct, see HistorySources
  reading,    \* inside the readline loop, or returned to the application
  typed       \* history variable: the input line as it was last shown, and the
              \* source that was active when it was left

vars == <<h, reading, typed>>

\* The struct after the application has added its first sources.
FirstSources ==
  LET added[i \in 0 .. Len(Initial)] ==
        IF i = 0 THEN NewSources ELSE AddSource(added[i - 1], Initial[i])
  IN  added[Len(Initial)]

Init ==
  /\ h = FirstSources
  /\ reading = FALSE
  /\ typed = [line |-> << >>, source |-> Default]

-----------------------------------------------------------------------------
\* Bounds of the model, on the state a command leads to.
InBounds(s) ==
  /\ Len(s.line) <= MaxLen
  /\ \A n \in DOMAIN s.list : Len(s.list[n]) <= MaxHist
  /\ \A n \in Names, i \in Slots : Len(s.lines[n][i].items) <= MaxItems

\* A command or call that leaves the struct s.
Step(cmd, s) ==
  /\ cmd \in Bound
  /\ h' = s
  /\ typed' = IF s.hpos = -1 /\ Indexable(s) /\ HasCurrent(s)
              THEN [line |-> s.line, source |-> Name(s)] ELSE typed

\* Mutant: the cursor is not checked after the command.
RunUnchecked(cmd, s) ==
  /\ reading
  /\ InBounds(SaveState(s))
  /\ Step(cmd, SaveState(s))
  /\ reading' = ~s.accepted

\* The end of Shell.run: cursor check, Save, and LineAccepted.
Run(cmd, s) ==
  LET checked == SaveState([s EXCEPT !.pos = CheckAppend(s.line, s.pos)])
      done    == IF s.accepted THEN LineAccepted(checked) ELSE checked
  IN  /\ reading
      /\ InBounds(done)
      /\ Step(cmd, IF s.fault THEN s ELSE done)
      /\ reading' = ~s.accepted

Skip(s) == [s EXCEPT !.skip = TRUE]

-----------------------------------------------------------------------------
(* Editing commands                                                        *)

selfInsert(ch) ==
  Run("self-insert", [Skip(h) EXCEPT !.line = Insert(@, h.pos, <<ch>>), !.pos = @ + 1])

backwardChar ==
  Run("backward-char", [Skip(h) EXCEPT !.pos = Dec(@)])

killWholeLine ==
  Run("kill-whole-line", [SaveState(h) EXCEPT !.line = << >>])

undoLast == Run("undo", UndoState(h))

revertLine == Run("revert-line", RevertState(h))

-----------------------------------------------------------------------------
(* History commands                                                        *)

upHistory == Run("previous-history", Walk(SaveState(h), 1))

downHistory == Run("next-history", Walk(SaveState(h), -1))

beginningOfHistory ==
  Run("beginning-of-history",
      IF HasCurrent(h) THEN Walk(Skip(h), Len(Current(h))) ELSE Skip(h))

endOfHistory ==
  Run("end-of-history", IF HasCurrent(h) THEN Walk(h, 1 - Len(Current(h))) ELSE h)

fetchHistory(i) == Run("fetch-history", Fetch(h, i))

\* upLineOrHistory and downLineOrHistory on a line without newlines.
upLineOrHistory(times) == Run("up-line-or-history", Walk(h, times))

downLineOrHistory(times) == Run("down-line-or-history", Walk(h, -times))

historySearchForward ==
  Run("history-search-forward", InsertMatch(SaveState(h), FALSE, TRUE, TRUE, FALSE))

historySearchBackward ==
  Run("history-search-backward", InsertMatch(SaveState(h), FALSE, TRUE, FALSE, FALSE))

historySubstringSearchForward ==
  Run("history-substring-search-forward", InsertMatch(h, TRUE, TRUE, TRUE, TRUE))

historySubstringSearchBackward ==
  Run("history-substring-search-backward", InsertMatch(h, TRUE, TRUE, FALSE, TRUE))

\* upLineOrSearch on a line without newlines: its SkipSave is consumed by the
\* Save of the search.
upLineOrSearch ==
  Run("up-line-or-search", InsertMatch(SaveState(Skip(h)), FALSE, TRUE, FALSE, FALSE))

inferNextHistory == Run("infer-next-history", InferNext(Skip(h)))

autosuggestAccept ==
  LET l == Suggest(h, h.line)
  IN  Run("autosuggest-accept",
          IF Len(l) <= Len(h.line) THEN h ELSE SetLine(h, l, Len(l)))

saveLine == \E s \in Write(h, FALSE) : Run("save-line", RevertState(s))

historySourceNext == Run("history-source-next", Cycle(h, TRUE))

historySourcePrev == Run("history-source-prev", Cycle(h, FALSE))

-----------------------------------------------------------------------------
(* Accepting the line                                                      *)

acceptLine == \E s \in Accept(h, FALSE, FALSE, FALSE) : Run("accept-line", s)

acceptAndHold == \E s \in Accept(h, TRUE, FALSE, FALSE) : Run("accept-and-hold", s)

acceptLineAndDownHistory ==
  \E s \in Accept(h, FALSE, TRUE, FALSE) : Run("operate-and-get-next", s)

\* abort and endOfFile: the line is returned with an error.
abort == \E s \in Accept(h, FALSE, FALSE, TRUE) : Run("abort", s)

autosuggestExecute ==
  LET l == Suggest(h, h.line)
  IN  \E s \in IF Len(l) <= Len(h.line) THEN {h}
               ELSE Accept(SetLine(h, l, Len(l)), FALSE, FALSE, FALSE) :
        Run("autosuggest-execute", s)

-----------------------------------------------------------------------------
(* The application                                                         *)

\* Shell.Readline: a call of Current with a stale index panics.
Readline ==
  /\ ~reading
  /\ Indexable(h) => InBounds(InitLoop(h))
  /\ Step("readline", IF Indexable(h) THEN InitLoop(h) ELSE [h EXCEPT !.fault = TRUE])
  /\ reading' = TRUE

Add(n) ==
  /\ ~reading
  /\ Len(h.names) < Cardinality(Names)
  /\ Step(IF n \in DOMAIN h.list THEN "add-again" ELSE "add", AddSource(h, n))
  /\ reading' = FALSE

Delete1(n) ==
  /\ ~reading
  /\ Step(IF DOMAIN h.list \subseteq {n} THEN "delete-last" ELSE "delete",
          DeleteSource(h, n))
  /\ reading' = FALSE

DeleteAllSources ==
  /\ ~reading
  /\ Step("delete-all", DeleteAll(h))
  /\ reading' = FALSE

-----------------------------------------------------------------------------
Edit ==
  \/ \E ch \in Char : selfInsert(ch)
  \/ backwardChar
  \/ killWholeLine
  \/ undoLast
  \/ revertLine

Move ==
  \/ upHistory
  \/ downHistory
  \/ beginningOfHistory
  \/ endOfHistory
  \/ \E i \in 0 .. MaxHist : fetchHistory(i)
  \/ \E times \in 1 .. MaxTimes : upLineOrHistory(times) \/ downLineOrHistory(times)
  \/ historySearchForward
  \/ historySearchBackward
  \/ historySubstringSearchForward
  \/ historySubstringSearchBackward
  \/ upLineOrSearch
  \/ inferNextHistory
  \/ autosuggestAccept
  \/ saveLine
  \/ historySourceNext
  \/ historySourcePrev

Return ==
  \/ acceptLine
  \/ acceptAndHold
  \/ acceptLineAndDownHistory
  \/ abort
  \/ autosuggestExecute

Application ==
  \/ Readline
  \/ \E n \in Added : Add(n) \/ Delete1(n)
  \/ DeleteAllSources

Next == ~h.fault /\ (Edit \/ Move \/ Return \/ Application)

Spec == Init /\ [][Next]_vars

-----------------------------------------------------------------------------
(* Properties                                                              *)

\* The steps that walk down the lines, by no more than one past the input line:
\* Walk leaves the line as it is when it is asked to go further than that.
WalkingDown ==
  \/ downHistory
  \/ \E times \in 1 .. MaxTimes : times <= h.hpos + 1 /\ downLineOrHistory(times)
  \/ Len(Current(h)) - 1 <= h.hpos + 1 /\ endOfHistory

\* The struct has its type and the cursor is on the line after every command.
TypeOK ==
  /\ h.line \in Line /\ h.pos \in 0 .. Len(h.line)
  /\ h.names \in Seq(Names)
  /\ DOMAIN h.list \subseteq Names /\ \A n \in DOMAIN h.list : h.list[n] \in Seq(Line)
  /\ h.sourcePos \in Int /\ h.hpos \in Int /\ h.cpos \in Int
  /\ \A n \in Names, i \in Slots : h.lines[n][i] \in LineHistory
  /\ reading \in BOOLEAN

\* No command indexes a source, or the list of sources, out of range.
NoFault == ~h.fault

\* As long as a source is bound, the shell has a current one: neither the
\* changes of source nor those the application makes leave a stale index or a
\* name without a source.
SourceAvailable ==
  DOMAIN h.list # {} => h.sourcePos \in 0 .. Len(h.names) - 1 /\ HasCurrent(h)

\* Walking down past the newest line brings back the input line as it was left,
\* whatever was visited, edited or undone in between (Walk's comment).  It is
\* contradicted by a walk that goes further, which Walk cuts short.
WalkRestoresInput ==
  [][(/\ Indexable(h) /\ HasCurrent(h) /\ typed.source = Name(h)
      /\ h.hpos > 0 /\ h'.hpos = -1 /\ WalkingDown)
       => h'.line = typed.line]_vars

\* What a step of the loop may do to the sources.
Grown ==
  reading =>
    \A n \in DOMAIN h.list :
      \/ h'.list[n] = h.list[n]
      \/ /\ ~h'.infer
         /\ Front(h'.list[n]) = h.list[n]
         /\ TrimSpace(Last(h'.list[n])) # << >>
         /\ h.list[n] # << >> => Last(h'.list[n]) # Last(h.list[n])
         /\ h'.accepted => TrimSpace(Last(h'.list[n])) = TrimSpace(h'.acceptLine)

\* A source only grows: a step adds at most one line to it, the line the user
\* saw, and never a blank one or the one already at its end.  A line accepted
\* for an inference adds nothing.
AppendOnly == [][Grown]_vars

\* operate-and-get-next on a history line: the next loop starts on the line
\* that follows it, as it was last edited, unless the application has made a
\* shorter source the active one meanwhile.
OperateGetsNext ==
  [][(/\ h.infer /\ ~h.acceptHold
      /\ Indexable(h) /\ HasCurrent(h) /\ h.hpos \in 2 .. Len(Current(h))
      /\ Readline)
       => /\ h'.hpos = h.hpos - 1
          /\ LET lh == h.lines[Name(h)][Len(Current(h)) - h.hpos + 1]
             IN  h'.line = IF lh.items = << >> THEN GetLine(h, Len(Current(h)) - h.hpos + 1)
                           ELSE LastItem(lh).line]_vars

\* Contradicted.  Write's comment: the accepted line is written to all
\* available sources.
WrittenToAll ==
  [][acceptLine =>
       \A n \in DOMAIN h.list :
         \/ TrimSpace(h.line) = << >>
         \/ /\ h'.list[n] # << >>
            /\ TrimSpace(Last(h'.list[n])) = TrimSpace(h.line)]_vars
=============================================================================
