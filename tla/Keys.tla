-------------------------------- MODULE Keys --------------------------------
(***************************************************************************)
(* core.Keys: the key stack, and the two goroutines that read the standard *)
(* input.  The main one refreshes the display, waits for keys, dispatches  *)
(* them; the one of WatchResize refreshes the display when the terminal is *)
(* resized.  Every refresh asks the terminal for the cursor position, and  *)
(* the answer comes on the standard input, among the keys of the user.     *)
(*                                                                         *)
(* The keys are numbered in the order they are typed.  A cursor report is  *)
(* two pieces, and a read may end between them: it takes any part of what  *)
(* has arrived, at most keyScanBufSize bytes.                              *)
(*                                                                         *)
(* The resize goroutine appends to the stack in two steps, a load and a    *)
(* store, under a read lock.  The main goroutine changes the stack without *)
(* a lock, or with another read lock, so that one of two changes that      *)
(* overlap is lost (StackStore).  The steps that take the full lock wait   *)
(* for the store.                                                          *)
(***************************************************************************)
EXTENDS Naturals, Sequences, SequencesExt

CONSTANTS
  Esc, Rest,   \* the two pieces of a cursor position report
  MaxKeys,     \* bound on the number of keys the user types
  MaxResizes,  \* bound on the number of resize signals
  MaxFaults,   \* bound on the number of cut reports and of overlapping changes
  Commands,    \* what a dispatched key may do: "plain", "prefix", "read-key",
               \* "paste"
  Closes       \* whether the input may be closed

ASSUME KeysAssumption ==
  /\ MaxKeys \in Nat /\ MaxResizes \in Nat /\ MaxFaults \in Nat
  /\ Esc \notin 1 .. MaxKeys /\ Rest \notin 1 .. MaxKeys /\ Esc # Rest
  /\ Commands \subseteq {"plain", "prefix", "read-key", "paste"}
  /\ Closes \in BOOLEAN

VARIABLES
  quiet,       \* no resize comes, and no command reads keys by itself
  typed,       \* the number of keys typed
  stdin,       \* what can be read: keys and reports
  closed,      \* the input is closed: a read finds its end
  queries,     \* cursor queries the terminal has not answered yet
  cuts,        \* (history) the number of reads that ended inside of a report
  buf,         \* Keys.buf
  mustWait,    \* Keys.mustWait
  waiting,     \* Keys.waiting
  reading,     \* Keys.reading
  eof,         \* Keys.eof
  mpc,         \* where the main goroutine is
  caller,      \* where WaitAvailableKeys returns to: "dispatch" or "paste"
  held,        \* what it has read, or popped, and not yet put on the stack
  again,       \* its query is the second one of the refresh
  taken,       \* what the resize goroutine has read and not passed back yet
  loaded,      \* the stack it has loaded, to append to
  wpc,         \* where the resize goroutine is
  wagain,      \* its query is the second one of the refresh
  stale,       \* it receives from a channel that is not Keys.cursor any more
  resizes,     \* the number of resizes
  overwritten, \* its append is lost: the main goroutine stores after it
  races,       \* (history) the number of changes of the stack during its append
  done         \* the keys given to commands, in that order

input == <<quiet, typed, stdin, closed, queries, cuts>>
flags == <<mustWait, waiting, reading, eof>>
stack == <<buf, overwritten, races>>
main  == <<mpc, caller, held, again>>
watch == <<taken, loaded, wpc, wagain, stale, resizes>>

vars == <<input, flags, stack, main, watch, done>>

Key == 1 .. MaxKeys

Init ==
  /\ quiet \in BOOLEAN
  /\ typed = 0 /\ stdin = << >> /\ closed = FALSE /\ queries = 0 /\ cuts = 0
  /\ buf = << >> /\ overwritten = FALSE /\ races = 0
  /\ mustWait = FALSE /\ waiting = FALSE /\ reading = FALSE /\ eof = FALSE
  /\ mpc = "refresh" /\ caller = "dispatch" /\ held = << >> /\ again = FALSE
  /\ taken = << >> /\ loaded = << >> /\ wpc = "idle" /\ wagain = FALSE
  /\ stale = FALSE /\ resizes = 0
  /\ done = << >>

-----------------------------------------------------------------------------
(* The user and the terminal                                               *)

Type ==
  /\ typed < MaxKeys /\ ~closed
  /\ typed' = typed + 1
  /\ stdin' = Append(stdin, typed + 1)
  /\ UNCHANGED <<quiet, closed, queries, cuts, flags, stack, main, watch, done>>

Answer ==
  /\ queries > 0 /\ ~closed
  /\ queries' = queries - 1
  /\ stdin' = stdin \o <<Esc, Rest>>
  /\ UNCHANGED <<quiet, typed, closed, cuts, flags, stack, main, watch, done>>

Close ==
  /\ Closes /\ ~closed
  /\ closed' = TRUE
  /\ UNCHANGED <<quiet, typed, stdin, queries, cuts, flags, stack, main, watch, done>>

-----------------------------------------------------------------------------
(* Reading                                                                 *)

\* The regular expression of a report matches at the pieces i and i + 1.
ReportAt(chunk, i) == chunk[i] = Esc /\ chunk[i + 1] = Rest

HasReply(chunk) == \E i \in 1 .. Len(chunk) - 1 : ReportAt(chunk, i)

\* Mutant: the report is not cut out of what was read.
KeystrokesAll(chunk) == chunk

\* The piece n is part of a report.
InReport(chunk, n) ==
  \/ n < Len(chunk) /\ ReportAt(chunk, n)
  \/ n > 1 /\ ReportAt(chunk, n - 1)

\* extractCursorPos: what was read, without the reports.
Keystrokes(chunk) ==
  LET kept[n \in 0 .. Len(chunk)] ==
        IF n = 0 THEN << >>
        ELSE IF InReport(chunk, n) THEN kept[n - 1]
        ELSE Append(kept[n - 1], chunk[n])
  IN  kept[Len(chunk)]

\* The count n' of something that may go wrong in a step, and does if b.
Counted(b, n, next) ==
  /\ b => cuts + races < MaxFaults
  /\ next = IF b THEN n + 1 ELSE n

\* A read of the first n pieces of the input, and one that finds its end.
Take(n) ==
  /\ stdin' = SubSeq(stdin, n + 1, Len(stdin))
  /\ Counted(stdin[n] = Esc, cuts, cuts')
  /\ UNCHANGED <<quiet, typed, closed, queries>>

AtEnd == stdin = << >> /\ closed

Query ==
  /\ queries' = IF closed THEN queries ELSE queries + 1
  /\ UNCHANGED <<quiet, typed, stdin, closed, cuts>>

\* A refresh goes on after a query, or asks again: ensureInputSpace, on a line
\* of several rows.
AfterQuery(second, next) == IF second THEN {next} ELSE {next, "ensure"}

-----------------------------------------------------------------------------
(* The stack                                                               *)

\* No goroutine is in the section of the read lock: the lock can be taken.
Unlocked == wpc # "append"

\* The main goroutine replaces the stack.  The resize goroutine may have loaded
\* the former one: its append is stored after this, or has been before it.
StackStore(keys) ==
  /\ buf' = keys
  /\ Counted(~Unlocked, races, races')
  /\ overwritten' \in IF Unlocked THEN {FALSE} ELSE {overwritten, TRUE}

\* Mutant: what is read while looking for a report goes on top of the stack.
PassBackFirst(keys, chunk) == chunk \o keys

\* GetCursorPos: what was read without a report is user input.
PassBack(keys, chunk) == keys \o chunk

-----------------------------------------------------------------------------
(* The main goroutine                                                      *)

\* FlushUsed, and Refresh up to the query of computeCoordinates.
Refresh ==
  /\ mpc = "refresh" /\ Unlocked
  /\ Query
  /\ mpc' = "query"
  /\ again' = FALSE
  /\ caller' = "dispatch"
  /\ UNCHANGED <<flags, stack, held, watch, done>>

\* Mutant: the query reads with readInputFiltered, which sends the reply on.
QueryReadFiltered ==
  /\ mpc = "query"
  /\ \E n \in 1 .. Len(stdin) :
       LET chunk == SubSeq(stdin, 1, n) IN
       /\ Take(n)
       /\ IF HasReply(chunk) THEN mpc' = "send" /\ UNCHANGED held
          ELSE mpc' = "pass" /\ held' = chunk
  /\ UNCHANGED <<flags, stack, caller, again, watch, done>>

\* GetCursorPos in the main goroutine, which neither waits nor reads: it reads
\* the input itself until it finds a report.
QueryRead ==
  /\ mpc = "query"
  /\ \E n \in 1 .. Len(stdin) :
       LET chunk == SubSeq(stdin, 1, n) IN
       /\ Take(n)
       /\ IF HasReply(chunk)
          THEN mpc' \in AfterQuery(again, "wait") /\ UNCHANGED held
          ELSE mpc' = "pass" /\ held' = chunk
  /\ UNCHANGED <<flags, stack, caller, again, watch, done>>

QueryPass ==
  /\ mpc = "pass"
  /\ StackStore(PassBack(buf, held))
  /\ held' = << >>
  /\ mpc' = "query"
  /\ UNCHANGED <<input, flags, caller, again, watch, done>>

QueryFails ==
  /\ mpc = "query"
  /\ AtEnd
  /\ mpc' \in AfterQuery(again, "wait")
  /\ UNCHANGED <<input, flags, stack, caller, held, again, watch, done>>

EnsureInputSpace ==
  /\ mpc = "ensure"
  /\ Query
  /\ mpc' = "query"
  /\ again' = TRUE
  /\ UNCHANGED <<flags, stack, caller, held, watch, done>>

\* Where WaitAvailableKeys returns: the loop of Readline ends at the end of the
\* input, a paste goes on.
Returns == IF caller = "dispatch" /\ eof THEN "returned" ELSE caller

\* Mutant: the stack is not looked at before the read.
WaitAlways ==
  /\ mpc = "wait" /\ Unlocked
  /\ mpc' = "read" /\ waiting' = TRUE /\ stale' = (wpc = "receive")
  /\ UNCHANGED <<input, mustWait, reading, eof, stack, caller, held, again,
                 taken, loaded, wpc, wagain, resizes, done>>

\* WaitAvailableKeys, up to its read: a new channel replaces the one the
\* resize goroutine may be waiting on.
Wait ==
  /\ mpc = "wait"
  /\ \/ /\ buf # << >> /\ ~mustWait
        /\ mpc' = Returns
        /\ UNCHANGED <<waiting, stale>>
     \/ /\ buf = << >> \/ mustWait
        /\ Unlocked
        /\ mpc' = "read"
        /\ waiting' = TRUE
        /\ stale' = (wpc = "receive")
  /\ UNCHANGED <<input, mustWait, reading, eof, stack, caller, held, again,
                 taken, loaded, wpc, wagain, resizes, done>>

\* readInputFiltered in WaitAvailableKeys.
Read ==
  /\ mpc = "read"
  /\ \E n \in 1 .. Len(stdin) :
       LET chunk == SubSeq(stdin, 1, n) IN
       /\ Take(n)
       /\ held' = Keystrokes(chunk)
       /\ mpc' = IF HasReply(chunk) THEN "send" ELSE "store"
  /\ UNCHANGED <<flags, stack, caller, again, watch, done>>

\* Mutant: the end of the input is not noticed.
ReadEOFIgnored ==
  /\ mpc = "read"
  /\ AtEnd
  /\ UNCHANGED vars

ReadEOF ==
  /\ mpc = "read"
  /\ AtEnd
  /\ eof' = TRUE
  /\ mpc' = "waited"
  /\ UNCHANGED <<input, mustWait, waiting, reading, stack, caller, held, again, watch, done>>

\* The reply is handed over when the resize goroutine receives from the
\* channel it is sent on.
Send ==
  /\ mpc = "send"
  /\ wpc = "receive" /\ ~stale
  /\ wpc' \in AfterQuery(wagain, "idle")
  /\ mpc' = IF held = << >> THEN "read" ELSE "store"
  /\ UNCHANGED <<input, flags, stack, caller, held, again,
                 taken, loaded, wagain, stale, resizes, done>>

\* The keys of a read reach the stack.
Store ==
  /\ mpc = "store"
  /\ StackStore(buf \o held)
  /\ held' = << >>
  /\ mpc' = "waited"
  /\ UNCHANGED <<input, flags, caller, again, watch, done>>

\* The deferred end of WaitAvailableKeys.
Waited ==
  /\ mpc = "waited" /\ Unlocked
  /\ waiting' = FALSE
  /\ mpc' = Returns
  /\ UNCHANGED <<input, mustWait, reading, eof, stack, caller, held, again, watch, done>>

\* The first key of the stack is popped and given to a command.
Pop ==
  /\ done' = Append(done, Head(buf))
  /\ StackStore(Tail(buf))

\* A key is matched and its command run.
Dispatch ==
  /\ mpc = "dispatch"
  /\ "plain" \in Commands
  /\ Pop
  /\ mustWait' = FALSE
  /\ mpc' = "refresh"
  /\ UNCHANGED <<input, waiting, reading, eof, caller, held, again, watch>>

\* The keys of the stack are the prefix of a bind: all of them are popped...
DispatchPrefix ==
  /\ mpc = "dispatch"
  /\ "prefix" \in Commands
  /\ held' = buf
  /\ StackStore(<< >>)
  /\ mpc' = "prefix"
  /\ UNCHANGED <<input, flags, caller, again, watch, done>>

\* ... and put back.
MatchedPrefix ==
  /\ mpc = "prefix" /\ Unlocked
  /\ mustWait' = (buf = << >>)
  /\ StackStore(held \o buf)
  /\ held' = << >>
  /\ mpc' = "refresh"
  /\ UNCHANGED <<input, waiting, reading, eof, caller, again, watch, done>>

\* A command that reads a key by itself: quoted-insert, vi-find-next-char...
DispatchReader ==
  /\ mpc = "dispatch"
  /\ "read-key" \in Commands /\ ~quiet
  /\ Pop
  /\ mustWait' = FALSE
  /\ reading' = TRUE
  /\ mpc' = "read-key"
  /\ UNCHANGED <<input, waiting, eof, caller, held, again, watch>>

\* ReadKey: a new read...
ReadKey ==
  /\ mpc = "read-key"
  /\ \E n \in 1 .. Len(stdin) :
       LET chunk == SubSeq(stdin, 1, n) IN
       /\ Take(n)
       /\ held' = Keystrokes(chunk)
       /\ mpc' = IF HasReply(chunk) THEN "send-key" ELSE "use-key"
  /\ UNCHANGED <<flags, stack, caller, again, watch, done>>

SendKey ==
  /\ mpc = "send-key"
  /\ wpc = "receive" /\ ~stale
  /\ wpc' \in AfterQuery(wagain, "idle")
  /\ mpc' = IF held = << >> THEN "panic" ELSE "use-key"
  /\ UNCHANGED <<input, flags, stack, caller, held, again,
                 taken, loaded, wagain, stale, resizes, done>>

\* ... of which the first key is used, and the others are not kept.
UseKey ==
  /\ mpc = "use-key"
  /\ done' = Append(done, Head(held))
  /\ held' = << >>
  /\ reading' = FALSE
  /\ mpc' = "refresh"
  /\ UNCHANGED <<input, mustWait, waiting, eof, stack, caller, again, watch>>

\* ReadKey indexes what it has read, which is empty at the end of the input.
ReadKeyEOF ==
  /\ mpc = "read-key"
  /\ AtEnd
  /\ mpc' = "panic"
  /\ UNCHANGED <<input, flags, stack, caller, held, again, watch, done>>

\* bracketed-paste-begin: keys are popped until the end of the paste.
DispatchPaste ==
  /\ mpc = "dispatch"
  /\ "paste" \in Commands /\ ~quiet
  /\ Pop
  /\ mustWait' = FALSE
  /\ mpc' = "paste"
  /\ caller' = "paste"
  /\ UNCHANGED <<input, waiting, reading, eof, held, again, watch>>

Paste ==
  /\ mpc = "paste"
  /\ \/ buf = << >> /\ mpc' = "wait" /\ UNCHANGED <<stack, done>>
     \/ buf # << >> /\ mpc' \in {"paste", "refresh"} /\ Pop
  /\ UNCHANGED <<input, flags, caller, held, again, watch>>

-----------------------------------------------------------------------------
(* The resize goroutine                                                    *)

\* Its Refresh, up to the query of computeCoordinates.
Resize ==
  /\ wpc = "idle"
  /\ resizes < MaxResizes /\ ~quiet
  /\ Query
  /\ wpc' = "query"
  /\ wagain' = FALSE
  /\ resizes' = resizes + 1
  /\ UNCHANGED <<flags, stack, main, taken, loaded, stale, done>>

\* GetCursorPos: whether to receive the reply or to read it.
WatchCheck ==
  /\ wpc = "query"
  /\ wpc' = IF waiting \/ reading THEN "receive" ELSE "read"
  /\ stale' = FALSE
  /\ UNCHANGED <<input, flags, stack, main, taken, loaded, wagain, resizes, done>>

WatchRead ==
  /\ wpc = "read"
  /\ \E n \in 1 .. Len(stdin) :
       LET chunk == SubSeq(stdin, 1, n) IN
       /\ Take(n)
       /\ IF HasReply(chunk)
          THEN wpc' \in AfterQuery(wagain, "idle") /\ UNCHANGED taken
          ELSE wpc' = "load" /\ taken' = chunk
  /\ UNCHANGED <<flags, stack, main, loaded, wagain, stale, resizes, done>>

\* The append of what was read without a report: the stack is loaded...
WatchLoad ==
  /\ wpc = "load"
  /\ loaded' = buf
  /\ wpc' = "append"
  /\ UNCHANGED <<input, flags, stack, main, taken, wagain, stale, resizes, done>>

\* ... and stored, whatever the main goroutine has done to it.
WatchAppend ==
  /\ wpc = "append"
  /\ buf' = IF overwritten THEN buf ELSE PassBack(loaded, taken)
  /\ overwritten' = FALSE
  /\ taken' = << >> /\ loaded' = << >>
  /\ wpc' = "query"
  /\ UNCHANGED <<input, flags, races, main, wagain, stale, resizes, done>>

WatchFails ==
  /\ wpc = "read"
  /\ AtEnd
  /\ wpc' \in AfterQuery(wagain, "idle")
  /\ UNCHANGED <<input, flags, stack, main, taken, loaded, wagain, stale, resizes, done>>

WatchEnsure ==
  /\ wpc = "ensure"
  /\ Query
  /\ wpc' = "query"
  /\ wagain' = TRUE
  /\ UNCHANGED <<flags, stack, main, taken, loaded, stale, resizes, done>>

-----------------------------------------------------------------------------
Environment == Type \/ Answer \/ Close

Main ==
  \/ Refresh \/ QueryRead \/ QueryPass \/ QueryFails \/ EnsureInputSpace
  \/ Wait \/ Read \/ ReadEOF \/ Send \/ Store \/ Waited
  \/ Dispatch \/ DispatchPrefix \/ MatchedPrefix
  \/ DispatchReader \/ ReadKey \/ SendKey \/ UseKey \/ ReadKeyEOF
  \/ DispatchPaste \/ Paste

Refreshing == WatchCheck \/ WatchRead \/ WatchLoad \/ WatchAppend \/ WatchFails \/ WatchEnsure

Next == Environment \/ Main \/ Resize \/ Refreshing

\* Both goroutines are scheduled, and the terminal answers; nothing says that
\* the user goes on typing, or that the window is resized.
Fairness == WF_vars(Main) /\ WF_vars(Refreshing) /\ WF_vars(Answer)

Spec == Init /\ [][Next]_vars /\ Fairness

-----------------------------------------------------------------------------
(* Properties                                                              *)

Piece == Key \cup {Esc, Rest}

\* The variables have their types; as long as no read ends inside of a report,
\* no piece of one reaches the stack, a command, or what is held for them,
\* whichever of the calls reads it and whatever else is read with it.
TypeOK ==
  /\ typed \in 0 .. MaxKeys /\ resizes \in 0 .. MaxResizes /\ queries \in Nat
  /\ cuts \in Nat /\ races \in Nat
  /\ stdin \in Seq(Piece) /\ taken \in Seq(Piece)
  /\ buf \in Seq(Piece) /\ loaded \in Seq(Piece)
  /\ held \in Seq(Piece) /\ done \in Seq(Piece)
  /\ cuts = 0 => buf \in Seq(Key) /\ held \in Seq(Key) /\ done \in Seq(Key)
  /\ closed \in BOOLEAN /\ overwritten \in BOOLEAN
  /\ mustWait \in BOOLEAN /\ waiting \in BOOLEAN /\ reading \in BOOLEAN /\ eof \in BOOLEAN
  /\ again \in BOOLEAN /\ wagain \in BOOLEAN /\ stale \in BOOLEAN
  /\ mpc \in {"refresh", "query", "pass", "ensure", "wait", "read", "send", "store", "waited",
              "dispatch", "prefix", "read-key", "send-key", "use-key", "paste", "returned",
              "panic"}
  /\ caller \in {"dispatch", "paste"}
  /\ wpc \in {"idle", "query", "receive", "read", "load", "append", "ensure"}

\* What is in the hands of the shell, oldest first.
Pending == done \o buf \o held \o taken \o stdin

\* No key is given to a command and kept, or kept in two places, whatever the
\* readers of single keys, the pastes and the resize goroutine do, as long as
\* the main goroutine does not change the stack between the load and the store
\* of the other's append (GetCursorPos appends under a read lock, PopKey takes
\* none); and while the main goroutine is alone keys reach the commands in the
\* order they were typed, whichever of its calls has read them.
InOrder ==
  \A i, j \in 1 .. Len(Pending) :
    i < j /\ Pending[i] \in Key /\ Pending[j] \in Key =>
      /\ races = 0 => Pending[i] # Pending[j]
      /\ quiet => Pending[i] < Pending[j]

\* A key on the stack is given to a command, or is the prefix of a sequence
\* the user has still to finish, or Readline has returned at the end of input,
\* or the refresh waits for a report that it has already read in two parts.
KeysDispatched ==
  \A k \in Key :
    (quiet /\ Contains(buf, k)) ~>
      \/ ~Contains(buf, k)
      \/ mustWait /\ mpc = "read"
      \/ mpc = "returned"
      \/ cuts > 0 /\ mpc = "query"

\* What arrives on the input is read: the two goroutines never wait for each
\* other or for a reply that was read by the other.
InputRead == (stdin # << >>) ~> (stdin = << >> \/ mpc = "returned")

\* What arrives on the input is read by the main loop when it is alone.
QuietInputRead == (quiet /\ stdin # << >>) ~> (stdin = << >> \/ mpc = "returned")

\* When the input is closed, Readline returns.
EOFReturned == (quiet /\ closed) ~> (mpc = "returned")
=============================================================================
