------------------------------ MODULE Dispatch ------------------------------
(***************************************************************************)
(* keymap.Engine: how the keys of the stack are matched against the binds  *)
(* of the local and of the main keymap, in the loop of Shell.Readline.     *)
(* The key stack and the engine's memory of its last matches are a record: *)
(*   buf, macroKeys, mustWait, matched    fields of core.Keys              *)
(*   active, prefixed                     fields of keymap.Engine          *)
(* A command is an action name; "" is the empty bind.  A character of two  *)
(* bytes is the key Lead followed by the key Trail.  The sequences of the  *)
(* binds are those the code compares keys with, a meta character of an     *)
(* inputrc sequence being an escape and the character (ConvertMeta); no    *)
(* two sequences of a keymap are the same after that.                      *)
(***************************************************************************)
EXTENDS Integers, Sequences, FiniteSetsExt, SequencesExt

CONSTANTS
  KeySet,      \* the keys the user may type
  Esc,         \* the escape key
  Lead, Trail, \* the bytes of a two-byte character
  Binds,       \* for each keymap, the action of each sequence, as converted
  MacroText,   \* for each action that is a macro, the keys it stands for
  isearchCommands,     \* the actions allowed in an incremental search
  nonIsearchCommands,  \* those allowed in a non-incremental one
  StartMains,  \* the main keymaps a configuration may start with
  MaxKeys,     \* bound on the number of keys typed
  MaxChunk     \* bound on the keys one read returns

Vi == {"vi-insert", "vi-command"}
Mains == {"emacs", "emacs-standard"} \cup Vi
Locals == {"menu-select", "isearch", "vi-visual", "vi-opp"}

Sequences1 == UNION {DOMAIN Binds[m] : m \in DOMAIN Binds}
ActionsOf(m) == {Binds[m][s] : s \in DOMAIN Binds[m]}
Actions == UNION {ActionsOf(m) : m \in DOMAIN Binds}

\* The actions that start a search.
SearchStarts ==
  {"reverse-search-history", "non-incremental-reverse-search-history"}

\* The operators of vi, which wait for a motion in the vi-opp keymap.
Operators ==
  {"vi-delete-to", "vi-yank-to", "vi-change-to"}

\* No search is started in vi-command, where the code binds them too: it would
\* switch to vi-insert until the search ends.  No keymap is empty, as MatchMain's
\* comment has it, with what a search leaves of it neither.  A macro is not a
\* command, and stands for some keys (the bind without a text is the empty one).
ASSUME DispatchAssumption ==
  /\ DOMAIN Binds = Mains \cup Locals
  /\ << >> \notin Sequences1
  /\ "" \notin Actions
  /\ ActionsOf("vi-command") \cap SearchStarts = {}
  /\ \A m \in Mains : \A C \in {isearchCommands, nonIsearchCommands} : ActionsOf(m) \cap C # {}
  /\ \A a \in DOMAIN MacroText : MacroText[a] \in Seq(KeySet) /\ MacroText[a] # << >>
  /\ DOMAIN MacroText \cap {"", "self-insert", "vi-movement-mode", "emacs-editing-mode"} = {}
  /\ StartMains \subseteq Mains
  /\ MaxKeys \in Nat /\ MaxChunk \in Nat

VARIABLES
  k,        \* the key stack and the matches, see above
  main, local,   \* the keymaps of the engine, local is "" when there is none
  nonInc,   \* a non-incremental search is reading its minibuffer
  pc,       \* "wait", "local" or "main"
  typed,    \* all the keys typed
  ran       \* what was run: the action, the keys it was given, the keymap

vars == <<k, main, local, nonInc, pc, typed, ran>>

Init ==
  /\ k = [buf |-> << >>, macroKeys |-> << >>, mustWait |-> FALSE,
          matched |-> << >>, active |-> "", prefixed |-> ""]
  /\ main \in StartMains /\ local = "" /\ nonInc = FALSE
  /\ pc = "wait"
  /\ typed = << >>
  /\ ran = << >>

-----------------------------------------------------------------------------
(* The key stack                                                           *)

Stack(s) == s.buf \o s.macroKeys

\* n calls of PopKey.
Pop(s, n) ==
  LET b == Len(s.buf)
  IN  [s EXCEPT !.buf = SubSeq(@, n + 1, b),
                !.macroKeys = IF n > b THEN SubSeq(@, n - b + 1, Len(@)) ELSE @]

PopForce(s) == [Pop(s, 1) EXCEPT !.mustWait = FALSE]

\* Mutant: more keys are still waited for.
MatchedKeysWaits(s, m, args) ==
  [s EXCEPT !.matched = IF m = << >> THEN @ ELSE m, !.buf = args \o @]

MatchedKeys(s, m, args) ==
  [s EXCEPT !.matched = IF m = << >> THEN @ ELSE m,
            !.buf = args \o @,
            !.mustWait = FALSE]

\* Mutant: the prefix is not put back.
MatchedPrefixDropped(s, prefix) ==
  [s EXCEPT !.mustWait = TRUE, !.matched = prefix]

MatchedPrefix(s, prefix) ==
  [s EXCEPT !.mustWait = (@ /\ prefix = << >>) \/ (prefix # << >> /\ s.buf = << >>),
            !.buf = prefix \o @,
            !.matched = IF prefix = << >> THEN @ ELSE prefix]

-----------------------------------------------------------------------------
(* Matching                                                                *)

\* PeekChar: the number of keys of the first character.
CharLen(keys) ==
  IF Len(keys) > 1 /\ keys[1] = Lead /\ keys[2] = Trail THEN 2 ELSE 1

\* matchBind: some bind starts with the keys and is longer.
IsPrefixed(keys, binds) ==
  \E s \in DOMAIN binds : Len(s) > Len(keys) /\ IsPrefix(keys, s)

\* Mutant: the active bind stays when there is no match.
MakeMatchStale(s, a) ==
  [s EXCEPT !.active = IF a = "" THEN @ ELSE a, !.prefixed = ""]

makeMatch(s, a) == [s EXCEPT !.active = a, !.prefixed = ""]

\* dispatchKeys: keys are read until they are the prefix of no bind.  The bind
\* of the longest prefix that has one is kept, and used when nothing matches.
dispatchKeys(s, binds) ==
  LET keys  == Stack(s)
      Cut(n) == SubSeq(keys, 1, n)
      stops == {n \in 1 .. Len(keys) : ~IsPrefixed(Cut(n), binds)}
      n     == Min(stops)
      Kept(to) == LET bound == {m \in 1 .. to : Cut(m) \in DOMAIN binds}
                  IN  IF bound = {} THEN s.prefixed ELSE binds[Cut(Max(bound))]
      Match(m, a) == makeMatch(Pop(s, m), a)
  IN  IF keys = << >>
      THEN [s |-> s, prefix |-> FALSE, read |-> << >>, matched |-> << >>]
      ELSE IF CharLen(s.buf) = 2
      THEN [s |-> Match(2, "self-insert"), prefix |-> FALSE,
            read |-> Cut(2), matched |-> Cut(2)]
      ELSE IF stops = {}
      THEN [s |-> [Pop(s, Len(keys)) EXCEPT !.prefixed = Kept(Len(keys))],
            prefix |-> TRUE, read |-> keys, matched |-> keys]
      ELSE IF Cut(n) \in DOMAIN binds
      THEN [s |-> Match(n, binds[Cut(n)]), prefix |-> FALSE,
            read |-> Cut(n), matched |-> Cut(n)]
      ELSE [s |-> Match(n, Kept(n - 1)), prefix |-> FALSE,
            read |-> Cut(n), matched |-> Cut(n - 1)]

\* The command of an action is nil for the empty bind and for macros.
HasCommand(a) == a # "" /\ a \notin DOMAIN MacroText

\* getContextBinds: the searches restrict the main keymap.
MainBinds ==
  LET Only(cmds) ==
        Restrict(Binds[main], {s \in DOMAIN Binds[main] : Binds[main][s] \in cmds})
  IN  CASE local = "isearch" -> Only(isearchCommands)
        [] local # "isearch" /\ nonInc -> Only(nonIsearchCommands)
        [] OTHER -> Binds[main]

isEscapeKey(s) == s.matched = <<Esc>>

\* handleEscape, for the main or for the local keymap.
handleEscape(s, isMain) ==
  LET r == [s EXCEPT !.prefixed = ""]
  IN  IF s.prefixed = "vi-movement-mode"
      THEN [s |-> IF isMain THEN PopForce(r) ELSE r,
            bind |-> "vi-movement-mode", prefix |-> FALSE]
      ELSE IF ~isMain /\ main \notin Vi /\ local = "isearch"
      THEN [s |-> PopForce(r), bind |-> "emacs-editing-mode", prefix |-> FALSE]
      ELSE [s |-> IF isMain THEN PopForce(r) ELSE r, bind |-> "", prefix |-> FALSE]

\* MatchLocal past its early returns.
MatchLocal(s) ==
  LET d == dispatchKeys(s, Binds[local])
      r == IF d.prefix THEN MatchedPrefix(d.s, d.read)
           ELSE MatchedKeys(d.s, d.matched,
                            SubSeq(d.read, Len(d.matched) + 1, Len(d.read)))
  IN  IF isEscapeKey(r) /\ (d.prefix \/ ~HasCommand(r.active))
      THEN handleEscape(r, FALSE)
      ELSE [s |-> r, bind |-> r.active, prefix |-> d.prefix]

\* Mutant: a bind is run though a longer one may follow.
MatchMainEager(s) ==
  LET d == dispatchKeys(s, MainBinds)
      eager == d.prefix /\ d.s.prefixed # ""
      r == IF d.prefix /\ ~eager THEN MatchedPrefix(d.s, d.read)
           ELSE MatchedKeys(IF eager THEN makeMatch(d.s, d.s.prefixed) ELSE d.s, d.read, << >>)
  IN  [s |-> r, bind |-> r.active, prefix |-> d.prefix /\ ~eager]

\* MatchMain.
MatchMain(s) ==
  LET d == dispatchKeys(s, MainBinds)
      r == IF d.prefix THEN MatchedPrefix(d.s, d.read)
           ELSE MatchedKeys(d.s, d.read, << >>)
      insert == nonInc /\ (d.prefix \/ ~HasCommand(r.active))
  IN  IF insert
      THEN [s |-> [r EXCEPT !.active = "self-insert"], bind |-> "self-insert",
            prefix |-> FALSE]
      ELSE IF isEscapeKey(r) /\ main \in Vi /\ d.prefix
      THEN handleEscape(r, TRUE)
      ELSE [s |-> r, bind |-> r.active, prefix |-> d.prefix]

-----------------------------------------------------------------------------
(* The loop of Readline                                                    *)

\* FlushUsed and WaitAvailableKeys: new keys are read when there are none on
\* the stack, or none but a prefix.
Wait ==
  /\ pc = "wait"
  /\ pc' = "local"
  /\ IF (k.buf # << >> /\ ~k.mustWait) \/ k.macroKeys # << >>
     THEN k' = [k EXCEPT !.matched = << >>] /\ UNCHANGED typed
     ELSE \E chunk \in SeqOf(KeySet, MaxChunk) :
            /\ chunk # << >>
            /\ Len(typed) + Len(chunk) <= MaxKeys
            /\ k' = [k EXCEPT !.matched = << >>, !.buf = @ \o chunk]
            /\ typed' = typed \o chunk
  /\ UNCHANGED <<main, local, nonInc, ran>>

RunsOperator(cmd, l) == ~nonInc /\ (cmd \in Operators \/ (l = "vi-opp" /\ cmd # ""))

\* What the commands that change keymaps do to them; l is the local keymap they
\* find.  The menu only stays when there are several candidates; a search is
\* not started without a history source, and its second call may end it.  An
\* undefined key ends an incremental search.  An operator waits in vi-opp, or acts
\* on a selection; the command after it may run it (RunPending), which leads to
\* command mode, or to insert mode for a change.  The main keymap is not changed
\* without leaving the local one.  Operators in the minibuffer of a
\* non-incremental search are left out.
Effect(cmd, l) ==
  /\ main' \in CASE cmd = "vi-movement-mode" -> {"vi-command"}
                 [] cmd = "vi-insertion-mode" -> {"vi-insert"}
                 [] cmd = "emacs-editing-mode" -> {"emacs"}
                 [] OTHER -> {main} \cup IF RunsOperator(cmd, l) THEN Vi ELSE {}
  /\ main' # main => local' = ""
  /\ local' \in CASE cmd = "menu-complete" ->
                         IF l = "isearch" THEN {l} ELSE {"menu-select", ""}
                  [] cmd = "reverse-search-history" -> {"isearch", "", l}
                  [] cmd \in {"vi-movement-mode", "vi-insertion-mode",
                              "emacs-editing-mode", "accept-line"} -> {""}
                  [] cmd = "vi-visual-mode" -> {"vi-visual"}
                  [] cmd \in Operators /\ ~nonInc -> {"vi-opp", ""}
                  [] cmd = "" -> {IF l = "isearch" THEN "" ELSE l}
                  [] OTHER -> {l} \cup IF RunsOperator(cmd, l) THEN {""} ELSE {}
  /\ nonInc' = CASE cmd = "non-incremental-reverse-search-history" -> TRUE
                 [] cmd = "accept-line" -> FALSE
                 [] OTHER -> nonInc

\* Mutant: the macro is not unescaped.
FedRaw(cmd) == IF cmd \in DOMAIN MacroText THEN <<cmd>> ELSE << >>

\* Shell.run: a macro is fed to the stack.
Fed(cmd) == IF cmd \in DOMAIN MacroText THEN MacroText[cmd] ELSE << >>

Run(s, cmd, map) ==
  /\ k' = [s EXCEPT !.macroKeys = @ \o Fed(cmd)]
  /\ ran' = Append(ran, [cmd |-> cmd, keys |-> s.matched, map |-> map])

\* No local keymap, or an empty one: the main keymap works it out.
NoLocal == IF local = "" THEN TRUE ELSE DOMAIN Binds[local] = {}

LocalSkip ==
  /\ pc = "local"
  /\ NoLocal
  /\ pc' = "main"
  /\ UNCHANGED <<k, main, local, nonInc, typed, ran>>

LocalMatch ==
  /\ pc = "local"
  /\ ~NoLocal
  /\ LET m == MatchLocal(k)
     IN  IF m.prefix
         THEN pc' = "wait" /\ k' = m.s /\ UNCHANGED <<main, local, nonInc, ran>>
         ELSE IF m.bind = ""
         THEN pc' = "main" /\ k' = m.s /\ UNCHANGED <<main, local, nonInc, ran>>
         ELSE /\ Run(m.s, m.bind, local)
              /\ Effect(m.bind, local)
              /\ pc' = IF HasCommand(m.bind) THEN "wait" ELSE "main"
  /\ UNCHANGED typed

\* Between the two keymaps UpdateInserted may clear the completion menu.
MainMatch ==
  /\ pc = "main"
  /\ LET m == MatchMain(k)
     IN  \E l \in {local, IF local = "menu-select" THEN "" ELSE local} :
           IF m.prefix
           THEN /\ k' = m.s
                /\ local' = l
                /\ UNCHANGED <<main, nonInc, ran>>
           ELSE Run(m.s, m.bind, main) /\ Effect(m.bind, l)
  /\ pc' = "wait"
  /\ UNCHANGED typed

Next == Wait \/ LocalSkip \/ LocalMatch \/ MainMatch

Spec == Init /\ [][Next]_vars

-----------------------------------------------------------------------------
(* Properties                                                              *)

Given(r) == FlattenSeq([i \in 1 .. Len(r) |-> r[i].keys])

\* The variables have their types.
TypeOK ==
  /\ Stack(k) \in Seq(KeySet)
  /\ {k.active, k.prefixed} \subseteq Actions \cup {"", "self-insert"}
  /\ main \in Mains /\ local \in Locals \cup {""}
  /\ typed \in Seq(KeySet)

\* What was given to commands, then the stack, is what it was but for a macro.
Conserving ==
  LET fed == IF ran' = ran THEN << >> ELSE Fed(Last(ran').cmd)
  IN  pc # "wait" =>
        Given(ran') \o Stack(k') = Given(ran) \o Stack(k) \o fed

\* A step of the dispatcher takes from the top of the stack exactly the keys it
\* gives to a command (or reports as undefined), so that every key is
\* dispatched once and in order.  It is contradicted in a local keymap and in
\* the minibuffer of a non-incremental search.
KeysConserved == [][Conserving]_vars

\* The local keymap runs its own binds, with the keys they are bound to
\* (MatchLocal's comment), and not a bind left over from the main keymap.  It
\* is contradicted when the main keymap has kept a bind for a prefix.
LocalRunsLocal ==
  \A i \in 1 .. Len(ran) :
    ran[i].map \in Locals =>
      \/ ran[i].keys = <<Esc>>
      \/ ran[i].keys \in DOMAIN Binds[ran[i].map]

\* What a sequence of keys runs does not depend on how it was cut into reads:
\* each action is the one found with all that was typed from its first key on.
\* An escape that comes alone is the exception the code means, in Vi keymaps.
\* It is said of what runs before the first search, which allows other commands,
\* and the first macro, whose keys were not typed.  It is contradicted when a character of several bytes is cut.
SameAsWhole ==
  \A i \in 1 .. Len(ran) :
    (\A j \in 1 .. i - 1 : ran[j].cmd \notin SearchStarts \cup DOMAIN MacroText) =>
    LET from == Len(Given(SubSeq(ran, 1, i - 1)))
        d    == dispatchKeys([k EXCEPT !.buf = SubSeq(typed, from + 1, Len(typed)),
                                       !.macroKeys = << >>, !.prefixed = ""],
                             Binds[ran[i].map])
    IN  \/ ran[i].keys = <<Esc>> /\ ran[i].map \in Vi
        \/ ~d.prefix /\ d.read = ran[i].keys /\ d.s.active = ran[i].cmd

\* The shell never blocks for input while keys that were not tried are on the
\* stack: what it waits with is the prefix of a bind.
WaitsOnPrefix ==
  (pc = "wait" /\ k.mustWait /\ k.buf # << >>) =>
     \E m \in {main, local} \ {""} : IsPrefixed(k.buf, Binds[m])
=============================================================================
