------------------------------- MODULE Inputrc -------------------------------
(***************************************************************************)
(* Loading the configuration: ReloadConfig reads the first inputrc file it *)
(* finds twice, once for the application "go" and once for the user, with  *)
(* one parser for each file and each $include.  The text of a line is what *)
(* it says, except for key sequences (see Escapes): how readNext and       *)
(* readSymbols cut it into words is not modelled, nor is the panic of a    *)
(* "set" without a value.  Lines fit in the buffer of the scanner.         *)
(***************************************************************************)
EXTENDS Escapes, FiniteSets

CONSTANTS
  Disks,        \* the contents of the disk: file -> <<lines>>, Missing or Unreadable
  Candidates,   \* the files looked for, in this order: INPUTRC, home, /etc
  Defaults,     \* variables and binds of NewDefaultConfig
  Options,      \* value of a variable of this library when nothing sets it
  Builtin,      \* binds of loadBuiltinBinds
  UserOpts,     \* the options the application gives: app, mode, term, halt, strict
  Missing, Unreadable,
  MaxReloads    \* bound: how often the configuration is read

Types == {"bool", "int", "string"}

\* What a line that was scanned holds, d being the disk its file is on.
IsLine(d, l) ==
  /\ l.t \in {"blank", "bad", "bind", "set", "$if", "$else", "$endif", "$include", "other"}
  /\ l.t = "bind" => /\ l.quoted \in BOOLEAN /\ l.macro \in BOOLEAN
                     /\ l.key \in IF l.quoted THEN Seq(Nat) ELSE Nat
  /\ l.t = "set" => l.name \in STRING /\ l.value \in STRING
  /\ l.t = "$if" => l.test \in {"mode", "term", "app"}
  /\ l.t = "$include" => l.file \in DOMAIN d
  /\ l.t = "other" => l.fails \in BOOLEAN

\* The variables have values of the three types that doSet knows.
IsVars(vs) == \A n \in DOMAIN vs : vs[n].type \in Types

\* A sequence has one bind in a keymap.
IsBinds(binds) ==
  /\ \A b \in binds : b.seq \in Seq(Nat) /\ b.macro \in BOOLEAN
  /\ \A b1, b2 \in binds : b1.keymap = b2.keymap /\ b1.seq = b2.seq => b1 = b2

\* The editing mode is a string of the defaults, which are a Config.
ASSUME InputrcAssumption ==
  /\ \A d \in Disks :
       /\ Candidates \in Seq(DOMAIN d)
       /\ \A f \in DOMAIN d :
            d[f] \notin {Missing, Unreadable} =>
              Len(d[f]) \in Nat /\ \A i \in 1 .. Len(d[f]) : IsLine(d, d[f][i])
  /\ DOMAIN Defaults = {"vars", "binds"}
  /\ IsVars(Defaults.vars) /\ IsBinds(Defaults.binds)
  /\ "editing-mode" \in DOMAIN Defaults.vars
  /\ Defaults.vars["editing-mode"].type = "string"
  /\ IsVars(Options) /\ IsBinds(Builtin)
  /\ UserOpts \subseteq
       [app : STRING, mode : STRING, term : STRING, halt : BOOLEAN, strict : BOOLEAN]
  /\ MaxReloads \in Nat

VARIABLES
  disk,     \* the files
  opts,     \* the options of the application
  stage,    \* "idle", "go", "user" or "override"
  cfg,      \* the Config: vars and binds
  parsers,  \* the parsers that run, the included one last
  main,     \* the main keymap of the shell
  failed,   \* whether the last reload returned an error
  reloads

vars == <<disk, opts, stage, cfg, parsers, main, failed, reloads>>

-----------------------------------------------------------------------------
(* Config                                                                  *)

\* A variable no one has set.
nil == [type |-> "nil", val |-> ""]
data(type, val) == [type |-> type, val |-> val]

GetVar(c, name) == IF name \in DOMAIN c.vars THEN c.vars[name] ELSE nil
SetVar(c, name, value) ==
  [c EXCEPT !.vars = [n \in DOMAIN @ \cup {name} |-> IF n = name THEN value ELSE @[n]]]

GetBool(c, name) == GetVar(c, name) = data("bool", "true")

\* Config.Bind: a bind replaces the one the sequence has in the keymap.
SetBinds(c, binds) ==
  [c EXCEPT !.binds =
     {b \in @ : ~\E n \in binds : n.keymap = b.keymap /\ n.seq = b.seq} \cup binds]

bind(keymap, seq, action, macro) ==
  [keymap |-> keymap, seq |-> seq, action |-> action, macro |-> macro]

\* The texts that Atoi takes for a number, as it would print them.
IntOf == [t \in {"0", "1", "5", "05"} |-> IF t = "05" THEN "5" ELSE t]
Lower(t) == CASE t = "On" -> "on" [] t = "Off" -> "off" [] OTHER -> t

-----------------------------------------------------------------------------
(* One line of a file                                                      *)

Ok(p, c) == [p |-> p, c |-> c, err |-> FALSE]
Err(p, c) == [p |-> p, c |-> c, err |-> TRUE]

Active(p) == Last(p.conds)

ValidKeymaps == {"emacs", "emacs-standard", "emacs-meta", "emacs-ctlx",
                 "vi", "vi-move", "vi-command", "vi-insert"}

\* The key sequence of a line that binds one, by text or by name.
KeySeq(l) == IF l.quoted THEN unescapeRunes(l.key) ELSE decodeKey(l.mods, l.key)

doBind(p, c, l) ==
  Ok(p, IF Active(p) THEN SetBinds(c, {bind(p.keymap, KeySeq(l), l.action, l.macro)}) ELSE c)

\* A variable that is set already keeps its type.
typedData(type, value) ==
  CASE type = "bool" -> {data("bool", IF Lower(value) = "on" \/ value = "1"
                                      THEN "true" ELSE "false")}
    [] type = "string" -> {data("string", value)}
    [] type = "int" -> IF value \in DOMAIN IntOf THEN {data("int", IntOf[value])} ELSE {}

\* One that is not gets the type its value looks like.
guessedData(value) ==
  CASE value \in DOMAIN IntOf -> data("int", IntOf[value])
    [] Lower(value) = "off" -> data("bool", "false")
    [] Lower(value) = "on" -> data("bool", "true")
    [] OTHER -> data("string", value)

\* Mutant: every value gets the type it looks like.
doSetGuessed(p, c, l) ==
  CASE ~Active(p) -> Ok(p, c)
    [] Active(p) /\ l.name = "keymap" ->
         IF p.strict /\ l.value \notin ValidKeymaps THEN Err(p, c)
         ELSE Ok([p EXCEPT !.keymap = l.value], c)
    [] OTHER -> Ok(p, SetVar(c, l.name, guessedData(l.value)))

doSet(p, c, l) ==
  LET val == GetVar(c, l.name) IN
  CASE ~Active(p) -> Ok(p, c)
    [] Active(p) /\ l.name = "keymap" ->
         IF p.strict /\ l.value \notin ValidKeymaps THEN Err(p, c)
         ELSE Ok([p EXCEPT !.keymap = l.value], c)
    [] Active(p) /\ l.name = "editing-mode" ->
         IF l.value \in {"emacs", "vi"}
         THEN Ok(p, SetVar(c, l.name, data("string", l.value)))
         ELSE Err(p, c)
    [] Active(p) /\ l.name \notin {"keymap", "editing-mode"} ->
         IF val = nil THEN Ok(p, SetVar(c, l.name, guessedData(l.value)))
         ELSE IF typedData(val.type, l.value) = {} THEN Err(p, c)
         ELSE Ok(p, SetVar(c, l.name, CHOOSE d \in typedData(val.type, l.value) : TRUE))

\* The condition of an $if, which does not look at the ones around it.
Evaluated(p, l) ==
  CASE l.test = "mode" -> l.value = p.mode
    [] l.test = "term" -> l.value = p.term
    [] l.test = "app" -> l.value = p.app

doIf(p, c, l) == Ok([p EXCEPT !.conds = Append(@, Evaluated(p, l))], c)

\* Mutant: $else turns the branch on whatever the $if said.
doElseOn(p, c) ==
  IF Len(p.conds) = 1 THEN Err(p, c) ELSE Ok([p EXCEPT !.conds[Len(p.conds)] = TRUE], c)

doElse(p, c) ==
  IF Len(p.conds) = 1 THEN Err(p, c) ELSE Ok([p EXCEPT !.conds[Len(p.conds)] = ~@], c)

\* Mutant: a stray $endif closes the file's own condition.
doEndifAny(p, c) == Ok([p EXCEPT !.conds = Front(@)], c)

doEndif(p, c) ==
  IF Len(p.conds) = 1 THEN Err(p, c) ELSE Ok([p EXCEPT !.conds = Front(@)], c)

\* Config.Do: an unknown construct goes to a function of the application, which
\* may refuse it.
doOther(p, c, l) == IF Active(p) /\ l.fails THEN Err(p, c) ELSE Ok(p, c)

\* Parser.next, on a line that was read: blank lines and comments, a bind without an action and a
\* construct that is not followed do nothing; a line that cannot be read is an
\* error in every branch.
next(p, c, l) ==
  CASE l.t = "blank" -> Ok(p, c)
    [] l.t = "bad" -> Err(p, c)
    [] l.t = "bind" -> doBind(p, c, l)
    [] l.t = "set" -> doSet(p, c, l)
    [] l.t = "$if" -> doIf(p, c, l)
    [] l.t = "$else" -> doElse(p, c)
    [] l.t = "$endif" -> doEndif(p, c)
    [] l.t = "other" -> doOther(p, c, l)

-----------------------------------------------------------------------------
(* Parse                                                                   *)

\* A parser as Parse leaves it before the first line.
NewParser(file, o) ==
  [file |-> file, lines |-> disk[file], line |-> 1, keymap |-> "emacs", conds |-> <<TRUE>>,
   errs |-> 0, app |-> o.app, mode |-> o.mode, term |-> o.term,
   halt |-> o.halt, strict |-> o.strict]

Readable(file) == disk[file] \notin {Missing, Unreadable}

\* The options of each of the two passes: the user's own come last.
PassOpts ==
  IF stage = "go"
  THEN [app |-> "go", mode |-> "", term |-> "", halt |-> FALSE, strict |-> FALSE]
  ELSE opts

\* UserDefault returns: an error of the first pass is ignored, one of the
\* second ends the reload.
PassEnds(err) ==
  /\ parsers' = << >>
  /\ stage' = CASE stage = "go" -> "user"
                [] stage = "user" -> IF err THEN "idle" ELSE "override"
  /\ failed' = (stage = "user" /\ err)
  /\ UNCHANGED <<disk, opts, main, reloads>>

\* UserDefault: the first file that there is, whether it can be read or not.
UserDefault ==
  LET found == {i \in 1 .. Len(Candidates) : disk[Candidates[i]] # Missing}
      first == Candidates[Min(found)]
  IN
  /\ stage \in {"go", "user"} /\ parsers = << >>
  /\ \/ /\ found # {} => disk[first] = Unreadable
        /\ PassEnds(found # {})
        /\ UNCHANGED cfg
     \/ /\ found # {} /\ Readable(first)
        /\ parsers' = <<NewParser(first, PassOpts)>>
        /\ UNCHANGED <<disk, opts, stage, cfg, main, failed, reloads>>

p0 == Last(parsers)
line0 == p0.lines[p0.line]
Reading == parsers # << >> /\ p0.line <= Len(p0.lines)

\* What a parser does with the outcome of a line: an error is recorded, and
\* ends the parser when it halts on errors.  Only the file of the pass halts.
After(res) ==
  LET p == [res.p EXCEPT !.errs = @ + IF res.err THEN 1 ELSE 0, !.line = @ + 1]
  IN  IF res.err /\ p.halt THEN cfg' = res.c /\ PassEnds(TRUE)
      ELSE /\ cfg' = res.c
           /\ parsers' = [parsers EXCEPT ![Len(parsers)] = p]
           /\ UNCHANGED <<disk, opts, stage, main, failed, reloads>>

ParseLine ==
  /\ Reading /\ line0.t # "$include"
  /\ After(next(p0, cfg, line0))

\* $include in a branch that is not followed, of a missing file or one that
\* cannot be read.
SkipInclude ==
  /\ Reading /\ line0.t = "$include"
  /\ ~Active(p0) \/ ~Readable(line0.file)
  /\ After(IF Active(p0) /\ disk[line0.file] = Unreadable THEN Err(p0, cfg) ELSE Ok(p0, cfg))

\* $include: the file gets a parser of its own, in the keymap emacs, that
\* neither halts on errors nor is strict.
Include ==
  /\ Reading /\ line0.t = "$include" /\ Active(p0) /\ Readable(line0.file)
  /\ parsers' = Append([parsers EXCEPT ![Len(parsers)].line = @ + 1],
                       NewParser(line0.file, [p0 EXCEPT !.halt = FALSE, !.strict = FALSE]))
  /\ UNCHANGED <<disk, opts, stage, cfg, main, failed, reloads>>

\* The end of a file, which no over-long line has cut; the errors of an included
\* one are forgotten with it.
EndOfFile ==
  /\ parsers # << >> /\ p0.line > Len(p0.lines)
  /\ \/ /\ Len(parsers) > 1 /\ parsers' = Front(parsers)
        /\ UNCHANGED <<disk, opts, stage, cfg, main, failed, reloads>>
     \/ /\ Len(parsers) = 1 /\ PassEnds(FALSE) /\ UNCHANGED cfg

-----------------------------------------------------------------------------
(* ReloadConfig                                                            *)

\* loadBuiltinOptions: the variables of this library that have no value yet.
loadBuiltinOptions(c) ==
  [c EXCEPT !.vars =
     [n \in DOMAIN @ \cup DOMAIN Options |-> IF n \in DOMAIN @ THEN @[n] ELSE Options[n]]]

\* loadBuiltinBinds: on top of what was bound before, C-c aborts everywhere.  The
\* local keymaps are maps of the package, and menu-select and isearch are one: a
\* bind of the user in one of them lives on in the code, in both; here a reload
\* gives each its own binds again.
loadBuiltinBinds(c) ==
  LET c1 == SetBinds(c, Builtin)
  IN  SetBinds(c1, {bind(b.keymap, <<Encontrol(UpperC)>>, "abort", FALSE) : b \in c1.binds})

\* NewEngine, or re-read-init-file later.
Reload ==
  /\ stage = "idle" /\ reloads < MaxReloads
  /\ cfg' = loadBuiltinBinds(loadBuiltinOptions(cfg))
  /\ stage' = "go" /\ reloads' = reloads + 1
  /\ failed' = FALSE
  /\ UNCHANGED <<disk, opts, parsers, main>>

\* overrideBindsSpecial.
overrideBindsSpecial(c) ==
  [c EXCEPT !.binds =
     {IF /\ GetBool(c, "disable-completion")
         /\ b.action \in {"complete", "menu-complete", "possible-completions"}
      THEN bind(b.keymap, b.seq, "self-insert", FALSE) ELSE b : b \in @}]

\* The end of a reload that met no error: special binds, then the main keymap.
Override ==
  /\ stage = "override"
  /\ cfg' = overrideBindsSpecial(cfg)
  /\ main' = CASE GetVar(cfg', "editing-mode") = data("string", "emacs") -> "emacs"
               [] GetVar(cfg', "editing-mode") = data("string", "vi") -> "vi-insert"
               [] OTHER -> main
  /\ stage' = "idle"
  /\ UNCHANGED <<disk, opts, parsers, failed, reloads>>

Init ==
  /\ disk \in Disks
  /\ opts \in UserOpts
  /\ stage = "idle" /\ cfg = Defaults /\ parsers = << >> /\ main = "emacs"
  /\ failed = FALSE /\ reloads = 0

Next ==
  \/ Reload
  \/ UserDefault
  \/ ParseLine
  \/ SkipInclude
  \/ Include
  \/ EndOfFile
  \/ Override

Spec == Init /\ [][Next]_vars

-----------------------------------------------------------------------------
(* Properties                                                              *)

\* Every parser is at a line of its file or past the last one, with the
\* condition of the file under those of its $ifs, and the configuration holds
\* values of the three types and one bind for each sequence of a keymap.
TypeOK ==
  /\ stage \in {"idle", "go", "user", "override"}
  /\ IsVars(cfg.vars) /\ IsBinds(cfg.binds)
  /\ \A i \in DOMAIN parsers :
       /\ parsers[i].line \in 1 .. Len(parsers[i].lines) + 1
       /\ parsers[i].conds \in Seq(BOOLEAN) /\ parsers[i].conds # << >>
       /\ parsers[i].errs \in Nat
  /\ stage \in {"idle", "override"} => parsers = << >>
  /\ main \in {"emacs", "vi-insert"} /\ failed \in BOOLEAN

\* How many $ifs are open after each line, if one that closes nothing is not
\* counted.
Level(lines) ==
  LET level[k \in 0 .. Len(lines)] ==
        IF k = 0 THEN 0
        ELSE CASE lines[k].t = "$if" -> level[k - 1] + 1
               [] lines[k].t = "$endif" /\ level[k - 1] > 0 -> level[k - 1] - 1
               [] OTHER -> level[k - 1]
  IN  level

\* Whether the branch of the d-th $if open after line n is the one to follow:
\* the condition of the $if, turned round by each $else of its own.
Follows(p, n, d) ==
  LET level == Level(p.lines)
      if == CHOOSE j \in 1 .. n : /\ p.lines[j].t = "$if" /\ level[j] = d
                                  /\ \A k \in j .. n : level[k] >= d
      elses == {k \in if .. n : p.lines[k].t = "$else" /\ level[k] = d}
  IN  Evaluated(p, p.lines[if]) = (Cardinality(elses) % 2 = 0)

\* A parser follows the lines of its own file only, whatever files it included:
\* its conditions are those of the $ifs that are open, and its keymap the last
\* one set in a branch it followed (Parser.do, Parser.doSet).
ParserMatchesLines ==
  \A i \in DOMAIN parsers :
    LET p == parsers[i]
        n == p.line - 1
        level == Level(p.lines)
        keymaps == {k \in 1 .. n :
                      /\ p.lines[k].t = "set" /\ p.lines[k].name = "keymap"
                      /\ p.strict => p.lines[k].value \in ValidKeymaps
                      /\ level[k] > 0 => Follows(p, k, level[k])}
    IN  /\ p.conds = <<TRUE>> \o [d \in 1 .. level[n] |-> Follows(p, n, d)]
        /\ p.keymap = IF keymaps = {} THEN "emacs"
                      ELSE p.lines[CHOOSE k \in keymaps : \A m \in keymaps : m <= k].value

\* No variable is lost or gets another type.
KeepsTypes ==
  \A n \in DOMAIN cfg.vars :
    n \in DOMAIN cfg'.vars /\ cfg'.vars[n].type = cfg.vars[n].type

\* The type of a variable never changes, in either pass and over all reloads:
\* GetBool, GetInt and GetString give a variable of another type the zero value
\* without a word.
VarsKeepType == [][KeepsTypes]_vars

\* Sequences that Escape writes so that they can be read again: not those with
\* C-\, M-\ or M-", which hide the quote or the prefix that follows, nor with a
\* meta control code, whose code is padded with a space.
Writable(seq) ==
  \A c \in Range(seq) : c \notin (128 .. 159) \cup {28, 162, 220, 255}

\* What dump-functions prints with an argument can be made part of an inputrc
\* file: the parser reads the sequence of every such bind back (PrintBinds).
DumpReadsBack ==
  \A b \in cfg.binds :
    Writable(b.seq) =>
      LET text == <<DoubleQuote>> \o Escape(b.seq) \o <<DoubleQuote>>
      IN  /\ findStringEnd(text, 1) = Len(text)
          /\ unescapeRunes(SubSeq(text, 2, Len(text) - 1)) = b.seq

\* What dump-variables prints of a value: a boolean is true or false.
printed(d) == d.val

\* Contradicted.  What dump-variables prints with an argument can be made part
\* of an inputrc file: a parser that reads it sets what was set.
VariablesReadBack ==
  LET fresh == [conds |-> <<TRUE>>, strict |-> FALSE, keymap |-> "emacs"] IN
  stage = "idle" /\ reloads > 0 =>
    \A n \in DOMAIN cfg.vars :
      doSet(fresh, cfg, [name |-> n, value |-> printed(cfg.vars[n])]).c = cfg
=============================================================================
