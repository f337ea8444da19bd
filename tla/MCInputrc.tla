------------------------------ MODULE MCInputrc ------------------------------
(***************************************************************************)
(* An instance of Inputrc: every file of up to two lines, and every one of *)
(* four lines of conditions, keymaps and one bind, first or second among   *)
(* the candidates, or none that can be read.                               *)
(***************************************************************************)
EXTENDS Inputrc, TLC

Quoted(text, action, macro) ==
  [t |-> "bind", quoted |-> TRUE, key |-> text, mods |-> << >>, action |-> action, macro |-> macro]
ByName(mods, char, action) ==
  [t |-> "bind", quoted |-> FALSE, key |-> char, mods |-> mods, action |-> action, macro |-> FALSE]
Set(name, value) == [t |-> "set", name |-> name, value |-> value]
If(test, value) == [t |-> "$if", test |-> test, value |-> value]
Line(t) == [t |-> t]
IncludeOf(file) == [t |-> "$include", file |-> file]
Other(fails) == [t |-> "other", fails |-> fails]

\* "\C-x\M-q", "\"\\", "\x7f", "\C-\M-e", "\101", "\M-", "'" and named keys.
BindLines ==
  {Quoted(<<92, 67, 45, 120, 92, 77, 45, 113>>, "undo", FALSE),
   Quoted(<<92, 34, 92, 92>>, "complete", FALSE),
   Quoted(<<92, 120, 55, 102>>, "undo", FALSE),
   Quoted(<<92, 67, 45, 92, 77, 45, 101>>, "text", TRUE),
   Quoted(<<92, 49, 48, 49>>, "undo", FALSE),
   Quoted(<<97, 92, 77, 45>>, "undo", FALSE),
   Quoted(<<39, 92, 67, 45, 63, 92, 118>>, "undo", FALSE),
   ByName(<<"control">>, 99, "undo"), ByName(<<"meta", "c">>, 109, "complete"),
   ByName(<<"m">>, 9, "undo"), ByName(<<"control">>, 255, "undo"), ByName(<<"c">>, 0, "undo"), ByName(<< >>, 13, "menu-complete")}

SetLines ==
  {Set("keymap", "vi-insert"), Set("keymap", "other"), Set("editing-mode", "vi"),
   Set("editing-mode", "other"), Set("disable-completion", "On"), Set("bell", "1"),
   Set("limit", "on"), Set("limit", "05"), Set("new", "5"), Set("new", "off"),
   Set("new", "text"), Set("autopairs", "on")}

CondLines == {If("mode", "emacs"), If("app", "go"), Line("$else"), Line("$endif")}

OtherLines ==
  {IncludeOf("inc"), IncludeOf("gone"), IncludeOf("locked"), Other(FALSE), Other(TRUE),
   Line("blank"), Line("bad"), If("term", "xterm")}

AllLines == BindLines \cup SetLines \cup CondLines \cup OtherLines
Nested == CondLines \cup {Set("keymap", "vi-insert"), Set("keymap", "other"),
                          IncludeOf("inc")}

Scripts == UNION {[1 .. n -> AllLines] : n \in 0 .. 2} \cup [1 .. 4 -> Nested]

Included == <<Set("keymap", "vi-command"), If("mode", "emacs"), Set("new", "5"),
              Line("$else"), Line("bad"), Line("$endif"), Line("$else"),
              Quoted(<<120>>, "undo", FALSE)>>

DiskOf(env, home) ==
  [f \in {"env", "home", "inc", "gone", "locked"} |->
     CASE f = "env" -> env [] f = "home" -> home [] f = "inc" -> Included
       [] f = "gone" -> Missing [] f = "locked" -> Unreadable]

MCDisks == {DiskOf(s, Missing) : s \in Scripts}
             \cup {DiskOf(Missing, <<l>>) : l \in AllLines}
             \cup {DiskOf(e, h) : e, h \in {Missing, Unreadable}}
MCCandidates == <<"env", "home">>

MCDefaults ==
  [vars |-> ("disable-completion" :> data("bool", "false")) @@ ("bell" :> data("bool", "true"))
              @@ ("limit" :> data("int", "0")) @@ ("editing-mode" :> data("string", "emacs")),
   binds |-> {bind("emacs", <<9>>, "complete", FALSE), bind("vi-insert", <<9>>, "complete", FALSE),
              bind("emacs", <<28>>, "undo", FALSE)}]
MCOptions == ("autopairs" :> data("bool", "false"))
MCBuiltin == {bind("emacs", <<Esc, 9>>, "menu-complete", FALSE),
              bind("vi-opp", <<97>>, "vi-select-inside", FALSE)}

MCUserOpts ==
  {[app |-> "app", mode |-> "emacs", term |-> "xterm", halt |-> FALSE, strict |-> TRUE],
   [app |-> "app", mode |-> "vi", term |-> "xterm", halt |-> TRUE, strict |-> FALSE]}
=============================================================================
