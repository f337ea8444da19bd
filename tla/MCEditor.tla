------------------------------ MODULE MCEditor ------------------------------
(***************************************************************************)
(* An instance of Editor: lines of a few characters of every class, and    *)
(* every command bound somewhere, under its default key where it has one.  *)
(* Commands that no keymap binds by default have their name as a key.      *)
(***************************************************************************)
EXTENDS Editor, TLC

MCChar == {"a", "A", ".", " ", "nl", "(", ")", "'", "dq", "e'"}
MCPunct == {".", "(", ")", "'", "dq"}
MCUpper == ("a" :> "A")
MCDigits == ("0" :> 0) @@ ("2" :> 2)
MCCapitals == ("A" :> "a")

Named(names) == [n \in names |-> n]

EmacsBinds ==
  Named({"forward-char", "backward-char", "forward-word", "backward-word",
         "shell-forward-word", "shell-backward-word", "beginning-of-line",
         "end-of-line", "previous-screen-line", "next-screen-line", "delete-char",
         "backward-delete-char", "forward-backward-delete-char", "quoted-insert",
         "tab-insert", "transpose-chars", "transpose-words", "shell-transpose-words",
         "down-case-word", "up-case-word", "capitalize-word", "overwrite-mode",
         "delete-horizontal-whitespace", "delete-word", "quote-region", "quote-line",
         "kill-line", "backward-kill-line", "kill-whole-line", "kill-word",
         "backward-kill-word", "kill-region", "copy-region-as-kill",
         "copy-backward-word", "copy-forward-word", "yank", "yank-pop",
         "shell-kill-word", "shell-backward-kill-word", "copy-prev-shell-word",
         "set-mark", "exchange-point-and-mark", "character-search",
         "character-search-backward"})
  @@ [c \in {"2", "-"} |-> "digit-argument"]
  @@ [c \in {"a", "(", "'"} |-> "self-insert"]

InsertBinds ==
  (Esc :> "vi-movement-mode") @@ [c \in {"a", ")"} |-> "self-insert"]
  @@ Named({"vi-rubout", "vi-kill-line", "vi-backward-delete-char", "yank", "kill-word",
            "emacs-editing-mode"})

CommandBinds ==
  (Esc :> "vi-movement-mode") @@ ("a" :> "vi-append-mode") @@ ("A" :> "vi-append-eol")
  @@ ("i" :> "vi-insertion-mode") @@ ("I" :> "vi-insert-beg")
  @@ ("v" :> "vi-visual-mode") @@ ("V" :> "vi-visual-line-mode")
  @@ ("h" :> "vi-backward-char") @@ ("l" :> "vi-forward-char")
  @@ ("b" :> "vi-backward-word") @@ ("w" :> "vi-forward-word")
  @@ ("B" :> "vi-backward-bigword") @@ ("W" :> "vi-forward-bigword")
  @@ ("e" :> "vi-end-word") @@ ("E" :> "vi-end-bigword")
  @@ ("ge" :> "vi-backward-end-word") @@ ("gE" :> "vi-backward-end-bigword")
  @@ ("%" :> "vi-match") @@ ("|" :> "vi-column") @@ ("$" :> "vi-end-of-line")
  @@ ("0" :> "beginning-of-line") @@ ("^" :> "vi-back-to-indent")
  @@ ("goto-mark" :> "vi-goto-mark") @@ ("m" :> "vi-set-mark")
  @@ [k \in {"c", "C"} |-> "vi-change-to"] @@ [k \in {"d", "D"} |-> "vi-delete-to"]
  @@ [k \in {"y", "Y"} |-> "vi-yank-to"] @@ [k \in {"s", "S"} |-> "vi-subst"]
  @@ ("x" :> "vi-delete") @@ ("X" :> "vi-backward-delete-char")
  @@ ("r" :> "vi-change-char") @@ ("R" :> "vi-replace") @@ ("~" :> "vi-change-case")
  @@ ("O" :> "vi-open-line-above") @@ ("o" :> "vi-open-line-below")
  @@ ("gu" :> "vi-down-case") @@ ("gU" :> "vi-up-case")
  @@ ("p" :> "vi-put-after") @@ ("P" :> "vi-put-before") @@ ("dq" :> "vi-set-buffer")
  @@ ("f" :> "vi-find-next-char") @@ ("t" :> "vi-find-next-char-skip")
  @@ ("F" :> "vi-find-prev-char") @@ ("T" :> "vi-find-prev-char-skip")
  @@ ("2" :> "vi-arg-digit") @@ ("z" :> "none")
  @@ Named({"vi-change-eol", "vi-kill-eol", "vi-yank-whole-line"})

SelectBinds ==
  (Esc :> "vi-movement-mode")
  @@ [k \in {"a", "i"} |-> "vi-select-inside"]
  @@ ("aW" :> "select-a-blank-word") @@ ("aa" :> "select-a-shell-word")
  @@ ("aw" :> "select-a-word") @@ ("iW" :> "select-in-blank-word")
  @@ ("ia" :> "select-in-shell-word") @@ ("iw" :> "select-in-word")

OperatorBinds == ("s" :> "vi-select-surround") @@ SelectBinds

VisualBinds ==
  ("c" :> "vi-change-to") @@ [k \in {"d", "x"} |-> "vi-delete-to"]
  @@ ("s" :> "vi-subst") @@ ("S" :> "vi-add-surround") @@ ("u" :> "vi-down-case")
  @@ ("y" :> "vi-yank-to") @@ ("j" :> "next-screen-line")
  @@ ("k" :> "previous-screen-line") @@ SelectBinds

MCBinds ==
  [k \in {"emacs", "vi-insert", "vi-command", "vi-opp", "visual"} |->
     CASE k = "emacs" -> EmacsBinds
       [] k = "vi-insert" -> InsertBinds
       [] k = "vi-command" -> CommandBinds
       [] k = "vi-opp" -> OperatorBinds
       [] k = "visual" -> VisualBinds]

MCReadKeys == {"esc", "a", "("}

\* Lines of the classes that words, quotes, brackets and lines are made of.
MCLines ==
  [l \in {<<>>, <<"a", " ", "a">>} |-> 3]
  @@ [l \in {<<"a", "nl">>, <<"a", ".", "A", " ">>, <<"(", "a", ")", ")">>, <<"(", ")", "(", ")">>,
             <<"(", "(", ")", ")">>, <<"'", "a", " ", "'">>, <<"e'", " ", "a">>} |-> 2]

MCKills == {<<>>, (0 :> <<"a", "nl">>) @@ (1 :> <<"A">>)}
=============================================================================
