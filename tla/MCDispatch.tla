----------------------------- MODULE MCDispatch -----------------------------
(* Small keymaps with the shapes of the real ones: sequences that extend     *)
(* each other, sequences that share a start without a bind of their own, and *)
(* a key that only starts longer sequences.                                  *)
EXTENDS Dispatch

CONSTANTS esc, br, x, y, w1, w2

FourKeys == {esc, br, x, y}

Editing ==
  (<<x>> :> "self-insert") @@ (<<y>> :> "self-insert")
    @@ (<<esc, br, x>> :> "up-line-or-history") @@ (<<esc, x>> :> "kill-word")

\* emacs-standard and vi-insert have sequences that extend each other, and no
\* menu; vi-command has an operator and the visual mode; emacs has binds of
\* single keys, as the menu and the search.  The local keymaps bind single keys,
\* without the prefixes that break them.
MCBinds ==
  [m \in Mains \cup Locals |->
     CASE m = "emacs-standard" -> Editing @@ (<<x, y>> :> "down-line-or-history")
       [] m = "vi-insert" -> Editing @@ (<<esc>> :> "vi-movement-mode")
       [] m = "vi-command" -> (<<x>> :> "vi-delete-to") @@ (<<y>> :> "vi-insertion-mode")
                                @@ (<<br>> :> "vi-visual-mode")
                                @@ (<<esc, br, x>> :> "up-line-or-history")
                                @@ (<<esc, x>> :> "accept-line")
       [] m = "emacs" -> (<<x>> :> "reverse-search-history") @@ (<<y>> :> "menu-complete")
                           @@ (<<br>> :> "non-incremental-reverse-search-history")
                           @@ (<<esc>> :> "accept-line")
       [] m = "menu-select" -> (<<y>> :> "menu-complete") @@ (<<br>> :> "macro")
       [] m = "isearch" -> (<<y>> :> "accept-line")
       [] m = "vi-opp" -> (<<esc>> :> "vi-movement-mode") @@ (<<y>> :> "down-line")
       [] m = "vi-visual" -> (<<esc>> :> "vi-movement-mode") @@ (<<x>> :> "vi-delete-to")]

TwoMacro == [m \in {"macro"} |-> <<x, esc, br>>]

SearchCommands == {"self-insert", "backward-kill-word", "accept-line"}
IsearchCommands == SearchCommands \cup {"vi-movement-mode", "reverse-search-history"}
=============================================================================
