---------------------------- MODULE MCCompletion ----------------------------
(* A small instance of Completion: three words in a grid of two columns, and *)
(* two in a row of aliases; one history source.  One character is wide.      *)
EXTENDS Completion

CONSTANTS a, b, newline, space

TwoChars == {a, b}

Word1(value, desc, tag) == [value |-> value, desc |-> desc, tag |-> tag]

TwoTags ==
  <<Word1(<<a>>, "", "files"), Word1(<<a, b>>, "", "files"), Word1(<<b, b>>, "", "files"),
    Word1(<<b, a>>, "build", "tasks"), Word1(<<b>>, "build", "tasks")>>

\* The default options, and both switched on.
OffOn == {[autocomplete |-> o, displayPrefix |-> o] : o \in BOOLEAN}

OneSource == <<<<<<a, b>>, <<b>>>>>>

\* One search text that does not compile, and one that is found in a description.
OneMalformed == {<<b, b>>}
OneDescribed == {<<"build", <<b, a>>>>, <<"build", <<a>>>>}

\* The commands of menuselectKeys, and abort, which is bound everywhere.
MenuKeys ==
  {"menu-complete", "menu-complete-backward", "accept-and-menu-complete",
   "menu-incremental-search", "menu-complete-prev-tag", "menu-complete-next-tag", "abort"}

\* Without the two commands that panic when a search has filtered all groups,
\* and without the one that starts a search within a search.
IsearchKeys ==
  MenuKeys \ {"menu-complete-prev-tag", "menu-complete-next-tag", "menu-incremental-search"}
=============================================================================
