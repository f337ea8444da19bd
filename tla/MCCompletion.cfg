CONSTANTS
  a = a
  b = b
  newline = newline
  space = space
  Char <- TwoChars
  Newline = newline
  Space = space
  Nil = nil
  Words <- TwoTags
  HistLines <- OneSource
  Columns = 2
  IsearchBinds <- IsearchKeys
  MenuBinds <- MenuKeys
  Bound = {"menu-complete", "menu-complete-backward", "possible-completions", "insert-completions", "delete-char-or-list", "reverse-search-history", "non-incremental-reverse-search-history", "vi-search-again", "self-insert", "backward-delete-char", "backward-char", "vi-movement-mode", "vi-insertion-mode", "emacs-editing-mode", "accept-line", "abort"}
  Keymaps = {"vi-insert"}
  Options <- OffOn
  Wide = {a}
  Malformed <- OneMalformed
  DescMatches <- OneDescribed
  MaxLen = 2
  MaxBuf = 2
SPECIFICATION Spec
INVARIANTS TypeOK NoFault CompletedLine VisitsAll
PROPERTIES ReturnsShown AbortRestores KeymapRestored
CHECK_DEADLOCK FALSE
