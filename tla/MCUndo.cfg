CONSTANTS
  a = a
  newline = newline
  space = space
  Char <- MCChar
  Newline = newline
  Space = space
  MaxLen = 2
  MaxItems = 4
  Modes = {"emacs", "vi-insert"}
  Redoers = {"redo", "vi-redo"}
SPECIFICATION Spec
INVARIANTS TypeOK UndoPosInRange ItemsFit UndoInSync
PROPERTIES UndoRestoresDeleted RedoStepsBack
CHECK_DEADLOCK FALSE
