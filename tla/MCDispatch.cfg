CONSTANTS
  esc = esc
  br = br
  x = x
  y = y
  w1 = w1
  w2 = w2
  KeySet <- FourKeys
  Esc = esc
  Lead = w1
  Trail = w2
  Binds <- MCBinds
  MacroText <- TwoMacro
  isearchCommands <- IsearchCommands
  nonIsearchCommands <- SearchCommands
  StartMains = {"emacs", "emacs-standard", "vi-insert"}
  MaxKeys = 6
  MaxChunk = 3
SPECIFICATION Spec
INVARIANTS TypeOK LocalRunsLocal SameAsWhole WaitsOnPrefix
PROPERTIES KeysConserved
CHECK_DEADLOCK FALSE
