SPECIFICATION Spec
CONSTANTS
  Char <- MCChar
  Newline = "nl"
  Space = " "
  Punct <- MCPunct
  Alnum = {"a", "A"}
  Wide = {"e'"}
  Upper <- MCUpper
  Nul = "nul"
  SingleQuote = "'"
  DoubleQuote = "dq"
  Backslash = "bs"
  Open = "("
  Close = ")"
  numRegisters = 2
  Digits <- MCDigits
  Letters = {"a"}
  Capitals <- MCCapitals
  NoRegister = "none"
  Esc = "esc"
  Backspace = "del"
  Autopairs = TRUE
  Binds <- MCBinds
  ReadKeys <- MCReadKeys
  Lines0 <- MCLines
  InitKills <- MCKills
  MaxLen = 4
  MaxDigits = 1
  MaxTyped = 1
INVARIANTS TypeOK FaultCauses OperatorsAgree CutRestored CountRepeats WordMotionsAgree
PROPERTIES KillsInOrder
CHECK_DEADLOCK FALSE
