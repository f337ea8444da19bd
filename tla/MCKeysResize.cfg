CONSTANTS
  Esc = esc
  Rest = rest
  MaxKeys = 2
  MaxResizes = 1
  MaxFaults = 0
  Commands = {"plain"}
  Closes = FALSE
SPECIFICATION Spec
PROPERTIES InputRead
CHECK_DEADLOCK FALSE
