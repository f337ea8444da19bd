CONSTANTS
  Esc = esc
  Rest = rest
  MaxKeys = 2
  MaxResizes = 1
  MaxFaults = 1
  Commands = {"plain", "prefix", "read-key", "paste"}
  Closes = TRUE
SPECIFICATION Spec
INVARIANTS TypeOK InOrder
PROPERTIES KeysDispatched QuietInputRead EOFReturned
CHECK_DEADLOCK FALSE
