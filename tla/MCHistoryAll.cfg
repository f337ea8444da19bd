CONSTANTS
  a = a
  b = b
  newline = newline
  space = space
  f = f
  g = g
  mem = mem
  Default = default
  Char <- OneChar
  Newline = newline
  Space = space
  Files = {f, g}
  Memories = {}
  Loaded <- LoadedOne
  MaxHist = 3
  MaxEntries <- Unlimited
  PreservePoint = FALSE
  RevertAll = FALSE
  MaxLen = 2
  MaxItems = 3
  MaxTimes = 1
  Initial <- NoneAdded
  Bound = {"self-insert", "accept-line", "readline", "add"}
SPECIFICATION Spec
PROPERTY WrittenToAll
CHECK_DEADLOCK FALSE
