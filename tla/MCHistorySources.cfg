CONSTANTS
  a = a
  b = b
  newline = newline
  space = space
  f = f
  g = g
  mem = mem
  Default = default
  Char <- OneChar
  Newline = newline
  Space = space
  Files = {f, g}
  Memories = {mem}
  Loaded <- LoadedOne
  MaxHist = 2
  MaxEntries <- Unlimited
  PreservePoint = FALSE
  RevertAll = TRUE
  MaxLen = 1
  MaxItems = 2
  MaxTimes = 1
  Initial <- NoneAdded
  Bound = {"self-insert", "kill-whole-line", "accept-line", "history-source-next", "history-source-prev", "fetch-history", "operate-and-get-next", "history-search-forward", "history-substring-search-forward", "infer-next-history", "readline", "add", "delete"}
SPECIFICATION Spec
INVARIANTS TypeOK SourceAvailable
CHECK_DEADLOCK FALSE
