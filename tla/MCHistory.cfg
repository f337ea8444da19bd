CONSTANTS
  a = a
  b = b
  newline = newline
  space = space
  f = f
  g = g
  mem = mem
  Default = default
  Char <- TwoChars
  Newline = newline
  Space = space
  Files = {}
  Memories = {mem}
  Loaded <- LoadedOne
  MaxHist = 2
  MaxEntries <- Unlimited
  PreservePoint = FALSE
  RevertAll = FALSE
  MaxLen = 1
  MaxItems = 2
  MaxTimes = 3
  Initial <- AddedM
  Bound = {"self-insert", "backward-char", "undo", "revert-line", "previous-history", "next-history", "beginning-of-history", "end-of-history", "up-line-or-history", "down-line-or-history", "readline", "history-search-backward", "history-substring-search-backward", "up-line-or-search","accept-line", "accept-and-hold", "operate-and-get-next", "abort", "autosuggest-execute", "save-line", "delete-all", "autosuggest-accept"}
SPECIFICATION Spec
INVARIANT NoFault
PROPERTIES WalkRestoresInput AppendOnly OperateGetsNext
CHECK_DEADLOCK FALSE
