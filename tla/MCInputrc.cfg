CONSTANTS
  Disks <- MCDisks
  Candidates <- MCCandidates
  Defaults <- MCDefaults
  Options <- MCOptions
  Builtin <- MCBuiltin
  UserOpts <- MCUserOpts
  Missing = missing
  Unreadable = unreadable
  MaxReloads = 2
SPECIFICATION Spec
INVARIANTS TypeOK ParserMatchesLines DumpReadsBack
PROPERTIES VarsKeepType
CHECK_DEADLOCK FALSE
