\* A parent and a child process: three executions, and mixes of what can hit them.
CONSTANTS
  outer = outer
  inner = inner
  None = None
  Defs <- Pair
  contents <- Contents
  name <- Name
  version <- Version
  calls <- Calls
  pinned <- Latest
  attempts <- Attempts
  onError <- OnError
  scheduled <- Scheduled
  PerProcess = 1
  Global = 2
  MaxExecs = 3
  Budgets <- Mixes
SPECIFICATION FairSpec
INVARIANTS
  TypeOK
  LimitKept
  OutputOfChild
  FewChildren
  LeftBehind
PROPERTIES
  EveryRunEnds
CHECK_DEADLOCK FALSE
