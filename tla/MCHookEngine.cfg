CONSTANTS
  Threads = {t1}
  Hooks = {h1, h2}
  Server = server
  Loaders = {loader}
  DllHooks = {h2}
  Internal = {h1}
  MaxDepth = 2
  MaxThrows = 1
  MaxEnables = 1
  Tries = 2
SPECIFICATION FairSpec
CHECK_DEADLOCK FALSE
INVARIANTS UsageExact FreedOnlyUnderLate RecordFound AstrayOnlyAfterThrow
PROPERTIES NoNewCalls UnhookReturns
