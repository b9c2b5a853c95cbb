CONSTANTS
  HookThreads = {h1}
  NoThread = none
  ExitCalled = TRUE
SPECIFICATION FairSpec
CHECK_DEADLOCK FALSE
PROPERTIES SignalEndsRun
