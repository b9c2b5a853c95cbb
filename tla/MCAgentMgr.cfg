CONSTANTS
  HookThreads = {h1}
  NoThread = none
  ExitCalled = TRUE
SPECIFICATION FairSpec
CHECK_DEADLOCK FALSE
INVARIANTS TeardownAlone InactiveAfterClose
PROPERTIES AgentEndsUnlessStuck
