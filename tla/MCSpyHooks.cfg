CONSTANTS
  Threads = {11, 12}
  Items = {1, 2, 3}
  HookOf <- MCHookOf
  PidOf <- MCPidOf
  AutoActive = {1, 2}
  MaxCalls = 3
CHECK_DEADLOCK FALSE
SPECIFICATION Spec
INVARIANTS ListsAgree RemovedOnceUnlessClobbered OrphanOnlyIfOvertaken
PROPERTY EndedForGood
