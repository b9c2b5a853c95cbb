CONSTANTS
  Workers = {w1}
  Dispatchers = {"d1"}
  Disconnectors = {c1}
  Senders = {}
  Finalizers = {f}
  NoThread = none
  NMsgs = 2
  ReadAhead = 1
  MessagesPerRound = 2
  Tid <- MCTidOne
  IsBig <- MCIsBigMixed
  DispatcherOf <- MCShared
  BadMsgs = {1}
  RefusedMsgs = {2}
SPECIFICATION FairSpec
CHECK_DEADLOCK FALSE
INVARIANT ClosedOnce
PROPERTIES EveryMessageHandled FinalizeCompletes
