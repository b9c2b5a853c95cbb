CONSTANTS
  Workers = {w1}
  Dispatchers = {"d1"}
  Disconnectors = {}
  Senders = {s1}
  Finalizers = {}
  NoThread = none
  NMsgs = 1
  ReadAhead = 1
  MessagesPerRound = 2
  Tid <- MCTidOne
  IsBig <- MCIsBig
  DispatcherOf <- MCShared
  BadMsgs = {}
  RefusedMsgs = {}
SPECIFICATION Spec
CHECK_DEADLOCK FALSE
INVARIANT DestructorAssertion
