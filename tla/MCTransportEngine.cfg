CONSTANTS
  Workers = {w1, w2}
  Dispatchers = {"d1"}
  Disconnectors = {}
  Senders = {s1}
  Finalizers = {}
  NoThread = none
  NMsgs = 3
  ReadAhead = 2
  MessagesPerRound = 2
  Tid <- MCTidOne
  IsBig <- MCIsBig
  DispatcherOf <- MCShared
  BadMsgs = {1}
  RefusedMsgs = {2}
SPECIFICATION Spec
SYMMETRY WorkerSymmetry
CHECK_DEADLOCK FALSE
INVARIANTS NoStrandedRead NoLostWakeup HandledInOrder RefCountExact
PROPERTY ImplementsChannel
