CONSTANTS
  Workers = {w1, w2}
  ReadAhead = 2
  MaxReceived = 2
  MaxSent = 0
  EngineMayLeave = TRUE
  HandlerMayFail = TRUE
  SendMayFail = FALSE
SPECIFICATION FairSpec
CHECK_DEADLOCK FALSE
PROPERTIES ImplementsChannel ClosedInTheEnd FinalizeReturns MessageHandled
