CONSTANTS
  Workers = {w1, w2, w3}
  ReadAhead = 1
  MaxReceived = 0
  MaxSent = 3
  EngineMayLeave = FALSE
  HandlerMayFail = FALSE
  SendMayFail = TRUE
SPECIFICATION Spec
SYMMETRY WorkerSymmetry
CHECK_DEADLOCK FALSE
INVARIANTS WireInOrder LostWriteEnds
