CONSTANTS
  Senders = {s1, s2}
  Workers = {w1, w2}
  Closers = {c1}
  NoThread = none
  Chunks = 1
  PostMayFail = TRUE
  WriteMayFail = TRUE
  MayShutdown = TRUE
SPECIFICATION Spec
SYMMETRY ThreadSymmetry
CHECK_DEADLOCK FALSE
INVARIANTS TypeOK WireInOrder PacketBeforeMessage AcceptedIsWritten InUseExact RefCountExact
