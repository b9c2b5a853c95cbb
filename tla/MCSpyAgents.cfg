CONSTANTS
  Clients = {c1, c2}
  Workers = {w1}
  Dispatchers = {d1}
  Finalizer = f
  MaxAgents = 3
  Addresses = {a1, a2}
SPECIFICATION Spec
SYMMETRY ThreadSymmetry
CHECK_DEADLOCK FALSE
INVARIANTS HeldIsAlive DeletedOnce ListedIsConnected EndsItsOwn
