CONSTANTS
  Ops = {p1, p2, p3}
  Finalizer = f
SPECIFICATION FairSpec
INVARIANT QuiescedUnlessStraddled
PROPERTIES NoEntryAfterSignal FinalizeEnds
