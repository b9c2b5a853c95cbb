------------------------- MODULE MCTransportEngine -------------------------
(* TLC instances of TransportEngine.                                         *)
EXTENDS TransportEngine, TLC

\* Three messages of one thread of the agent, which hashes to one dispatcher;
\* none is a packet of big data, or the first one is.
MCIsBig == <<FALSE, FALSE, FALSE>>
MCIsBigMixed == <<TRUE, FALSE, FALSE>>
MCShared == [t \in {"t1", "t2"} |-> "d1"]
MCTidOne == <<"t1", "t1", "t1">>

WorkerSymmetry == Permutations(Workers)
=============================================================================
