-------------------------- MODULE MCTransportWrite --------------------------
(* TLC instances of TransportWrite.                                          *)
EXTENDS TransportWrite, TLC

ThreadSymmetry == Permutations(Senders) \cup Permutations(Workers)
=============================================================================
