-------------------------- MODULE MCTransportAgent --------------------------
(* TLC instances of TransportAgent.                                          *)
EXTENDS TransportAgent, TLC

WorkerSymmetry == Permutations(Workers)
=============================================================================
