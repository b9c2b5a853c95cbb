----------------------------- MODULE MCSpyAgents -----------------------------
(* TLC instance of SpyAgents.                                                *)
EXTENDS SpyAgents, TLC

ThreadSymmetry == Permutations(Clients) \cup Permutations(Addresses)
=============================================================================
