-------------------------- MODULE MCShutdownMutex --------------------------
(* TLC instance of ShutdownMutex.  The operation threads are alike, but a    *)
(* symmetry would be unsound for FinalizeEnds, a liveness property.          *)
EXTENDS ShutdownMutex
=============================================================================
