---------------------------- MODULE MCHookEngine ----------------------------
(* TLC instances of HookEngine.                                              *)
EXTENDS HookEngine
=============================================================================
