------------------------------ MODULE MCSpyHooks ------------------------------
(* TLC instances of SpyHooks: two items of one hook and one of another in a *)
(* process, so that an item is made again after its removal.                *)
EXTENDS SpyHooks, TLC

MCHookOf == 1 :> 1 @@ 2 :> 1 @@ 3 :> 2
MCPidOf == 1 :> 1 @@ 2 :> 1 @@ 3 :> 1
=============================================================================
