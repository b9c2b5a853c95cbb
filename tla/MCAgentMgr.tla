----------------------------- MODULE MCAgentMgr -----------------------------
(* TLC instances of AgentMgr: one thread that calls hooked functions.        *)
EXTENDS AgentMgr
=============================================================================
