---------------------------- MODULE AgentChannel ----------------------------
(***************************************************************************)
(* What the agent's transport promises the manager that owns it: the order *)
(* in which the callbacks of CNktDvTransportAgentCallback begin and end,   *)
(* and the calls it gets from other threads.  TransportAgent implements    *)
(* it; AgentMgr is built on it.                                            *)
(***************************************************************************)

VARIABLES link,        \* "none" before the engine connects, "up", or "down"
          established, error, closed, \* each callback: "no", "in" or "done"
          inMessage,   \* TAC_OnEngineMessage runs
          finalize     \* Finalize: "no", "asked" or "done"

channelVars == <<link, established, error, closed, inMessage, finalize>>

Stages == {"no", "in", "done"}

TypeOK ==
  /\ link \in {"none", "up", "down"}
  /\ {established, error, closed} \subseteq Stages
  /\ inMessage \in BOOLEAN
  /\ finalize \in {"no", "asked", "done"}

Init ==
  /\ link = "none"
  /\ established = "no" /\ error = "no" /\ closed = "no"
  /\ inMessage = FALSE /\ finalize = "no"

Connect ==
  /\ link = "none" /\ finalize = "no"
  /\ link' = "up"
  /\ UNCHANGED <<established, error, closed, inMessage, finalize>>

\* The engine leaves, or a worker failed and closes the pipe.
Break ==
  /\ link = "up"
  /\ link' = "down"
  /\ UNCHANGED <<established, error, closed, inMessage, finalize>>

CallEstablished ==
  /\ link # "none" /\ established = "no" /\ finalize # "done"
  /\ established' = "in"
  /\ UNCHANGED <<link, error, closed, inMessage, finalize>>

EstablishedReturns ==
  /\ established = "in"
  /\ established' = "done"
  /\ UNCHANGED <<link, error, closed, inMessage, finalize>>

\* One message at a time.
CallMessage ==
  /\ link # "none" /\ ~inMessage /\ finalize # "done"
  /\ inMessage' = TRUE
  /\ UNCHANGED <<link, established, error, closed, finalize>>

MessageReturns ==
  /\ inMessage
  /\ inMessage' = FALSE
  /\ UNCHANGED <<link, established, error, closed, finalize>>

\* At most one error, and before the connection is closed.
CallError ==
  /\ link # "none" /\ error = "no" /\ closed = "no" /\ finalize # "done"
  /\ error' = "in"
  /\ UNCHANGED <<link, established, closed, inMessage, finalize>>

ErrorReturns ==
  /\ error = "in"
  /\ error' = "done"
  /\ UNCHANGED <<link, established, closed, inMessage, finalize>>

\* Once, when the pipe is gone.
CallClosed ==
  /\ link = "down" /\ closed = "no" /\ error # "in" /\ finalize # "done"
  /\ closed' = "in"
  /\ UNCHANGED <<link, established, error, inMessage, finalize>>

ClosedReturns ==
  /\ closed = "in"
  /\ closed' = "done"
  /\ UNCHANGED <<link, established, error, inMessage, finalize>>

FinalizeBegins ==
  /\ finalize = "no"
  /\ finalize' = "asked" /\ link' = "down"
  /\ UNCHANGED <<established, error, closed, inMessage>>

\* Finalize joins the workers, so no callback runs after it.
FinalizeReturns ==
  /\ finalize = "asked"
  /\ closed = "done" /\ established # "in" /\ error # "in" /\ ~inMessage
  /\ finalize' = "done"
  /\ UNCHANGED <<link, established, error, closed, inMessage>>

Next ==
  \/ Connect \/ Break \/ FinalizeBegins \/ FinalizeReturns
  \/ CallEstablished \/ EstablishedReturns \/ CallMessage \/ MessageReturns
  \/ CallError \/ ErrorReturns \/ CallClosed \/ ClosedReturns

Spec == Init /\ [][Next]_channelVars
=============================================================================
