-------------------------- MODULE RefusingDelivery --------------------------
(***************************************************************************)
(* What the engine promises of the messages an agent writes: their turn    *)
(* comes in the order in which they were written, each once.  When the     *)
(* turn of a message comes it is delivered, or, if it is one that may be   *)
(* refused, left out; a channel that leaves a message out is ending, for   *)
(* ever, though it may still deliver some of the next ones.                *)
(***************************************************************************)
EXTENDS Naturals, Sequences

CONSTANTS NMsgs, RefusedMsgs

VARIABLES sent, taken, delivered, ending

vars == <<sent, taken, delivered, ending>>

Init == sent = 0 /\ taken = 0 /\ delivered = <<>> /\ ending = FALSE

Write == sent < NMsgs /\ sent' = sent + 1 /\ UNCHANGED <<taken, delivered, ending>>

NextTurn == taken < sent /\ taken' = taken + 1

Deliver == /\ NextTurn
           /\ delivered' = Append(delivered, taken')
           /\ UNCHANGED <<sent, ending>>

Refuse == /\ NextTurn
          /\ taken' \in RefusedMsgs
          /\ ending' = TRUE
          /\ UNCHANGED <<sent, delivered>>

End == ending' = TRUE /\ UNCHANGED <<sent, taken, delivered>>

Spec == Init /\ [][Write \/ Deliver \/ Refuse \/ End]_vars
=============================================================================
