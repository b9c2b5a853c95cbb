-------------------------- MODULE OrderedDelivery --------------------------
(***************************************************************************)
(* What the transport promises of one direction of a connection: the       *)
(* messages are delivered in the order in which they were written, each at *)
(* most once, and none after one that was lost.  Delivery may stop (the    *)
(* connection can end) at any point.                                       *)
(***************************************************************************)
EXTENDS Naturals, Sequences

CONSTANT NMsgs

VARIABLES sent, delivered

Init == sent = 0 /\ delivered = <<>>

Write == sent < NMsgs /\ sent' = sent + 1 /\ UNCHANGED delivered

Deliver == /\ Len(delivered) < sent
           /\ delivered' = Append(delivered, Len(delivered) + 1)
           /\ UNCHANGED sent

Spec == Init /\ [][Write \/ Deliver]_<<sent, delivered>>
=============================================================================
