-------------------------- MODULE ReliableChannel --------------------------
(***************************************************************************)
(* What stateful reconnect promises for one direction of a hub connection: *)
(* messages, numbered in the order they are handed over, are delivered in  *)
(* that order, each one exactly once, whatever happens to the transport.   *)
(* A connection that ends leaves a prefix delivered.                       *)
(***************************************************************************)
EXTENDS Naturals, Sequences

VARIABLES
    sent,        \* the number of messages handed over
    delivered    \* the messages delivered, in order

Init == sent = 0 /\ delivered = <<>>

Send ==
    /\ sent' = sent + 1
    /\ UNCHANGED delivered

Deliver ==
    /\ Len(delivered) < sent
    /\ delivered' = Append(delivered, Len(delivered) + 1)
    /\ UNCHANGED sent

Next == Send \/ Deliver

Spec == Init /\ [][Next]_<<sent, delivered>>
=============================================================================
