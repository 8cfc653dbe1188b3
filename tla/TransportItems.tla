--------------------------- MODULE TransportItems ---------------------------
(***************************************************************************)
(* What a transport of a stateful connection carries, as the MessageBuffer *)
(* and its peer tell it apart (src/hub/message.rs): the messages they      *)
(* count, Ack and Sequence.                                                *)
(***************************************************************************)

Msg(n) == [kind |-> "msg", n |-> n]
Ack(n) == [kind |-> "ack", n |-> n]
Sequence(n) == [kind |-> "seq", n |-> n]
=============================================================================
