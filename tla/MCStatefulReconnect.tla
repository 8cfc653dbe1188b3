------------------------ MODULE MCStatefulReconnect ------------------------
(* Small instances of StatefulReconnect for TLC. *)
EXTENDS StatefulReconnect

\* Lengths of the serialized messages.
MCSize == [m \in 1..MaxOut |-> IF m = 2 THEN 2 ELSE 1]
=============================================================================
