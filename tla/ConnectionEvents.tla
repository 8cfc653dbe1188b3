-------------------------- MODULE ConnectionEvents --------------------------
(***************************************************************************)
(* What an application that registers on_close, on_reconnecting and        *)
(* on_reconnected (src/hub_connection/callbacks.rs) may rely on: the order *)
(* in which a connection reports its life, and that it ends once.          *)
(***************************************************************************)
EXTENDS Naturals

VARIABLES
    told,     \* what the application was told last
    opened,   \* how often start() returned Ok
    ended     \* how often on_close was called

vars == <<told, opened, ended>>

Init == told = "closed" /\ opened = 0 /\ ended = 0

\* start() succeeds.
Started == told = "closed" /\ told' = "up" /\ opened' = opened + 1 /\ UNCHANGED ended

\* on_reconnecting
Reconnecting == told = "up" /\ told' = "reconnecting" /\ UNCHANGED <<opened, ended>>

\* on_reconnected
Reconnected == told = "reconnecting" /\ told' = "up" /\ UNCHANGED <<opened, ended>>

\* on_close
Closed ==
    /\ told \in {"up", "reconnecting"}
    /\ told' = "closed"
    /\ ended' = ended + 1
    /\ UNCHANGED opened

Next == Started \/ Reconnecting \/ Reconnected \/ Closed

Spec == Init /\ [][Next]_vars
=============================================================================
