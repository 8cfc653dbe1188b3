--------------------------- MODULE MCHubLifecycle ---------------------------
(***************************************************************************)
(* The environments HubLifecycle is checked in.                            *)
(***************************************************************************)
EXTENDS HubLifecycle

\* Two calls of start() on one thread, with everything a supervisor does, and
\* without; one call on several threads.  Transports close, or may fail to.
MCConfigs ==
    {[parallel |-> FALSE, stateful |-> TRUE, policy |-> TRUE, closeErrors |-> FALSE,
      starts |-> Starts, conns |-> 2]} \cup
    {[parallel |-> FALSE, stateful |-> FALSE, policy |-> FALSE, closeErrors |-> e,
      starts |-> Starts, conns |-> 2] : e \in BOOLEAN} \cup
    {[parallel |-> TRUE, stateful |-> FALSE, policy |-> FALSE, closeErrors |-> e,
      starts |-> {CHOOSE s \in Starts : TRUE}, conns |-> 1] : e \in BOOLEAN}

\* A connection that nothing but the application restarts.
MCPlain ==
    {[parallel |-> FALSE, stateful |-> FALSE, policy |-> FALSE, closeErrors |-> FALSE,
      starts |-> Starts, conns |-> 2]}
=============================================================================
