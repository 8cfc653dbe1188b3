--------------------------- MODULE MCInvocations ---------------------------
(***************************************************************************)
(* The environments Invocations is checked in.                             *)
(***************************************************************************)
EXTENDS Invocations

\* One connection on several threads, with a stream of two items; and on one thread,
\* a connection that is resumed and reconnected, and one that is resumed or given up.
MCConfigs ==
    {[parallel |-> TRUE, stateful |-> FALSE, policy |-> FALSE, closing |-> TRUE,
      sessions |-> 1, resumes |-> 0, items |-> 2],
     [parallel |-> FALSE, stateful |-> TRUE, policy |-> TRUE, closing |-> TRUE,
      sessions |-> 2, resumes |-> 1, items |-> 1],
     [parallel |-> FALSE, stateful |-> TRUE, policy |-> FALSE, closing |-> TRUE,
      sessions |-> 1, resumes |-> 1, items |-> 1]}

\* One connection, resumed once, that nobody closes.
MCResumed ==
    {[parallel |-> FALSE, stateful |-> TRUE, policy |-> FALSE, closing |-> FALSE,
      sessions |-> 1, resumes |-> 1, items |-> 1]}
=============================================================================
