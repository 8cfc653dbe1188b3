----------------------------- MODULE MCUploads -----------------------------
(***************************************************************************)
(* Uploads for TLC: an invocation and a send(), with two streams between   *)
(* them.                                                                   *)
(***************************************************************************)
EXTENDS Uploads

MCScenarios ==
  {[calls |-> {"c"}, of |-> [s |-> "c", t |-> "c"], stateful |-> TRUE],
   [calls |-> {"c", "d"}, of |-> [s |-> "c", t |-> "d"], stateful |-> FALSE]}
=============================================================================
