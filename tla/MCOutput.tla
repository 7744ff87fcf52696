------------------------------ MODULE MCOutput ------------------------------
(* Two reconnect threads: one that sleeps or tries, one that just ends.    *)
EXTENDS Output

CONSTANTS r1, r2

(* Events that wait for each other, and events that coincide.              *)
MCScenarios ==
  {[retry_max |-> 2, races |-> {}, may_fail |-> FALSE],
   [retry_max |-> 1, races |-> {"setup", "loss", "force"}, may_fail |-> TRUE]}
=============================================================================
