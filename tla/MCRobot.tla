------------------------------ MODULE MCRobot ------------------------------
(* Robot with two substeps per decision: an action that waits for longer    *)
(* than a decision, a hold of more than one, and a sensor whose latency is  *)
(* shorter than its period, as long, or longer.                             *)
EXTENDS Robot
MCConfigs ==
  { [delay |-> 0, hold |-> 3, period |-> 3, latency |-> 2],
    [delay |-> 3, hold |-> 3, period |-> 2, latency |-> 2],
    [delay |-> 5, hold |-> 0, period |-> 2, latency |-> 3],
    [delay |-> 1, hold |-> 5, period |-> 3, latency |-> 0] }
=============================================================================
