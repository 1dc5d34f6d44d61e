---------------------------- MODULE MCSimulation ----------------------------
(* Simulation with two substeps per decision and small limits.              *)
EXTENDS Simulation
MCConfigs ==
  { [steps |-> 3, time |-> 0, goalEnds |-> TRUE],
    [steps |-> 0, time |-> 5, goalEnds |-> FALSE] }
=============================================================================
