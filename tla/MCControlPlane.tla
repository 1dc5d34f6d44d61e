--------------------------- MODULE MCControlPlane ---------------------------
(* ControlPlane with one or two workers and two learners of different hosts. *)
EXTENDS ControlPlane

MCOneWorker == {[identity |-> "a", hostname |-> "h1"]}
MCTwoWorkers == {[identity |-> "a", hostname |-> "h1"],
                 [identity |-> "b", hostname |-> "h2"]}
MCLearnerHellos == {[endpoint |-> "e1", hostname |-> "l1"],
                    [endpoint |-> "e2", hostname |-> "l2"]}
MCEndpoints == {"", "e1", "e2"}
MCPhases == {"", "offline"}
MCNames == {"", "unknown", "a", "b", "h1", "h2", "l1", "l2"}
MCSkews == {0}
=============================================================================
