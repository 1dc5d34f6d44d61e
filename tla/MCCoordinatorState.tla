------------------------- MODULE MCCoordinatorState -------------------------
(* CoordinatorState on two workers and three learner hellos: two learners   *)
(* of different hosts, and one that has moved to the other's host and has   *)
(* not bound an endpoint yet.                                               *)
EXTENDS CoordinatorState

MCWorkerHellos == {[identity |-> "a", hostname |-> "h1"],
                   [identity |-> "", hostname |-> "h2"]}
MCLearnerHellos == {[endpoint |-> "e1", hostname |-> "l1"],
                    [endpoint |-> "e2", hostname |-> "l2"],
                    [endpoint |-> "", hostname |-> "l1"]}
MCEndpoints == {"", "e1", "e2"}
MCPhases == {"", "offline"}
MCNames == {"", "unknown", "a", "h1", "h2", "l1", "l2"}
MCSkews == {-1}
=============================================================================
