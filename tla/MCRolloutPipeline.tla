------------------------- MODULE MCRolloutPipeline --------------------------
(* RolloutPipeline on one simulator or two, and one learner or two.         *)
EXTENDS RolloutPipeline
MCOneSim == {"s1"}
MCTwoSims == {"s1", "s2"}
MCOneLearner == {"e1"}
MCTwoLearners == {"e1", "e2"}
=============================================================================
