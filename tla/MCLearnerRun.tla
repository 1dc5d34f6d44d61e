---------------------------- MODULE MCLearnerRun ----------------------------
(* LearnerRun with two rollouts per update and two epochs.                  *)
EXTENDS LearnerRun
=============================================================================
