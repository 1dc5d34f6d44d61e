CONSTANTS
  Sims <- MCOneSim
  Learners <- MCTwoLearners
  MaxDepth = 2
  MaxBatch = 2
  LearnerDepth = 1
  Window = 1
  MaxRollouts = 3
  MaxLinks = 4
  MaxSwitches = 2
SPECIFICATION FairSpec
INVARIANT SendsToTarget
PROPERTIES Delivery NothingStuck StopReturns
CHECK_DEADLOCK FALSE
