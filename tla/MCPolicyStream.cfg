CONSTANTS
  Learners <- MCTwoLearners
  MaxQueue = 2
  MaxOut = 1
  Broken <- MCBroken
  CanStop = TRUE
  MaxVersion = 3
  Versions <- MCVersions
  MaxStreams = 3
  MaxSwitches = 1
SPECIFICATION FairSpec
INVARIANT StreamInOrder
PROPERTIES ModelsDelivered GetsLatest
CHECK_DEADLOCK FALSE
