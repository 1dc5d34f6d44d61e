CONSTANTS
  o1 = o1
  o2 = o2
  o3 = o3
  Objects <- MCObjects
  Loopers <- MCLoopers
  MinActive = 2
  MaxActive = 2
  MaxSpawns = 1
  MaxAttempts = 1
  ExtraPerNeeded = 2
  AvoidFov = TRUE
  StuckTimeout = 3
  RerouteDelay = 1
  RetryInterval = 2
  DwellCollision = 2
  DwellRandom = 1
SPECIFICATION FairSpec
INVARIANT Accounted
PROPERTIES NoPopping StuckLeaves
CHECK_DEADLOCK FALSE
