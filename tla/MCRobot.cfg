CONSTANTS
  K = 2
  Configs <- MCConfigs
  MaxFwd = 2
  MaxRev = 2
  AccFwd = 1
  DecFwd = 2
  AccRev = 1
  DecRev = 2
SPECIFICATION RobotSpec
INVARIANTS ActionInForce DataFresh
PROPERTIES NoPushing GearStays
CHECK_DEADLOCK FALSE
