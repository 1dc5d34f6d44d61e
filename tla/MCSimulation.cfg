CONSTANTS
  K = 2
  Configs <- MCConfigs
  Timeout = 3
  Waypoints = 2
  Phases = 3
  Window = 2
  Wins = 2
  Unroll = 2
  Offline = TRUE
  MaxVersion = 2
  MaxEpisodes = 4
SPECIFICATION Spec
INVARIANTS EachDecisionOnce   WonIffReached WindowIsThePhase
CHECK_DEADLOCK FALSE
