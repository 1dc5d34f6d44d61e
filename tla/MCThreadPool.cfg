CONSTANTS
  Workers = {w1, w2}
  Callers = {c1, c2}
  Counts <- MCCounts
  Grain = 2
  MinRays = 1
  MaxQueued = 1
  Modes = {"parallel_for", "trace_rays"}
  CanThrow = TRUE
  MaxCalls = 1
SPECIFICATION FairSpec
INVARIANTS ReturnMeansDone NoLostWakeup
PROPERTIES CallsReturn StopReturns
