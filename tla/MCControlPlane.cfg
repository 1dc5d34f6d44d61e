CONSTANTS
  WorkerHellos <- MCOneWorker
  LearnerHellos <- MCLearnerHellos
  Endpoints <- MCEndpoints
  Names <- MCNames
  Phases <- MCPhases
  Skews <- MCSkews
  MaxLead = 0
  WorkerTimeout = 0
  LearnerTimeout = 1
  QueueMax = 2
  MaxAge = 2
  MaxTokens = 3
  MaxFlight = 1
  MaxStarts = 3
  MaxBreaks = 0
  MaxRestarts = 0
SPECIFICATION FairSpec
INVARIANT WorkersFollow
PROPERTIES DeadLearnerLeft FollowsInTheEnd
