CONSTANTS
  WorkerHellos <- MCOneWorker
  LearnerHellos <- MCLearnerHellos
  Endpoints <- MCEndpoints
  Names <- MCNames
  Phases <- MCPhases
  Skews <- MCSkews
  MaxLead = 0
  WorkerTimeout = 0
  LearnerTimeout = 1
  QueueMax = 1
  MaxAge = 2
  MaxTokens = 3
  MaxFlight = 1
  MaxStarts = 2
  MaxBreaks = 0
  MaxRestarts = 1
SPECIFICATION FairSpec
PROPERTY LearnerReturns
