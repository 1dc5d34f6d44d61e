CONSTANTS
  WorkerHellos <- MCOneWorker
  LearnerHellos <- MCLearnerHellos
  Endpoints <- MCEndpoints
  Names <- MCNames
  Phases <- MCPhases
  Skews <- MCSkews
  MaxLead = 0
  WorkerTimeout = 1
  LearnerTimeout = 1
  QueueMax = 1
  MaxAge = 2
  MaxTokens = 4
  MaxFlight = 1
  MaxStarts = 3
  MaxBreaks = 1
  MaxRestarts = 1
SPECIFICATION FairSpec
PROPERTIES OnlyBreaksLoseTrack SessionRestored
