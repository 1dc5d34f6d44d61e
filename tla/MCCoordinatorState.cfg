CONSTANTS
  WorkerHellos <- MCWorkerHellos
  LearnerHellos <- MCLearnerHellos
  Endpoints <- MCEndpoints
  Names <- MCNames
  Phases <- MCPhases
  Skews <- MCSkews
  MaxLead = 1
  WorkerTimeout = 1
  LearnerTimeout = 1
  QueueMax = 2
  MaxAge = 2
  MaxTokens = 4
SPECIFICATION RegistrySpec
INVARIANTS RegistryTypeOK ActiveStable WorkersTold QueueEndsCurrent
