SPECIFICATION MCSpec
CONSTANTS
  Jobs <- MCJobs
  Users <- MCUsers
  UserOf <- MCUserOf
  BasePriority <- MCBasePriority
  AgingRate = 1
  MaxAge = 2
  TotalWorkers = 2
  MinWorkersPerUser = 1
  TierLimits <- MCTierLimits
  Dispatchers = 2
INVARIANTS
  OvershootIsBounded
  BooksBalance
  QueueIsNotOverstated
PROPERTY
  NoStarvation
