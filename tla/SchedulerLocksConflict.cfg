SPECIFICATION FairSpec
CONSTANTS
  Tasks <- ConflictTasks
  Mixes <- ConflictMixes
PROPERTY
  EveryCallReturns
CHECK_DEADLOCK FALSE
