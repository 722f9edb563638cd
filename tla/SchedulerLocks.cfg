SPECIFICATION FairSpec
CONSTANTS
  Tasks <- MCTasks
  Mixes <- OrderedMixes
INVARIANTS
  NoCircularWait
PROPERTY
  EveryCallReturns
