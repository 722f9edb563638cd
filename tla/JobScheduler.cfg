SPECIFICATION FairSpec
CONSTANTS
  preamble = preamble
  chapter = chapter
  main = main
  figure = figure
  first = first
  second = second
  paper = paper
  thesis = thesis
  w1 = w1
  w2 = w2
  NoJob = NoJob
  Jobs <- MCJobs
  Calls <- MCCalls
  Projects <- MCProjects
  Workers <- MCWorkers
  CallOf <- MCCallOf
  ProjectOf <- MCProjectOf
  Deps <- MCDeps
  Level <- MCLevel
  Priority <- MCPriority
  MaxCrashes = 1
INVARIANTS
  TypeOK
  DependencyOrder
  NoLostJob
  QuietMeansDone
  NoGhosts
  CompleteMeansGathered
PROPERTIES
  ImplementsDependencyExecution
  EveryJobFinishes
CHECK_DEADLOCK FALSE
