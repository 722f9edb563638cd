SPECIFICATION MCSpec
CONSTANTS
  Nodes = {n1, n2, n3, n4}
  Contents = {c1, c2}
  NoHash = NoHash
  MaxEdges = 4
  MaxNodes = 6
  MaxWorkers = 3
  MaxConvergencePasses = 5
  Names <- MCNames
  Chapters <- MCChapters
  Sources <- MCSources
  MaxLength = 5
SYMMETRY MCSymmetry
INVARIANTS
  NeededIsClosure
  GroupsRespectDependencies
  PhasesWaitForEarlierOnes
  NoDependencyIsMissed
  CommentsAreStripped
CHECK_DEADLOCK FALSE
