SPECIFICATION MCSpec
CONSTANTS
  Nodes = {n1}
  Contents = {c1}
  NoHash = NoHash
  MaxEdges = 1
  MaxNodes = 1
  MaxWorkers = 1
  MaxConvergencePasses = 5
  Names <- MCNames
  Chapters <- MCChapters
  Sources <- MCSources
  MaxLength = 5
INVARIANT
  PreambleEndsAtBeginDocument
CHECK_DEADLOCK FALSE
