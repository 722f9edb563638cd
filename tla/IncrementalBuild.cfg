SPECIFICATION BuildSpec
CHECK_DEADLOCK FALSE
CONSTANTS
  preamble = preamble
  chapter = chapter
  main = main
  bad = bad
  Nodes <- MCNodes
  Edges <- MCEdges
  Formats <- MCFormats
  Contents = {c1, c2, bad}
  NoHash = NoHash
  MaxEdges = 3
  MaxEdits = 2
  Faulty <- MCFaulty
INVARIANTS
  UpToDateNodesAreCompiled
  UpToDateNodesAreCurrent
