SPECIFICATION FairSpec
CONSTANTS
  MaxCalls = 3
  MaxInFlight = 2
  Compilers = 2
INVARIANTS
  ShownUrlIsLive
  ShownUrlsAreRevoked
  PageAgrees
  PdfIsOfRequest
PROPERTIES
  EveryCompileEnds
CHECK_DEADLOCK FALSE
