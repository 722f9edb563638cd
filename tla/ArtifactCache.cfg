SPECIFICATION Spec
CONSTANTS
  Clients = {c1, c2, c3}
  Types = {fmt}
  Projects = {paper, thesis}
  Hashes = {h1}
  None = None
SYMMETRY MCSymmetry
INVARIANTS
  DataHasMetadata
  ExpiryIsOfTheData
