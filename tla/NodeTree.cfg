\* Four nodes: two of one name, one of another, one anonymous.
SPECIFICATION Spec
CONSTANTS
  Nodes = {n1, n2, n3, n4}
  Names = {na, nb}
  NoName = anon
  NULL = NULL
  NameOf <- MCNameOf
  IndexArgs <- MCIndexArgs
  MaxBatch = 2
INVARIANTS
  Structured
  KeysAddress
PROPERTIES
  MovesAsSignalled
SYMMETRY MCSymmetry
