SPECIFICATION Spec
CONSTANTS
  Keys = {"a", "e", "ENTER", "BACKSPACE", "LEFT", "HOME", "DELETE"}
  MaxKeys = 2
  Shells = {s1, s2}
  Nodes = {r, n1, n2}
  Root = r
  None = none
  Careful = TRUE
INVARIANTS KeysArriveAndNodesStay
PROPERTIES ImplementsTextLine RunReturns
CHECK_DEADLOCK FALSE
