\* Two calls, which may bring an id, over two connections, two addresses, two changes of the node.
SPECIFICATION FairSpec
CONSTANTS
  NULL = NULL
  Callers = {c1}
  Keys = {k1, k2}
  OwnIds = {1}
  Ops = {"get", "subscribe", "unsubscribe"}
  MaxSessions = 2
  MaxCalls = 2
  MaxValue = 2
INVARIANTS ServedInOrder
PROPERTIES AnswerIsOwn Informed
CHECK_DEADLOCK FALSE
