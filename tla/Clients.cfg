SPECIFICATION MCSpec
CONSTANTS
  Paths = {p1}
  Handlers = {h1, h2}
  MaxSockets = 3
  MaxCalls = 2
  MaxQueued = 2
  Patient = TRUE
  Torn = TRUE
  Threads = {t1, t2}
  MaxRequests = 3
  MaxEvents = 1
  Receiver = receiver
  Nobody = nobody
INVARIANTS
  OneConnection
  ComesAndGoes
  ServedIsWatched
PROPERTY CallsEnd
CHECK_DEADLOCK FALSE
