\* Callers that resume, stop and restart only when nothing is under way.
SPECIFICATION FairSpec
CONSTANTS
  Threads = {caller, loop}
  LoopThread = loop
  Callers = {caller}
  MaxSteps = 3
  Programs <- Chains
  Calls = {"pause", "resume", "stop"}
  Settled = TRUE
  MaxRuns = 2
  MaxPauses = 2
INVARIANTS RunsInTurn
PROPERTIES ImplementsChain OutcomeReported
CHECK_DEADLOCK FALSE
