\* Every mode of dispatch, from a thread that is not the loop's.
SPECIFICATION CallFairSpec
CONSTANTS
  Threads = {caller, loop}
  LoopThread = loop
  Callers = {caller}
  Caller = caller
  MaxSteps = 2
  Programs <- Mixed
  Calls = {}
  Settled = FALSE
  MaxRuns = 1
  MaxPauses = 0
  Modes = {"wait", "detach", "drop"}
INVARIANTS SettledOnce
PROPERTIES EndReachesWaiter
CHECK_DEADLOCK FALSE
