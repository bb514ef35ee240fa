\* A waiting caller wakes up between the final state and the result.
SPECIFICATION CallSpec
CONSTANTS
  Threads = {caller, loop}
  LoopThread = loop
  Callers = {caller}
  Caller = caller
  MaxSteps = 2
  Programs <- Commands
  Calls = {}
  Settled = FALSE
  MaxRuns = 1
  MaxPauses = 0
  Modes = {"wait"}
INVARIANTS ReturnsFinalResult
CHECK_DEADLOCK FALSE
