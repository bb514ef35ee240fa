\* One thread without nesting, or two whose callbacks trigger again.
SPECIFICATION Spec
CONSTANTS
  Threads = {t1, t2}
  Observers = {o1, o2}
  NULL = NULL
  Uses <- AloneAndNested
  MaxConns = 2
  MaxTriggers = 2
INVARIANTS CalledInTurn
PROPERTIES SenderOutlivesCallbacks ReachedAndKept
CHECK_DEADLOCK FALSE
