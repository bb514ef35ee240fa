\* Two users, one or two workers, two guarded tasks and one other; and all
\* priorities and pairs of dependencies of four modules.
SPECIFICATION MCSpec
CONSTANTS
  NULL = NULL
  Users = {u1, u2}
  Workers = {w1, w2}
  Tasks = {g1, g2, f}
  Guarded = {g1, g2}
  Keys = {"a", "a.b", "a.b.d", "c"}
  Ancestors <- MCAncestors
  Configs <- MCConfigs
  MayFail = {"a.b"}
  MaxRounds = 1
INVARIANTS QuietWhenStopped
PROPERTIES DeadOnLoopStaysDead ImplementsQueue NeedsOutliveUsers AskedIsDone
CHECK_DEADLOCK FALSE
