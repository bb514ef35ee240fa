\* Two callers of the service, who take turns with a key, two commanders of the
\* runtime, two contexts of states.  Connections break anywhere.
SPECIFICATION MCSpec
CONSTANTS
  Careful = TRUE
  Wide = 5
  Narrow = 4
  Callers = {a1, a2}
  Commanders = {c1, c2}
  Situations = {x1, x2}
SYMMETRY Symmetry
INVARIANTS ObjectsStand LinksCarry MessagesKept RosAgrees ArgumentsKept
CHECK_DEADLOCK FALSE
