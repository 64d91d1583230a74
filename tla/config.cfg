\* Three requests of any kind, any of which may be cut short by a restart.
SPECIFICATION Spec
CONSTANTS
  w1 = w1  w2 = w2  w3 = w3
  Writers = {w1, w2, w3}
  Connections = {c}
  Pools = {p1}
  MaxCrashes = 1
CHECK_DEADLOCK FALSE
INVARIANTS ServesDurable AllOrNothing PoolAnswerServed BindingsResolve
