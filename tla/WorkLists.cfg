SPECIFICATION ListSpec
CONSTANTS
  Node = {1, 2, 3}
  Producers = {p1, p2}
  Workers = {w1, w2, w3}
  PoolSize = 2
  Null = Null
  Mediator = Mediator
INVARIANTS PoolAccounting NoDeadLink
PROPERTIES AbsSpec
CHECK_DEADLOCK FALSE
