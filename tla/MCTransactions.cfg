\* Two requests on two pools of one connection, two operations each.
SPECIFICATION FairSpec
CONSTANTS
  Calls = {c1, c2}
  Pools = {p1, p2}
  NoPool = NoPool
  MaxConns = 1
  MaxOps = 2
INVARIANTS TypeOK AllOrNothing AnswerIsTruthful NoConnectionLeak
PROPERTIES CancelKeepsConnections ImplementsAtomicCalls EveryCallReturns
CHECK_DEADLOCK TRUE
