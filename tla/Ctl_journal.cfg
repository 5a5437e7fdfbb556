SPECIFICATION Spec
CONSTANTS
  Daemons = {d1, d2}
  Connections = {c1, c2, c3}
  Operations = {o1}
  Meanings = {m1, m2}
  None = None
  MaxConnections = 2
  MaxAsk = 3
  MaxStart = 2
INVARIANTS ServingIsReachable SlotsAccounted
PROPERTIES JournalSpec EveryRequestAnswered
CHECK_DEADLOCK FALSE
