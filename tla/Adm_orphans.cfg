SPECIFICATION Spec
CONSTANTS
  Txs = {t1, t2}
  Accounts = {a1}
  Projects = {p1, p2}
  None = None
  Busy <- Competing
  MaxRefresh = 0
  MaxRestore = 0
  MaxCrash = 1
INVARIANTS
  CodexExclusive
  RuntimeAccounted
SYMMETRY Symmetry
CHECK_DEADLOCK FALSE
