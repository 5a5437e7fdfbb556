SPECIFICATION Spec
CONSTANTS
  Txs = {t1, t2}
  Accounts = {a1, a2}
  Projects = {p1}
  None = None
  Busy <- Repairing
  MaxRefresh = 1
  MaxRestore = 1
  MaxCrash = 0
INVARIANTS
  RuntimeIsOwn
  RefreshesKept
SYMMETRY Symmetry
CHECK_DEADLOCK FALSE
