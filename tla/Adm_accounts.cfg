SPECIFICATION Spec
CONSTANTS
  Txs = {t1, t2}
  Accounts = {a1, a2}
  Projects = {p1}
  None = None
  Busy <- Repairing
  MaxRefresh = 1
  MaxRestore = 0
  MaxCrash = 0
INVARIANTS
  VaultsKeepTheirAccount
SYMMETRY Symmetry
CHECK_DEADLOCK FALSE
