SPECIFICATION Spec
CONSTANTS
  a1 = a1
  a2 = a2
  r1 = r1
  r2 = r2
  Asked <- BatchAndSingle
  Requests = {r1, r2}
  Accounts = {a1, a2}
  None = None
  Launch = Launch
  LastId = 2
  MaxQueries = 2
  MaxVersion = 1
  MaxCrash = 1
INVARIANTS
  PermitsCounted
  QueryUsesCurrentVault
  QueryHomeClean
PROPERTIES
  SnapshotIsCurrent
  EveryRequestEnds
CHECK_DEADLOCK FALSE
