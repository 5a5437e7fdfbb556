SPECIFICATION Spec
CONSTANTS
  Creds = {c0, c1, c2}
  Invalid = Invalid
  Missing = Missing
  None = None
  Scanners = {s1}
  Operators = {o1}
  LaunchErrors = FALSE
  CrashPoints <- OutsideSpawn
  MaxRefresh = 2
  MaxForeign = 1
  MaxDamage = 1
  MaxCrash = 2
INVARIANTS
  CleanIsClean
  VaultStaysValid
  ConflictKeepsBoth
  PriorVaultPreserved
PROPERTIES
  RefreshSurvives
  NewerVaultKept
  LiveRuntimeUntouched
SYMMETRY Symmetry
CHECK_DEADLOCK FALSE
