SPECIFICATION Spec
CONSTANTS
  Creds = {c0, c1}
  Invalid = Invalid
  Missing = Missing
  None = None
  Scanners = {s1, s2}
  Operators = {}
  LaunchErrors = TRUE
  CrashPoints <- Anywhere
  MaxRefresh = 1
  MaxForeign = 1
  MaxDamage = 0
  MaxCrash = 1
INVARIANTS
  JournalAhead
  OutcomeAfterEnd
  FailureOpensIncident
PROPERTIES
  OnlyFailOverrides
  LifecycleSpec
SYMMETRY Symmetry
CHECK_DEADLOCK FALSE
