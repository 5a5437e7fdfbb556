SPECIFICATION FairSpec
CONSTANTS
  Creds = {c0, c1}
  Invalid = Invalid
  Missing = Missing
  None = None
  Scanners = {s1}
  Operators = {}
  LaunchErrors = FALSE
  CrashPoints <- Anywhere
  MaxRefresh = 1
  MaxForeign = 1
  MaxDamage = 1
  MaxCrash = 1
PROPERTIES
  SettlesOrSticks
CHECK_DEADLOCK FALSE
