SPECIFICATION Spec
CONSTANTS
  t1 = t1
  t2 = t2
  Terminals = {t1, t2}
  None = None
  MaxLines = 1
  MaxBytes = 2
  MaxLine = 2
  MaxEvent = 1
  Text <- Short
  MaxAttach = 2
  Deeds = {"select", "type", "leave", "close", "late"}
  MaxUser = 3
  MaxFaults = 1
INVARIANTS InputStaysHome RouteFollowsAttachment
PROPERTY ViewSpec
CHECK_DEADLOCK FALSE
