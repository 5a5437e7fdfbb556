SPECIFICATION Spec
CONSTANTS
  t1 = t1
  t2 = t2
  Terminals = {t1, t2}
  None = None
  MaxLines = 1
  MaxBytes = 2
  MaxLine = 2
  MaxEvent = 1
  Text <- Long
  MaxAttach = 1
  Deeds = {"select", "leave", "window", "client", "refused", "late"}
  MaxUser = 2
  MaxFaults = 1
INVARIANT QueueAccounted
PROPERTIES ViewSpec DeliveredOrTold Thaws
CHECK_DEADLOCK FALSE
