SPECIFICATION Spec
CONSTANTS
  Projects = {p1, p2}
  Threads = {h1, h2, h3}
  None = None
  MaxServer = 3
  MaxWindow = 2
  MaxCall = 4
  MaxFault = 1
INVARIANTS RowsNameOwnWindows WindowsGetRows
SYMMETRY Symmetry
CHECK_DEADLOCK FALSE
