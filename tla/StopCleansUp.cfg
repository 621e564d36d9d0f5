SPECIFICATION Spec
CONSTANTS
  Names = {n1}
  Units = {u1, u2}
  Handlers = {h1}
  Main = main
  None = None
  MaxReports = 1
  Faults = {}
INVARIANT StopCleansUp
CHECK_DEADLOCK FALSE
