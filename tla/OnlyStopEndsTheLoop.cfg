SPECIFICATION Spec
CONSTANTS
  Ids = {a}
  Pids = {p1, p2}
  Conns = {c1, c2}
  None = None
  MaxBeats = 1
  MaxControl = 2
  Faults = {"conductor"}
  Workers = {w1}
  Boot = boot
  Attempts = 1
  Requests = {"start", "stop"}
PROPERTY OnlyStopEndsTheLoop
