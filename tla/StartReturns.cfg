SPECIFICATION FairSpec
CONSTANTS
  Ids = {a}
  Pids = {p1, p2}
  Conns = {c1, c2}
  None = None
  MaxBeats = 1
  MaxControl = 2
  Faults = {}
  Workers = {w1, w2}
  Boot = boot
  Attempts = 1
  Requests = {"start", "stop"}
PROPERTY StartReturns
