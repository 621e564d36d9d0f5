SPECIFICATION FairSpec
CONSTANTS
  Ids = {a}
  Pids = {p1, p2}
  Conns = {c1, c2}
  None = None
  MaxBeats = 1
  MaxControl = 2
  Faults = {"process", "silence", "conductor", "taskkill"}
  Workers = {w1}
  Boot = boot
  Attempts = 2
  Requests = {"start", "stop"}
PROPERTIES StatusSettles ConnectedIsShown StopTakesEffect OrphanReleased
