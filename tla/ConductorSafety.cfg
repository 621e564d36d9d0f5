SPECIFICATION Spec
CONSTANTS
  Ids = {a}
  Pids = {p1, p2}
  Conns = {c1,c2,c3}
  None = None
  MaxBeats = 1
  MaxControl = 2
  Workers = {w1, w2}
  Boot = boot
  Attempts = 1
  Requests = {"start", "stop", "add", "delete"}
  Faults = {"process", "pipeline", "conductor"}
SYMMETRY Symmetry
INVARIANTS TypeOK OneConversation ServedIsCurrent CloseComesFirst
PROPERTY ImplementsSingleInstance
