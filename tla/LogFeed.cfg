SPECIFICATION FairSpec
CONSTANTS
  LogCapacity = 2
  MaxLogs = 4
  MaxLinks = 2
  Sessions = {s1}
  EventCapacity = 2
  Receiver = receiver
  None = None
INVARIANTS SessionInOrder PublishedOnce
PROPERTIES LostForAReason LogsArrive
CHECK_DEADLOCK FALSE
