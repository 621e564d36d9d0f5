SPECIFICATION FairSpec
CONSTANTS
  Workers = {w1, w2}
  None = None
  QueueSize = 2
  MaxPackets = 3
  Faults = {"refused", "hang", "crash"}
INVARIANTS TypeOK OneWorker StoppedForGood ConnectedIsEarned
PROPERTIES ImplementsRtspOutput WorkerReplaced StopReturns
CHECK_DEADLOCK FALSE
