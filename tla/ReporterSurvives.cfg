SPECIFICATION Spec
CONSTANTS
  Workers = {w1, w2}
  None = None
  QueueSize = 2
  MaxPackets = 3
  Faults = {"refused"}
INVARIANT ReporterSurvives
CHECK_DEADLOCK FALSE
