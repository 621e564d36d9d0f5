SPECIFICATION FairSpec
CONSTANTS
  Names = {n1}
  Units = {u1, u2}
  Handlers = {h1, h2}
  Main = main
  None = None
  MaxReports = 1
  Faults = {"bind", "crash", "reporter"}
INVARIANTS TypeOK Supervised StateIsHonest
PROPERTIES ImplementsSingleInstance CallsReturn LatestIsShown ShutdownEnds
CHECK_DEADLOCK FALSE
