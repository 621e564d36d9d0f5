SPECIFICATION FairSpec
CONSTANTS
  Files <- MCFiles
  Checked <- MCChecked
  BufferSize = 1
  QueueSize = 1
  Results <- MCResults
  Setups <- MCSetups
INVARIANTS TypeOK EachFrameOnce SuccessPerInterval InUseAsNoted ReleasedInOrder HeldOrReleased OvertakenIsReady
PROPERTIES ImplementsDelivery NoBackPressure StatusIsCorrected ResultArrives
CHECK_DEADLOCK FALSE
