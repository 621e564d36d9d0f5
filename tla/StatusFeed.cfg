SPECIFICATION FairSpec
CONSTANTS
  Writers = {receiver, monitor}
  Sessions = {s1, s2}
  Fetches = {f1, f2}
  EventCapacity = 1
  None = None
  MaxCallbacks = 1
PROPERTIES ChangeIsFetched LeaverIsForgotten
