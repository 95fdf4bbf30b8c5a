SPECIFICATION FairSpec
CONSTANTS
  a1 = a1
  Clients = {a1}  Ready = {1, 3}  PipeSize = 1  MaxState = 3
  Connecting = Connecting  Unavailable = Unavailable  None = None
INVARIANTS TypeOK FeedInOrder NothingMissed
PROPERTIES FramesInOrder ViewCatchesUp GonePruned
CHECK_DEADLOCK FALSE
