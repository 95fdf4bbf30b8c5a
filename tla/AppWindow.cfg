SPECIFICATION FairSpec
CONSTANTS
  None = None
  NoAnchor = NoAnchor
  Space = Space
  Connecting = Connecting
  Gone = Gone
  Busy = Busy
  Bad = Bad
  a = a
  w = w
  Wide <- WideChars
  MaxName = 3
  Coldest <- LeastTemp
  Hottest = 300
  MinSpan = 1
  MaxDegrees = 40
  MaxDelay = 120
  TempSpan = 10
  DutySpan = 2550
  PlotWidth = 560
  PlotHeight = 260
  HitRadius = 10
  Fans <- OneFan
  Sites <- TheSites
INVARIANT TypeOK CaretsSliceable NamesFit CurvesRise
PROPERTY OneAtATime DefinitionsInStep ShownIsServed EditsArrive DeletedReleased
