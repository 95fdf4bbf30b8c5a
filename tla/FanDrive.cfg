SPECIFICATION FairSpec
CONSTANTS
  None = None
  AutoDuty = AutoDuty
  Coldest = 0
  Hottest = 10
  MinSpan = 1
  MaxDegrees = 4
  MaxDelay = 3
  BoostTicks = 4
  MaxStep = 2
  PollTicks = 2
  Waits <- TheWaits
  Sites <- TheSites
INVARIANT TypeOK HeatFollowed RampWritten
PROPERTY DelayServed RampKept RampTowards Settles ReadingFollowed HotMeansFull
