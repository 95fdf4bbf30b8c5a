SPECIFICATION Spec
CONSTANTS
  f1 = f1  f2 = f2  c1 = c1  smooth = smooth  flat = flat  cool = cool  hot = hot
  plain = plain  tuned = tuned  raw = raw  measured = measured
  Automatic = Automatic  Bios = Bios  None = None
  Fans = {f1}  Curves = {c1}  Shapes = {smooth, flat}  Readings = {cool, hot}
  Levels <- MCLevels  Settings = {plain, tuned}  Cals = {raw, measured}
  Ladder = {2, 0}  Requests <- AllRequests  Topologies <- MaybeFound
  DefaultSettings = plain  NoCal = raw  Limited = {tuned}  Smooth = {smooth}
  Steady <- MCSteady  Start <- MCStart  Output <- MCOutput
  MaxBatch = 2  MaxFaults = 0
INVARIANTS TypeOK NoStaleCurveState StoresInForce NoOrphanedPin PublishedKindTrue
PROPERTIES ModesKept
