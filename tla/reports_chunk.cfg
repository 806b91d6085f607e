SPECIFICATION Spec
CONSTANTS
  r1 = r1
  r2 = r2
  Runs = {r1}
  None = None
  Sizes <- MCSizes
  MaxChunk = 2
  MaxClock = 1
  MaxCrashes = 1
  MaxDrops = 1
INVARIANT
  EveryRowAnswered
CHECK_DEADLOCK FALSE
