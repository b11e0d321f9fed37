SPECIFICATION Spec
CHECK_DEADLOCK FALSE
CONSTANTS
  Lengths = {1, 3}
  MaxFrames = 3
  MaxCrashes = 2
INVARIANT SyncedIsRecovered
