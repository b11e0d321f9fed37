SPECIFICATION ControlFairSpec
CHECK_DEADLOCK FALSE
CONSTANTS
  MaxCommands = 4
  MaxRepeats = 1
  MaxReloads = 1
INVARIANTS LiveIsControlled OnePerRevision
PROPERTIES StopCancelsReplacement PendingIsServed
