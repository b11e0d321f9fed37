SPECIFICATION FairSpec
CHECK_DEADLOCK FALSE
CONSTANTS
  Policies <- MCPolicies
  CodeSets <- MCCodeSets
  MaxAttempts = 4
  MaxCrashes = 1
  MaxUpdates = 1
  MaxCopies = 1
  MaxStops = 1
INVARIANTS OneProcess RetriesAreGranted StopWins
PROPERTY StopOfRunningEnds
