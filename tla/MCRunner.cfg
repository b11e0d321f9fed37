SPECIFICATION FairSpec
CHECK_DEADLOCK FALSE
CONSTANTS
  Policies <- MCPolicies
  InitialPolicy <- MCTwice
  MaxAttempts = 4
  MaxCrashes = 2
  MaxUpdates = 1
INVARIANTS AttemptsIncrease JobLossIsFinal RestartBudget ProvenCompletion
PROPERTIES StopEnds
