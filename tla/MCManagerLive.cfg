SPECIFICATION FairSpec
CHECK_DEADLOCK FALSE
CONSTANTS
  Kind = "service"
  Enabled = FALSE
  MaxExecs = 1
  MaxPids = 3
  MaxFaults = 2
  MaxSessions = 1
  LaunchBudget = 2
INVARIANTS GivenUpAfterBudget
PROPERTIES DeadSupervisorReplaced OwnedStopFinishes
