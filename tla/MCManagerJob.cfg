SPECIFICATION Spec
CHECK_DEADLOCK FALSE
CONSTANTS
  Kind = "job"
  Enabled = TRUE
  MaxExecs = 3
  MaxPids = 1
  MaxFaults = 1
  MaxSessions = 2
  LaunchBudget = 2
INVARIANTS EnabledJobOncePerSession ReplacedOnce ActiveIsDriven
