SPECIFICATION FairSpec
CHECK_DEADLOCK FALSE
CONSTANTS
  a = a
  b = b
  Workloads = {a, b}
  Startable = {a}
  Definitions <- MCDefinitions
  First <- MCFirst
  Editable <- MCEditable
  Absent = Absent
  None = None
  Calls = {c1, c2}
  MaxEdits = 2
  MaxReloads = 2
  MaxStarts = 1
  MaxFaults = 2
INVARIANTS NoMixedGeneration RestartFlagAccurate AcknowledgedIsApplied
 
