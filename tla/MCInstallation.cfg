SPECIFICATION FairSpec
CHECK_DEADLOCK FALSE
CONSTANTS
  v1 = v1
  v2 = v2
  Versions = {v1, v2}
  First = v1
  Commands = {p1, p2}
  Execs = {e1}
  Absent = Absent
  None = None
  MaxFaults = 1
INVARIANTS SelectedIsComplete PinnedIsKept
PROPERTY SelectedRuns
