SPECIFICATION FairSpec
CHECK_DEADLOCK FALSE
CONSTANTS
  Streams = {out}
  QueueChunks = 1
  MaxChunks = 2
  MaxPolicies = 1
  MaxFaults = 1
INVARIANTS NothingSkipped EverythingWritten
PROPERTY FollowDelivers
