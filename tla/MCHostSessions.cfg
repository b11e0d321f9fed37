SPECIFICATION FairSpec
CHECK_DEADLOCK FALSE
CONSTANTS
  MaxLogons = 2
  MaxEvents = 2
INVARIANTS OnePerLogon
PROPERTIES EndedStaysEnded LogonGetsController
