SPECIFICATION FairSpec
CHECK_DEADLOCK FALSE
CONSTANTS
  Kinds <- MCKinds
  TerminalKinds <- MCTerminalKinds
  MaxObs = 2
  MaxFaults = 2
INVARIANTS CommittedPrefix AckedIsCommitted NothingForgotten
PROPERTIES ImplementsLog EventuallyCommitted ResultEndsExecution
