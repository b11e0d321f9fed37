SPECIFICATION BindingFairSpec
CHECK_DEADLOCK FALSE
CONSTANTS
  MaxFailures = 3
  MaxRestarts = 1
  MaxResends = 1
INVARIANTS ChargedOnce
PROPERTY BindingSettles
