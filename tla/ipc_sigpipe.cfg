SPECIFICATION Spec
CONSTANTS
  MaxCalls = 2
  Capacity = 1
  Script <- Scripts
INVARIANT WriteErrorsAreExplained
CHECK_DEADLOCK FALSE
