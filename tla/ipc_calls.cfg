\* Two calls by either host, of children that follow any script, die at any time
\* and may write more than a pipe holds.
SPECIFICATION FairSpec
CONSTANTS
  MaxCalls = 2
  Capacity = 1
  Script <- Scripts
INVARIANTS
  TypeOK
  OutputIsInOrder
  FailuresSayWhy
PROPERTIES
  ImplementsCalls
  CallsEnd
CHECK_DEADLOCK FALSE
