\* A bundle on disk whose file has a name that no embedded bundle may have.
SPECIFICATION Spec
CONSTANTS
  Base = 5
  Hash <- Digest
  MaxBlob = 6
  Cell = 4
  IntMax = 7
  StatusMax = 3
  Exact = 30
  Slip = 2
  Tasks <- JustDeploys
INVARIANT SidesAgree
CHECK_DEADLOCK FALSE
