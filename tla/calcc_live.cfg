\* Every program of up to three leaves over two names and two literals, with
\* conditions that are true, false and not a number, run to its end.
SPECIFICATION FairSpec
CONSTANTS
  Number <- ZeroOne
  Name = {"x", "y"}
  Operator = {"div", "sub"}
  MaxSize = 3
  MaxBraces = 1
  Arith <- Symbolic
  Zero <- Nought
  IsNaN <- NotANumber
INVARIANTS
  ReadsSucceed
  MeaningIsKept
PROPERTY EveryProgramEnds
CHECK_DEADLOCK FALSE
