\* Every program of up to five leaves over one literal, one name and one operator:
\* the smallest that shadows a name in a branch of an `if`, or has an `if` in a
\* branch of an `if`, has five.
SPECIFICATION Spec
CONSTANTS
  Number <- JustZero
  Name = {"x"}
  Operator = {"div"}
  MaxSize = 5
  MaxBraces = 0
  Arith <- Symbolic
  Zero <- Nought
  IsNaN <- NotANumber
INVARIANTS
  TypeOK
  ResolveIsExact
  ResolvedProgramsLower
  ReadsAreWritten
  WrittenOnce
  MeaningIsKept
  GeneratedIsWellFormed
  ShipsWhatItCalls
CHECK_DEADLOCK FALSE
