\* Every input of a bounded size to the pure parts of building and running.
SPECIFICATION Spec
CONSTANTS
  Base = 5
  Hash <- Digest
  MaxBlob = 6
  Cell = 4
  IntMax = 7
  StatusMax = 3
  Exact = 30
  Slip = 2
  Tasks <- Everything
INVARIANTS
  RoundTrips
  AcceptsOnlyPacked
  FilesStayInside
  ToolFilesAreRead
  EachFromItsOwn
  EverythingLinks
  NotesAreEnough
  OrderIsNoMatter
  PrintAnswers
  StatusIsTheAnswer
CHECK_DEADLOCK FALSE
