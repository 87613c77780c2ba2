\* Two builds with the same stem, one of which keeps its object files, and one
\* with another stem, at any time; every kind of failure.
SPECIFICATION Spec
CONSTANTS
  x = x
  y = y
  z = z
  Build = {x, y, z}
  Stem = {"a", "b"}
  Ext = {"", "exe", "o"}
  StemOf <- Stems
  ExtOf <- Extensions
  Keep = {x}
  Faults = {"crash", "io", "remove"}
INVARIANTS
  TypeOK
  LingersOnlyIfStuck
PROPERTIES
  SuccessIsItsOwn
  ObjectsAreKept
CHECK_DEADLOCK FALSE
