\* One build, and a write may fail.
SPECIFICATION Spec
CONSTANTS
  x = x
  y = y
  z = z
  Build = {x}
  Stem = {"a", "b"}
  Ext = {"", "exe", "o"}
  StemOf <- Stems
  ExtOf <- Extensions
  Keep = {}
  Faults = {"io"}
INVARIANT NothingLingers
CHECK_DEADLOCK FALSE
