\* Programs with the same bundle in a cache directory that is cleaned twice while
\* they use it, on a machine that loses power once.
SPECIFICATION FairCacheSpec
CONSTANTS
  p1 = p1
  p2 = p2
  p3 = p3
  h1 = h1
  n1 = n1
  n2 = n2
  b1 = b1
  d1 = d1
  NoBundle = NoBundle
  NoPid = NoPid
  Proc = {p1, p2}
  Host = {h1}
  HostOf <- OneHost
  Pid = {n1, n2}
  Bundle = {b1}
  BundleOf <- SameBundle
  Dir = {d1}
  DirOf <- OneDir
  MaxFiles = 2
  FileCount <- TwoFiles
  Faults = {}
  MaxCleans = 2
  MaxPowerCuts = 1
INVARIANTS HalfOnlyAfterFault RunsWholeUnlessSpoiled
PROPERTY CallsRecover
CHECK_DEADLOCK FALSE
