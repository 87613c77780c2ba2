\* Four processes of one host, three of them with the same bundle, two ids, so
\* that a process can come back with a dead one's id; every kind of failure.
SPECIFICATION Spec
CONSTANTS
  p1 = p1
  p2 = p2
  p3 = p3
  p4 = p4
  h1 = h1
  h2 = h2
  n1 = n1
  n2 = n2
  b1 = b1
  b2 = b2
  d1 = d1
  d2 = d2
  NoBundle = NoBundle
  Proc = {p1, p2, p3, p4}
  Host = {h1}
  HostOf <- OneHost
  Pid = {n1, n2}
  Bundle = {b1, b2}
  BundleOf <- TwoBundles
  Dir = {d1, d2}
  DirOf <- OwnDir
  MaxFiles = 2
  FileCount <- TwoAndOne
  Faults = {"crash", "io", "remove"}
SYMMETRY Symmetric
INVARIANTS NoHalfWrittenBundle RunsItsOwnBundle IInv
PROPERTIES InstalledIsImmutable ImplementsBundleStore
CHECK_DEADLOCK FALSE
