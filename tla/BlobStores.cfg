SPECIFICATION StoresSpec
CONSTANTS
  ab1 = ab1
  cd1 = cd1
  sha = sha
  ab = ab
  cd = cd
  Callers = {c1, c2, c3}
  Keys = {ab1, cd1}
  ObjectKeys = {ab1}
  Contents = {x}
  NoBlob = NoBlob
  Partial = Partial
  Dirs = {sha, ab, cd}
  Depth = 2
  PathOf <- SharedPaths
  MaxFaults = 1
SYMMETRY Symmetric
INVARIANTS
  TreeIntact
  PutFailsForReason
  NoEmptyDirectoryLeft
  PutFailsForBucket
PROPERTIES
  ImplementsPromise
  ObjectsImplementPromise
CHECK_DEADLOCK FALSE
