SPECIFICATION Spec
CONSTANTS
  r1 = r1
  r2 = r2
  hashA = hashA
  hashB = hashB
  Rows = {r1, r2}
  Contents = {hashA, hashB}
  ContentOf <- SameFile
  NoRow = NoRow
  Deletions = {d1}
  Workers = {w1}
  FaultKinds = {}
  MaxFaults = 0
  MaxRedeliveries = 0
INVARIANTS
  LiveHasBlob
CHECK_DEADLOCK FALSE
