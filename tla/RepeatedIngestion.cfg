SPECIFICATION Spec
CONSTANTS
  r1 = r1
  r2 = r2
  hashA = hashA
  hashB = hashB
  Rows = {r1}
  Contents = {hashA, hashB}
  ContentOf <- OneFile
  NoRow = NoRow
  Deletions = {d1}
  Workers = {w1, w2}
  FaultKinds = {}
  MaxFaults = 0
  MaxRedeliveries = 1
INVARIANTS
  CountableIsSearchable
CHECK_DEADLOCK FALSE
