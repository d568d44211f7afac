SPECIFICATION ReadersSpec
CONSTANTS
  r1 = r1
  r2 = r2
  hashA = hashA
  hashB = hashB
  Rows = {r1, r2}
  Contents = {hashA, hashB}
  ContentOf <- DistinctFiles
  NoRow = NoRow
  Deletions = {d1}
  Readers = {q1}
  Workers = {w1}
  FaultKinds = {"api_crash", "task_lost", "blob", "database", "broker"}
  MaxFaults = 1
  MaxRedeliveries = 0
INVARIANTS
  CountableIsSearchable
  JobTellsVersion
  LiveHasBlob
  DeletedStaysUnseen
  CountFailsForDeletion
  StatementsAgree
PROPERTIES
  PublishedStays
CHECK_DEADLOCK FALSE
