SPECIFICATION FairSpec
CONSTANTS
  Questions = {q1, q2}
  Inspections = {q2}
  Threads = {t1}
  PoolSize = 1
  SourceLimit = 2
  RequireCitations = TRUE
  RetryInvalid = TRUE
INVARIANTS
  TypeOK
  ConnectionsReturned
PROPERTIES
  Grounded
  EveryQuestionEnds
CHECK_DEADLOCK FALSE
