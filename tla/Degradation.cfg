SPECIFICATION Spec
CONSTANTS
  Questions = {q1}
  Inspections = {}
  Threads = {}
  PoolSize = 1
  SourceLimit = 1
  RequireCitations = TRUE
  RetryInvalid = TRUE
INVARIANTS
  OneChannelDegrades
CHECK_DEADLOCK FALSE
