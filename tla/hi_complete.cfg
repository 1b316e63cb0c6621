CHECK_DEADLOCK FALSE
SPECIFICATION Spec
CONSTANTS
  Caller = {c1}
  Mailbox = 3
  Listing <- TwoOfOneTime
  BatchSize = 4
  ChunkSize = 4
  MaxRetryAttempts = 1
  MaxRuns = 2
  MaxFaults = 0
  MaxCalls = 0
INVARIANT CompletedMeansIndexed
