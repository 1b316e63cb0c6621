CHECK_DEADLOCK FALSE
SPECIFICATION FairSpec
CONSTANTS
  Caller = {c1, c2}
  Mailbox = 3
  Listing <- TwoOfOneTime
  BatchSize = 2
  ChunkSize = 2
  MaxRetryAttempts = 1
  MaxRuns = 2
  MaxFaults = 2
  MaxCalls = 1
INVARIANT TypeOK
INVARIANT SlotIsOwned
INVARIANT CheckpointCovers
INVARIANT CompletedMeansWalked
INVARIANT NothingCountedTwice
PROPERTY RunsEnd
