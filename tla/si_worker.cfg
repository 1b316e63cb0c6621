CHECK_DEADLOCK FALSE
SPECIFICATION FairSpec
CONSTANTS
  Message = {m1}
  NoMessage = NoMessage
  MaxVersion = 2
  MaxRetryCount = 2
  MaxFaults = 3
  MaxClears = 1
  MaxSignals = 3
INVARIANT TypeOK
INVARIANT HashMeansIndexed
INVARIANT SleepsOnlyWhenDone
PROPERTY IntentsAreServed
