CHECK_DEADLOCK FALSE
SPECIFICATION Spec
CONSTANTS
  Message = {m1}
  NoMessage = NoMessage
  MaxVersion = 2
  MaxRetryCount = 1
  MaxFaults = 0
  MaxClears = 0
  MaxSignals = 2
INVARIANT NoSilentDrops
