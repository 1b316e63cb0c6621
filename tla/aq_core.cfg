SPECIFICATION Spec
CONSTANTS
  e1 = e1
  e2 = e2
  send = send
  save = save
  mail = mail
  k = k
  None = None
  Gone = Gone
  Executor = {e1, e2}
  Type = {save, send}
  Group = {mail}
  Key = {}
  Request <- PlainRequests
  GroupOf <- OneGroup
  Factory <- MixedFactory
  MaxRetries <- SendUnlimited
  MaxId = 2
  MaxExplicit = 1
  MaxPayload = 2
  MaxPermit = 2
  MaxDisruptions = 1
  MaxLeaks = 1
INVARIANT TypeOK
INVARIANT GuardExclusive
INVARIANT OneLockPerExecutor
INVARIANT RunningIsUnblocked
PROPERTY ExecutedIsCurrent
PROPERTY LeavesByItsExecutor
