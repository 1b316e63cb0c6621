SPECIFICATION Spec
CONSTANTS
  e1 = e1
  e2 = e2
  send = send
  save = save
  mail = mail
  k = k
  None = None
  Gone = Gone
  Executor = {e1, e2}
  Type = {save}
  Group = {mail}
  Key = {}
  Request <- PlainRequests
  GroupOf <- OneGroup
  Factory <- FullFactory
  MaxRetries <- OneRetry
  MaxId = 1
  MaxExplicit = 1
  MaxPayload = 1
  MaxPermit = 4
  MaxDisruptions = 1
  MaxLeaks = 1
INVARIANT GuardNeverShared
