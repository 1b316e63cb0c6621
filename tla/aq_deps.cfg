SPECIFICATION Spec
CONSTANTS
  e1 = e1
  e2 = e2
  send = send
  save = save
  mail = mail
  k = k
  None = None
  Gone = Gone
  Executor = {e1}
  Type = {save}
  Group = {mail}
  Key = {k}
  Request <- KeyRequests
  GroupOf <- OneGroup
  Factory <- FullFactory
  MaxRetries <- OneRetry
  MaxId = 3
  MaxExplicit = 1
  MaxPayload = 2
  MaxPermit = 1
  MaxDisruptions = 1
  MaxLeaks = 0
INVARIANT Acyclic
INVARIANT NoDanglingRows
INVARIANT AwaiterIsTold
PROPERTY CancelTakesDependees
PROPERTY ImplementsLifecycle
