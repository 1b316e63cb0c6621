SPECIFICATION FairSpec
CONSTANTS
  e1 = e1
  e2 = e2
  send = send
  save = save
  mail = mail
  k = k
  None = None
  Gone = Gone
  Executor = {e1, e2}
  Type = {save}
  Group = {mail}
  Key = {}
  Request <- TimedRequests
  GroupOf <- OneGroup
  Factory <- FullFactory
  MaxRetries <- OneRetry
  MaxId = 2
  MaxExplicit = 1
  MaxPayload = 1
  MaxPermit = 9
  MaxDisruptions = 1
  MaxLeaks = 0
PROPERTY EventuallyLeaves
