CHECK_DEADLOCK FALSE
SPECIFICATION FairSpec
CONSTANTS
  a1 = a1
  a2 = a2
  a3 = a3
  NoAction = NoAction
  Executor = {e1, e2}
  Action = {a1, a2, a3}
  Needs <- Chain
  Undecodable = {a3}
  Awaited = {a2}
  Policies <- EmptyOrNetworkLoss
  Capacity = 2
  MaxFailures = 1
INVARIANT TypeOK
PROPERTY AnswerIsNeverLost
PROPERTY EveryActionIsTaken
PROPERTY AwaiterIsAnswered
