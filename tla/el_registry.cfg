SPECIFICATION Spec
CONSTANTS
  core = core
  mail = mail
  a = a
  b = b
  None = None
  Source = {core, mail, a, b}
  Deps <- Dependencies
  Name = {n1}
  MaxTicket = 2
INVARIANT TypeOK
INVARIANT DependenciesFirst
INVARIANT AllScheduled
INVARIANT SubscriptionIsOwn
PROPERTY RefusedAddIsHarmless
