SPECIFICATION FairSpec
CONSTANTS
  core = core
  contact = contact
  mail = mail
  u1 = u1
  u2 = u2
  u3 = u3
  Source = {core, contact, mail}
  Deps <- Dependencies
  Registered = {core, contact, mail}
  Subscriber = {u1, u2, u3}
  Subs <- Subscribers
  MaxEvents = 1
  MaxAttempts = 2
  MaxChange <- Changes
  MaxFaults = 1
INVARIANT TypeOK
INVARIANT NothingSkipped
INVARIANT InOrder
INVARIANT NoReplay
INVARIANT DependenciesCaughtUp
INVARIANT GroupsStayWhole
PROPERTY EventuallyDelivered
