SPECIFICATION FairSpec
CONSTANTS
  None = None
  c1 = c1
  c2 = c2
  k1 = k1
  k2 = k2
  Clients = {c1, c2}
  Keys = {k1}
  Backlog = 1
  MaxCrashes = 0
PROPERTY
  EveryoneIsServed
CHECK_DEADLOCK FALSE
