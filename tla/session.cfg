SPECIFICATION LeavingSpec
CONSTANTS
  None = None
  c1 = c1
  c2 = c2
  k1 = k1
  k2 = k2
  Clients = {c1, c2}
  Keys = {k1, k2}
  Backlog = 1
  MaxCrashes = 1
INVARIANTS
  TypeOK
  OwedOneAnswer
  ServerSurvivesClients
PROPERTIES
  DeletesWhatWasShown
  EveryoneIsServed
CHECK_DEADLOCK FALSE
