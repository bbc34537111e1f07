SPECIFICATION Spec
CONSTANTS
  b1 = b1
  b2 = b2
  t1 = t1
  t2 = t2
  x1 = x1
  r1 = r1
  r2 = r2
  m1 = m1
  TRANSFER = TRANSFER
  SUBWAY = SUBWAY
  Nowhere = Nowhere
  Blank = Blank
  Ids <- MCIds
  Routes <- MCRoutes
  Spots <- MCSpots
  Square <- MCSquare
  FileSets <- MCFileSets
  Scarce <- MCScarce
  MaxFailures = 2
INVARIANTS
  TypeOK
  IInv
  SoundReferences
  AgreesWithFiles
  WellFormed
  SameBothWays
  KeepsTheFastest
  
CHECK_DEADLOCK FALSE
