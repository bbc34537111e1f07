SPECIFICATION FairSpec
CONSTANTS
  N = 4
  Inf = 7
  MaxPath = 3
  Graphs <- SymmetricGraphs
INVARIANTS
  TypeOK
  PathIsTight
  NothingIsFaster
  GivesUpForAReason
  TraceIsAcyclic
  AgreesWithWalks
  IInv
PROPERTY
  Terminates
CHECK_DEADLOCK FALSE
