SPECIFICATION Spec
CONSTANTS
  b1 = b1
  b2 = b2
  t1 = t1
  t2 = t2
  plaza = plaza
  gate = gate
  oldGate = oldGate
  old = old
  r1 = r1
  r2 = r2
  Blank = Blank
  TRANSFER = TRANSFER
  NoName = NoName
  Graph <- MCGraph
  Keywords <- MCKeywords
  Matching <- MCMatching
  StationLike <- MCStationLike
  Routes <- MCRoutes
  KmKnown <- MCKmKnown
  NameSize <- MCNameSize
  Minutes = {5, 12, 100}
  StepSize = 7
  KmSize = 3
  FrameSize = 4
  MaxPath = 4
  MaxPacket = 42
INVARIANTS
  TypeOK
  AnswersTheRequest
  CountsTheChanges
  AnswerEndsTheWait
  ShowsThePath
  ViewerAgrees
CHECK_DEADLOCK FALSE
