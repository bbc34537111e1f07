SPECIFICATION Spec
CONSTANTS
  BLANK = BLANK
  DAMAGED = DAMAGED
  NoFile = NoFile
  s1 = s1
  s2 = s2
  Searches = {s1, s2}
  MaxCount = 3
  MaxSearches = 4
  InitFiles <- AllFiles
  Faults = {"crash", "read", "open", "write", "remove", "rename"}
INVARIANTS
  TypeOK
  HoldsTheLatest
  ShowsNewestFirst
PROPERTY
  ImplementsRecents
