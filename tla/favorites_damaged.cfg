SPECIFICATION Spec
CONSTANTS
  NoKey = NoKey
  NoFile = NoFile
  k1 = k1
  k2 = k2
  k3 = k3
  p1 = p1
  p2 = p2
  p3 = p3
  p4 = p4
  Keys <- MCKeys
  AddReqs <- MCAddReqs
  KeyOf <- MCKeyOf
  InCsv <- MCInCsv
  Word = 8
  MaxLines = 4
  MaxShown = 2
  InitFiles <- DamagedFiles
  Numbers <- MCNumbers
  Faults = {}
INVARIANT
  DeletesTheListedEntry
