SPECIFICATION Spec
CONSTANTS
  Nothing = Nothing
  Blank <- MCBlank
  None <- MCNone
  Delimited <- MCDelimited
  Matching <- MCMatching
  StationLike <- MCStationLike
  Aliases <- MCAliases
  Str <- MCStr
  Datasets <- MCDatasets
  Lines <- MCLines
  Greetings <- MCGreetings
  MaxPacket = 40
  HeaderSize = 2
  ErrorSize = 6
  NoteSize = 2
  RoutesText = 14
  KeyWidth = 5
  BusRoom = 17
  StationRoom = 21
  MaxStops = 2
  MaxBuses = 2
  MaxStations = 2
  MaxFacilities = 2
  ItemShown = 10
  BusShown = 18
INVARIANT
  AllBusesShown
