SPECIFICATION Spec
CONSTANTS
  Producers = {p1, p2, p3}
  Consumers = {c1}
  Flags <- MultiFlags
  Lines = 4
  SlotsPerLine = 2
  FlagMod = 64
  CountMod = 4
  RoomKept = FALSE
  StockKept = FALSE
  MaxPush = 6
  Raw = Raw
CHECK_DEADLOCK FALSE
INVARIANT FlagHasOneWriter
