SPECIFICATION Spec
CONSTANTS
  Producers = {p1, p2}
  Consumers = {c1, c2}
  Flags <- MultiFlags
  Lines = 2
  SlotsPerLine = 2
  FlagMod = 64
  CountMod = 2
  RoomKept = FALSE
  StockKept = TRUE
  MaxPush = 5
  Raw = Raw
CHECK_DEADLOCK FALSE
INVARIANT WritesRawSlot
