SPECIFICATION FairSpec
CONSTANTS
  Producers = {p1, p2}
  Consumers = {c1, c2}
  Flags <- BothFlags
  Lines = 2
  SlotsPerLine = 2
  FlagMod = 64
  CountMod = 2
  RoomKept = TRUE
  StockKept = TRUE
  MaxPush = 5
  Raw = Raw
CHECK_DEADLOCK FALSE
INVARIANT FlagHasOneWriter
INVARIANT TakesOwnElement
PROPERTY ImplementsFifo
PROPERTY ClaimsComplete
