SPECIFICATION BulkSpec
CONSTANTS
  Producers = {p1, p2}
  Consumers = {c1}
  p1 = p1
  p2 = p2
  c1 = c1
  ProdMode = "MP"
  ConsMode = "SC"
  MaxSize = 3
  RingSlots = 4
  PosMod = 16
  Starts = {3}
  JunkCnt = {5}
  PushSizes = {1, 3}
  PopSizes = {1, 2}
  MaxEnq = 6
  Raw = Raw
  Careful = TRUE
INVARIANT PushedIsVisible
INVARIANT BulkTakesAll
PROPERTY ImplementsFifo
