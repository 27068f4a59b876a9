SPECIFICATION BulkSpec
SYMMETRY ThreadSymmetry
CONSTANTS
  Producers = {p1}
  Consumers = {c1}
  p1 = p1
  c1 = c1
  ProdMode = "MP"
  ConsMode = "SC"
  MaxSize = 3
  RingSlots = 4
  PosMod = 16
  Starts = {14}
  JunkCnt = {5}
  PushSizes = {1, 2}
  PopSizes = {1, 2, 3}
  MaxEnq = 6
  Raw = Raw
  Careful = TRUE
INVARIANT BulkTakesAll
