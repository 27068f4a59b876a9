SPECIFICATION FairSpec
CONSTANTS
  Producers = {p1, p2}
  Consumers = {c1, c2}
  p1 = p1
  p2 = p2
  c1 = c1
  c2 = c2
  ProdMode = "RTS"
  ConsMode = "MC"
  MaxSize = 2
  RingSlots = 2
  PosMod = 8
  Starts = {7}
  JunkCnt = {5}
  PushSizes = {1}
  PopSizes = {1, 2}
  MaxEnq = 3
  Raw = Raw
INVARIANT Inv
INVARIANT QuiescentExact
PROPERTY RefusedForCause
PROPERTY ImplementsFifo
PROPERTY ClaimsComplete
