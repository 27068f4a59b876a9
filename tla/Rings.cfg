SPECIFICATION RingsSpec
CONSTANTS
  Producers = {p1, p2}
  Consumers = {c1, c2}
  Kinds = {"atomic", "any"}
  Size = 2
  PosMod = 8
  Starts = {7}
  MaxPush = 3
  Nil = Nil
  Enqueuers = {p1, p2}
  Dequeuers = {c1}
  RingSize = 4
  RingMod = 16
  RingStarts = {0, 14}
  Counts = {2}
  MaxEnq = 6
  Raw = Raw
  Workers = {0, 1}
  Clients = {c1}
  MaxTasks = 3
  NoTask = NoTask
  None = None
CHECK_DEADLOCK FALSE
INVARIANT AqKeepsAll
INVARIANT BitsAreHonest
INVARIANT BlocksAreAccounted
PROPERTY RteImplementsFifo
PROPERTY PoolImplementsLanes
PROPERTY DrawsAndClaimsComplete
