SPECIFICATION PartsSpec
CONSTANTS
  W = 12
  Shifts <- ShiftSeq
  UWidth = 12
  MaxSize = 70
  LineElements = {1, 4, 8}
  Base = 8
  Size = 5
  Keys = {k1, k2, k3, k4}
  Values = {v1, v2}
  Capacity = 3
  Missing = Missing
  Shapes <- TwoShapes
  Precision = 7
  Samples <- FiveSamples
  MaxSamples = 2
  Percents = {1, 50, 100}
  Args = {a1, a2, a3}
  Result <- ResultOf
  Default = Default
  Depth = 2
  Producers = {0, 1}
  Consumers = {2}
  Iteration = 4
  Internal = 2
  UMax = 9
  LastTime = 2
  FThreads = {f1, f2, f3}
  Nodes = {n1, n2}
  nullptr = nullptr
  SHOULD = 8
  c1 = c1
  c2 = c2
  IConsumers = {c1, c2}
  BLOCK_SIZE = 2
  IndexSize = 1
  PoolSize = 1
  Memory = 3
  IndexMemory = 3
  Loads <- LongOrWide
  None = None
  HThreads = {0, 1, 2}
  Hash <- HashOf
  TableSize = 2
  Nobody = Nobody
CHECK_DEADLOCK FALSE
INVARIANT RingArithmetic
INVARIANT FreeIsRest
INVARIANT NodesMatch
 
INVARIANT AnswersAreResults
INVARIANT TimeNotNegative
INVARIANT SumIsExact
INVARIANT NodesAreKept
INVARIANT TakesWhatItClaimed
INVARIANT BlocksAndCountsAgree
INVARIANT OneProducerEach
PROPERTY ImplementsLru
