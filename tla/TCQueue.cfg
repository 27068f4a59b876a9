SPECIFICATION FairSpec
CONSTANTS
  t1 = t1
  t2 = t2
  t3 = t3
  Threads = {t1, t2, t3}
  Half = 4
  MaxCount = 2
  VerMod = 3
  MaxCalls = 2
  Workloads <- FourCalls
  None = None
INVARIANT PutsInOwnPlace
INVARIANT ResultIsOwn
INVARIANT WaitsForFullQueue
PROPERTY ImplementsBatching
PROPERTY EveryCallReturns
