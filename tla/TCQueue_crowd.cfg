SPECIFICATION Spec
CONSTANTS
  t1 = t1
  t2 = t2
  t3 = t3
  Threads = {t1, t2, t3}
  Half = 2
  MaxCount = 3
  VerMod = 2
  MaxCalls = 2
  Workloads <- FourCalls
  None = None
INVARIANT PutsInOwnPlace
