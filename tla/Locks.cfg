SPECIFICATION LocksSpec
CONSTANTS
  Threads = {t1, t2, t3, t4}
  Half = 5
  Tickets = 5
  Bits = {0, 1}
INVARIANT TicketsInOrder
INVARIANT WordsAreExact
PROPERTY ImplementsFifoLock
PROPERTY ImplementRWLocks
PROPERTY WaitersEnter
