SPECIFICATION RteSpec
CONSTANTS
  Enqueuers = {p1}
  Dequeuers = {c1}
  RingSize = 4
  RingMod = 16
  RingStarts = {0}
  Counts = {1, 2}
  MaxEnq = 6
  Raw = Raw
INVARIANT LoadsOwnElement
