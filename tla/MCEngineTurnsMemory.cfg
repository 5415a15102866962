\* A hand-over and back: is the memory the book?
SPECIFICATION Spec
CONSTANTS
  p1 = p1
  p2 = p2
  Nobody = Nobody
  Processes = {p1, p2}
  Breaker = 2
  Tries = 2
  Chunks = 2
  MaxGen = 4
  MaxTicks = 4
  MaxSlow = 0
  MaxFaults = 0
INVARIANTS MemoryIsRebuilt
CHECK_DEADLOCK FALSE
