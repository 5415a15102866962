\* Two processes, three generations, one lapse in a turn, one turn that raises or
\* one settlement that memory does not follow, orders of one fill.
SPECIFICATION FairSpec
CONSTANTS
  p1 = p1
  p2 = p2
  Nobody = Nobody
  Processes = {p1, p2}
  Breaker = 1
  Tries = 2
  Chunks = 1
  MaxGen = 3
  MaxTicks = 3
  MaxSlow = 1
  MaxFaults = 1
INVARIANTS OneTurnAtATime OneTurnPerCycle NoSecondBuy
PROPERTIES IsFencedJournal OwnerIsReplaced
CHECK_DEADLOCK FALSE
