CONSTANTS
  pos1 = pos1
  open = open
  t1 = t1
  trail = trail
  t2 = t2
  close = close
  posted = posted
  Positions <- MCPositions
  Events <- MCEvents
  Queued <- MCQueued
  PositionOf <- MCPositionOf
  KindOf <- MCKindOf
  At <- MCAt
  Malformed <- MCMalformed
  Semi <- MCSemi
  Workers = {w1, w2}
  MaxAttempts = 2
  MaxFaults = 2
SPECIFICATION FairSpec
INVARIANTS AppliedIsLogged OneHeadAtATime LogIsSound
PROPERTIES AppliedIsFinal IsOrderedDelivery RowsSettle
CHECK_DEADLOCK FALSE
