\* A crash between the row and the money.
SPECIFICATION FairSpec
CONSTANTS
  o1 = o1
  o2 = o2
  w1 = w1
  w2 = w2
  Nobody = Nobody
  Orders = {o1}
  Workers = {w1, w2}
  Quantity = 2
  SlowBatches = FALSE
  MaxFaults = 1
PROPERTIES FillsAreBooked
CHECK_DEADLOCK FALSE
