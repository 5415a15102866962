\* Two workers and two orders whose claims outlive the batches; the workers keep ticking and
\* claims grow old.
SPECIFICATION FairSpec
CONSTANTS
  o1 = o1
  o2 = o2
  w1 = w1
  w2 = w2
  Nobody = Nobody
  Orders = {o1, o2}
  Workers = {w1, w2}
  Quantity = 2
  SlowBatches = FALSE
  MaxFaults = 2
INVARIANTS NothingInvented OneWorkerPerOrder
PROPERTIES IsOrderResolution BoundOrdersResolve
CHECK_DEADLOCK FALSE
