\* Two recovery workers that share their owner name, the simulated worker and a
\* reaper on one fill, two payloads, one crash; started calls run on, the reaper
\* ticks and time passes.
SPECIFICATION FairSpec
CONSTANTS
  f1 = f1
  a1 = a1
  w1 = w1
  w2 = w2
  w3 = w3
  r1 = r1
  p1 = p1
  p2 = p2
  Nobody = Nobody
  Fills = {f1}
  Accounts = {a1}
  AccountOf <- OneAccount
  Payloads = {p1, p2}
  Workers = {w1, w2, w3}
  SimWorkers = {w3}
  Reapers = {r1}
  OwnerName <- ProductionOwner
  MaxCalls = 2
  MaxReclaims = 9
  MaxCrashes = 1
INVARIANTS MoneyAtMostOnce AppliedIsBooked
PROPERTIES AppliedIsFinal KeepsPromise OrphansAreReleased
CHECK_DEADLOCK FALSE
