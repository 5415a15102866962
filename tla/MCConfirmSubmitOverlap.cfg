\* Two requests for one leg overlap on a live account.
SPECIFICATION Spec
CONSTANTS
  c1 = c1
  c2 = c2
  c3 = c3
  Nobody = Nobody
  Clients = {c1, c2}
  Overlaps = {"paper", "live"}
  MaxCalls = 2
  MaxCrashes = 0
INVARIANTS OneEffectPerLeg
CHECK_DEADLOCK FALSE
