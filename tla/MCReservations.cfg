\* Two engines of one account, one signal, an order of one lot, instants of half a
\* second, a cadence of half a second, two faults: crashes, statements that raise, readings
\* that miss a fill, settlements that do not report what they moved.
SPECIFICATION FairSpec
CONSTANTS
  s1 = s1
  s2 = s2
  g1 = g1
  Sessions = {s1, s2}
  Signals = {g1}
  Want = 1
  Grain = 2
  Interval = 1
  MaxTurn = 1
  MaxFaults = 2
INVARIANTS FlightIsReserved OneOrderPerSignal
 
CHECK_DEADLOCK FALSE
