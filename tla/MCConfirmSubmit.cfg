\* Three requests for one leg; only those on a paper account overlap.
SPECIFICATION Spec
CONSTANTS
  c1 = c1
  c2 = c2
  c3 = c3
  Nobody = Nobody
  Clients = {c1, c2, c3}
  Overlaps = {"paper"}
  MaxCalls = 4
  MaxCrashes = 2
SYMMETRY Symmetry
INVARIANTS OneEffectPerLeg SentIsRecorded FilledIsBooked TraceAgrees
PROPERTIES HonestAnswers IsLegOnce
CHECK_DEADLOCK FALSE
