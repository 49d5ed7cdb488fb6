SPECIFICATION Spec
CONSTANTS
  Requests = {r1, r2}
  MaxPairs = 5
  MaxFlights = 3
INVARIANTS SessionKept AskedOnce
CHECK_DEADLOCK FALSE
