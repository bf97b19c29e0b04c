SPECIFICATION Spec
CONSTANTS
  s0 = s0
  s1 = s1
  s2 = s2
  NoId = NoId
  N = 2
  Services = {s0}
  Prior <- PriorOne
  ReadyAttempts = 1
  Faults = {"ssh"}
  MaxFaults = 1
  MaxLaunches = 1
INVARIANTS AbortStopsEveryOwnedRank
CHECK_DEADLOCK FALSE
