SPECIFICATION StoppingSpec
CONSTANTS
  s0 = s0
  s1 = s1
  s2 = s2
  NoId = NoId
  N = 2
  Services = {s0}
  Prior <- PriorOne
  ReadyAttempts = 1
  Faults = {}
  MaxFaults = 0
  MaxLaunches = 1
PROPERTIES ReadyRunCanBeStopped
CHECK_DEADLOCK FALSE
