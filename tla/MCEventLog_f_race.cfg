SPECIFICATION Spec
CONSTANTS
  c1 = c1
  c2 = c2
  Controllers = {c1, c2}
  MaxEvents = 3
  Faults = {}
  MaxFaults = 0
INVARIANTS SequenceContinuesByOne
CHECK_DEADLOCK FALSE
