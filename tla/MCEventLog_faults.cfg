SPECIFICATION Spec
CONSTANTS
  c1 = c1
  c2 = c2
  Controllers = {c1, c2}
  MaxEvents = 4
  Faults = {"os", "short", "kill", "power"}
  MaxFaults = 3
INVARIANTS TypeOK EventsContinue AcknowledgedEventsStay
PROPERTY RefusedForGood
CHECK_DEADLOCK FALSE
