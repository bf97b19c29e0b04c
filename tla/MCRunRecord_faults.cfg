SPECIFICATION Spec
CONSTANTS
  c1 = c1
  i1 = i1
  i2 = i2
  NoId = NoId
  NoRun = NoRun
  Torn = Torn
  Ids = {i1, i2}
  Statuses = {"launching", "ready", "failed"}
  Faults = {"os", "kill", "power"}
  Ranks = {0, 1}
  Controllers = {c1}
  MaxVersions = 4
  MaxFaults = 2
INVARIANTS TypeOK RecordIsWhole AcknowledgedIsDurable
PROPERTIES ImplementsAtomicRecord
CHECK_DEADLOCK FALSE
