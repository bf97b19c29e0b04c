SPECIFICATION Spec
CONSTANTS
  Validations = {v1}
  Levels <- MCLevels
  Requests <- MCRequests
  Rounds = 1
  Failing = {"timeout"}
  Faults = {"cut"}
  MaxFaults = 1
INVARIANT
  FaultsAreReported
CHECK_DEADLOCK FALSE
