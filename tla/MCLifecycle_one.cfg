SPECIFICATION PatientSpec
CONSTANTS
  s0 = s0
  s1 = s1
  s2 = s2
  NoId = NoId
  N = 2
  Services = {s0, s1}
  Prior <- PriorTwo
  ReadyAttempts = 2
  Faults = {"ssh", "event", "daemon", "crash", "exit", "drift", "late"}
  MaxFaults = 1
  MaxLaunches = 1
INVARIANTS QuiescedBeforeRelease AbortRestoresServices ReceiptsAreStopped
PROPERTIES CommandsTerminate LaunchesAreDecided RetriedRollbackConverges
CHECK_DEADLOCK FALSE
