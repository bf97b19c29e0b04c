SPECIFICATION Spec
CONSTANTS
  s0 = s0
  s1 = s1
  s2 = s2
  NoId = NoId
  N = 2
  Services = {s0}
  Prior <- PriorOne
  ReadyAttempts = 1
  Faults = {"ssh", "late", "event", "record", "daemon", "crash", "exit", "drift"}
  MaxFaults = 2
  MaxLaunches = 2
INVARIANTS TypeOK NoForeignMutation RefusalsTouchNothing
PROPERTIES ReadyIsProven NothingLeftRunning RollbackRestores
CHECK_DEADLOCK FALSE
