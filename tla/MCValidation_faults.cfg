SPECIFICATION FairSpec
CONSTANTS
  Validations = {v1}
  Levels <- MCLevels
  Requests <- MCRequests
  Rounds = 1
  Failing = {"timeout"}
  Faults = {"net", "cut", "text", "thread", "late", "swap", "contract", "disk", "kill", "power"}
  MaxFaults = 2
INVARIANTS
  TypeOK
  OutcomeIsTruth
  IdentityIsProven
  ManifestIsBacked
  EventsAgree
  ExitIsKept
  WaveStartsTogether
PROPERTY
  EverythingEnds
CHECK_DEADLOCK FALSE
