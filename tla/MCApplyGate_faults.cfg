SPECIFICATION Spec
CONSTANTS
  N = 3
  Machines = {"m1", "m2", "m3"}
  Leads <- MCLeads
  Home <- MCHome
  Network = {"ip0", "ip1", "ip2", "ip3"}
  Hostless = {"ip0"}
  NoAddress = "none"
  Ports = {1, 2, 3}
  Contents <- MCContents
  Faults = {"change", "edit", "ssh", "local"}
  MaxFaults = 2
INVARIANTS
  GateTypeOK
  PassWasTrue
  HealthyWasTrue
  AlarmHasReason
  GateIsHonest
CHECK_DEADLOCK FALSE
