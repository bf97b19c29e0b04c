SPECIFICATION Spec
CONSTANTS
  p1 = p1
  p2 = p2
  r1 = r1
  r2 = r2
  None = None
  Torn = Torn
  Wrong = Wrong
  Sessions = {p1}
  Runs = {r1}
  N = 1
  Kinds <- OneModel
  Store <- TwoStores
  MaxImages = 3
  Faults = {"stop"}
  MaxFaults = 1
INVARIANTS ExportedIsComplete
