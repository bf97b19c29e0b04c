SPECIFICATION Spec
CONSTANTS
  p1 = p1
  p2 = p2
  r1 = r1
  r2 = r2
  None = None
  Torn = Torn
  Wrong = Wrong
  Sessions = {p1, p2}
  Runs = {r1, r2}
  N = 1
  Kinds <- OneModel
  Store <- TwoStores
  MaxImages = 4
  Faults = {"stop", "tear", "cut", "corrupt", "prune", "overlap"}
  MaxFaults = 2
SYMMETRY Alike
INVARIANTS TypeOK PreparedIsUniform ExportedIsProbed
PROPERTIES PublishedStays RerunSucceeds
