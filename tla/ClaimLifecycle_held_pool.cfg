CONSTANTS
  r1 = r1  r2 = r2
  n1 = n1  n2 = n2
  g1 = g1  g2 = g2
  Req = {r1, r2}
  Block = {n1}
  Range = {g1}
  Depth = 1
  RangeLevels = {1}
  Slots = 1
  Policies = {"Delete", "Retain"}
  MaxAttempts = 3
  Ops = {"Create", "DeletePool"}
  Repeated = {}
  None = None
SPECIFICATION Spec
SYMMETRY Symmetry
INVARIANT CarveHasPool
