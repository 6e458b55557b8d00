CONSTANTS
  r1 = r1  r2 = r2
  n1 = n1  n2 = n2
  g1 = g1  g2 = g2
  Req = {r1, r2}
  Block = {n1, n2}
  Range = {g1, g2}
  Depth = 2
  RangeLevels = {1}
  Slots = 1
  Policies = {"Delete", "Retain"}
  MaxAttempts = 3
  Ops = {"Create", "Delete", "DeleteAllocation", "DeletePool"}
  Repeated = {n2}
  None = None
SPECIFICATION FairSpec
INVARIANTS
  TypeOK
  ChainWithheld
  IdentityNamesPool
  BlocksAccounted
  RangesAccounted
PROPERTY EveryRequestEnds
