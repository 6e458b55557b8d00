CONSTANTS
  Size = 4
  t1 = t1  t2 = t2
  k1 = k1  k2 = k2  k3 = k3
  s1 = s1  s2 = s2
  Txn = {t1, t2}
  Key = {k1, k2}
  Space = {s1, s2}
  EmptySpace = s1
  PoolDigest = PoolDigest
  Sizes = {1, 2}
  Reserved <- OneLeading
  Strategies = {"FirstFit", "BestFit", "LeastUtilized"}
  Policies = {"Retain"}
  Ops = {"Claim", "Carve", "Release"}
  NoTxn = NoTxn
  NoKey = NoKey
SPECIFICATION Spec
SYMMETRY Symmetry
INVARIANTS TypeOK NoDoubleAllocation ConsumptionExact
PROPERTY LedgerSpec
