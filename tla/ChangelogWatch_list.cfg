CONSTANTS
  t1 = t1  t2 = t2
  a = a  b = b
  Txn = {t1, t2}
  Key = {a, b}
  Ops = {"Create", "Update", "Delete"}
  Modes = {"List"}
  MaxRV = 3
  MaxXid = 3
  Batch = 1
  NoTxn = NoTxn
SPECIFICATION Spec
INVARIANT NothingSkipped
