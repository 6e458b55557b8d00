CONSTANTS
  t1 = t1  t2 = t2
  a = a  b = b
  Txn = {t1, t2}
  Key = {a}
  Ops = {"Create", "Delete", "Release"}
  Modes = {"Initial", "List", "Resume"}
  MaxRV = 3
  MaxXid = 3
  Batch = 1
  NoTxn = NoTxn
SPECIFICATION FairSpec
INVARIANTS
  TypeOK
  NoGapAfterInitialEvents
  OnlyCommittedSent
PROPERTIES
  CursorAdvances
  CatchesUp
