SPECIFICATION Spec
CONSTANTS
  p1 = p1
  p2 = p2
  p3 = p3
  t1 = t1
  t2 = t2
  Payments <- TwoPayments
  Txs <- TwoTxs
  NoTx = NoTx
  NoTime = NoTime
  NoRow = NoRow
  ReviewLimit = 2
  NamesTx = TRUE
  Retirements = {}
  MaxBack = 0
  MaxRows = 4
  MaxBatches = 0
  MaxCrashes = 0
PROPERTY SettledStaysSettled
CHECK_DEADLOCK FALSE
