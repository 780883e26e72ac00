SPECIFICATION FairSpec
CONSTANTS
  p1 = p1
  p2 = p2
  p3 = p3
  t1 = t1
  t2 = t2
  Payments <- TwoPayments
  Txs <- TwoTxs
  NoTx = NoTx
  NoTime = NoTime
  NoRow = NoRow
  ReviewLimit = 1
  NamesTx = TRUE
  Retirements = {}
  MaxBack = 1
  MaxRows = 4
  MaxBatches = 1
  MaxCrashes = 0
PROPERTY SubmittedIsConfirmed
CHECK_DEADLOCK FALSE
