SPECIFICATION Spec
CONSTANTS
  r1 = r1  r2 = r2  r3 = r3
  Receipts = {r1, r2, r3}
  Ids = {1, 2, 3, 4, 5, 6}
  MaxReceipts = 2
  MaxOps = 1
  MaxFaults = 0
CHECK_DEADLOCK FALSE
PROPERTY
  ValidImportsSucceed
