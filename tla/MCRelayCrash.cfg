SPECIFICATION FairSpec
CONSTANTS
  r1 = r1  r2 = r2  k1 = k1  k2 = k2
  a1 = a1  s1 = s1  a2 = a2  b1 = b1  z1 = z1
  body1 = body1  body2 = body2  key1 = key1  w1 = w1  w2 = w2
  Zero = Zero  NoKey = NoKey
  ReceiptIds <- MCReceiptIds
  Keys <- MCKeys
  Events = {a1}
  Core <- MCCore
  Fee <- MCFee
  Requests <- ExactRequests
  Polled = {a1}
  Workers = {w1}
  DailyBudget = 2
  InitialBalance = 2
  MinimumBalance = 0
  MaxAttempts = 2
  MaxPolls = 1
  Faults = {"crash"}
  MaxFaults = 1
  Days = 1
PROPERTY
  MinedOperationsSettle
CHECK_DEADLOCK FALSE
