SPECIFICATION Spec
CONSTANTS
  r1 = r1  r2 = r2  k1 = k1  k2 = k2
  a1 = a1  s1 = s1  a2 = a2  b1 = b1  z1 = z1
  body1 = body1  body2 = body2  key1 = key1  w1 = w1  w2 = w2
  Zero = Zero  NoKey = NoKey
  ReceiptIds <- MCReceiptIds
  Keys <- MCKeys
  Events = {a1, a2}
  Core <- MCCore
  Fee <- MCFee
  Requests <- ExactRequests
  Polled = {}
  Workers = {w1, w2}
  DailyBudget = 2
  InitialBalance = 2
  MinimumBalance = 1
  MaxAttempts = 2
  MaxPolls = 1
  Faults = {}
  MaxFaults = 0
  Days = 1
INVARIANT
  ReserveKept
CHECK_DEADLOCK FALSE
