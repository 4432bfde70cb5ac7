SPECIFICATION FairSpec
CONSTANTS
  p1 = p1  p2 = p2
  Order <- One
  PollsPerWake = 2
  Counters = {}
  MaxCount = 1
  MaxPolls = NoCap
  NoCap = NoCap
  Outside = FALSE
  Faults = {"timeout", "crash", "stop", "node", "rpc"}
  MaxFaults = 1
PROPERTY
  ConfirmedOrStranded
CHECK_DEADLOCK FALSE
