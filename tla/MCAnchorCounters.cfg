SPECIFICATION Spec
CONSTANTS
  p1 = p1  p2 = p2
  Order <- Both
  PollsPerWake = 1
  Counters = {"uploads"}
  MaxCount = 1
  MaxPolls = NoCap
  NoCap = NoCap
  Outside = FALSE
  Faults = {"timeout"}
  MaxFaults = 1
PROPERTY
  RecoveryReachesAll
CHECK_DEADLOCK FALSE
