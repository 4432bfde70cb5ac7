SPECIFICATION Spec
CONSTANTS
  p1 = p1  p2 = p2
  Order <- One
  PollsPerWake = 1
  Counters = {"verifications"}
  MaxCount = 1
  MaxPolls = 1
  NoCap = NoCap
  Outside = TRUE
  Faults = {"timeout", "stop", "node", "rpc", "premature", "evict", "external", "crash"}
  MaxFaults = 2
INVARIANTS
  TypeOK
  ExactRetries
  SentInOrder
  GivesUpWithReason
  ConfirmedIsTrue
CHECK_DEADLOCK FALSE
