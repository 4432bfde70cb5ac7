SPECIFICATION Spec
CONSTANTS
  t1 = t1  u1 = u1  u2 = u2
  Tabs = {t1}
  Elsewhere = Elsewhere
  Urls = {u1, u2}
  Origin <- MCOrigin
  CaptureWindow = 1
  ReviewWindow = 1
  MaxSessions = 1
  MaxHistory = 3
  MaxBusy = 2
  MaxChanges = 2
  MaxTime = 1
  Crashes = TRUE
CHECK_DEADLOCK FALSE
SYMMETRY MCSymmetry
INVARIANTS
  OneActivePerTab
  ConfirmedWhatWasReviewed
PROPERTIES
  ContextsMoveForward
