SPECIFICATION Spec
CONSTANTS
  t1 = t1  t2 = t2  ref1 = ref1  ref2 = ref2
  x1 = x1  x2 = x2  y1 = y1  rx = rx  ry = ry  w1 = w1  w2 = w2
  Tokens = {t1, t2}
  References = {ref1, ref2}
  Events = {x1, x2, y1}
  Receipt <- MCReceipt
  Workers = {w1, w2}
  Delay = 1
  MaxTime = 2
SYMMETRY MCSymmetry
INVARIANTS
  AcknowledgmentIsFinal
  BindingOneToOne
  SignedIsTrue
CHECK_DEADLOCK FALSE
