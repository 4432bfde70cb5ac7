---------------------------- MODULE MCDemoFiling ----------------------------
(* DemoFiling with two events of one receipt and an event of another. *)
EXTENDS DemoFiling, TLC

CONSTANTS t1, t2, ref1, ref2, x1, x2, y1, rx, ry, w1, w2

MCReceipt == [e \in Events |-> IF e = y1 THEN ry ELSE rx]

MCSymmetry ==
  Permutations({t1, t2}) \cup Permutations({ref1, ref2}) \cup Permutations({w1, w2})
=============================================================================
