-------------------------- MODULE MCPrivateReceipt --------------------------
(***************************************************************************)
(* Instances of PrivateReceipt for TLC: two installations, one of which    *)
(* may start again with a new key, and what they can do with a receipt.    *)
(***************************************************************************)
EXTENDS PrivateReceipt, TLC

CONSTANTS p1, p2, a1, a2

Symmetric == Permutations({a1, a2})
=============================================================================
