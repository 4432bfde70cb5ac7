---------------------------- MODULE MCConfirmation ----------------------------
(* Confirmation in one tab, with two URLs of different origins. *)
EXTENDS Confirmation, TLC

CONSTANTS t1, u1, u2
MCOrigin == [u \in Urls |-> u]
MCSymmetry == Permutations({u1, u2})
=============================================================================
