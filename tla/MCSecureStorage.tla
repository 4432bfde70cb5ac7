--------------------------- MODULE MCSecureStorage ---------------------------
(* SecureStorage with three receipts, of which two can be held. *)
EXTENDS SecureStorage, TLC

CONSTANTS r1, r2, r3
MCSymmetry == Permutations({r1, r2, r3})
=============================================================================
