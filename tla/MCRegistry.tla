---------------------------- MODULE MCRegistry ----------------------------
(***************************************************************************)
(* Two receipts, five event hashes and two keys: a complete chain of three *)
(* events on one receipt beside two events on the other, and requests that *)
(* carry a wrong key, link, hash or receipt at every point of both.        *)
(***************************************************************************)
EXTENDS Verifier, TLC

CONSTANTS r1, r2, h1, h2, h3, h4, h5, k1, k2

MCReceiptIds == {r1, r2}
MCHashes == {h1, h2, h3, h4, h5}
MCKeys == {k1, k2}

\* Every definition treats the receipts, and the hashes, alike.
MCSymmetry == Permutations(MCReceiptIds) \cup Permutations(MCHashes)
=============================================================================
