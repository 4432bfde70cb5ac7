----------------------------- MODULE MCBlobStore -----------------------------
(* BlobStore with two contents for one envelope and a second envelope. *)
EXTENDS BlobStore, TLC

CONSTANTS e1, e2, c1, c2, p1, p2, p3, w1, w2, w3

MCUploads ==
  {[envelopeId |-> e1, content |-> c1], [envelopeId |-> e1, content |-> c2],
   [envelopeId |-> e2, content |-> c1]}

MCSymmetry == Permutations({p1, p2, p3}) \cup Permutations({w1, w2, w3})
=============================================================================
