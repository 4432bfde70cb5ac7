--------------------------- MODULE MCRelayService ---------------------------
(***************************************************************************)
(* Instances of RelayService: a1 and s1 are the two events of one receipt, *)
(* a2 is the first event of another, b1 is a rival first event of r1, and  *)
(* z1 claims to be a first event of r2 but links to another.               *)
(***************************************************************************)
EXTENDS RelayService, TLC

CONSTANTS r1, r2, k1, k2, a1, s1, a2, b1, z1, body1, body2, key1, w1, w2

Arguments(receipt, event, previous, stage) ==
  [receiptId |-> receipt, eventHash |-> event, previousEventHash |-> previous,
   extensionKeyHash |-> IF receipt = r1 THEN k1 ELSE k2, authorityKeyHash |-> Zero, stage |-> stage]

MCReceiptIds == {r1, r2}
MCKeys == {k1, k2}

AllCores ==
  [e \in {a1, s1, a2, b1, z1} |->
     CASE e = a1 -> Arguments(r1, a1, Zero, "ATTEMPTED")
       [] e = s1 -> Arguments(r1, s1, a1, "SITE_CONFIRMED")
       [] e = a2 -> Arguments(r2, a2, Zero, "ATTEMPTED")
       [] e = b1 -> Arguments(r1, b1, Zero, "ATTEMPTED")
       [] e = z1 -> Arguments(r2, z1, a1, "ATTEMPTED")]

MCCore == [e \in Events |-> AllCores[e]]
MCFee == [e \in Events |-> 1]

\* One exact request for each event.
ExactRequests == {[event |-> e, body |-> body1, key |-> NoKey] : e \in Events}

\* The exact request, with and without an idempotency key, and a rival body
\* under the same key.
RivalRequests ==
  ExactRequests \cup {[event |-> e, body |-> b, key |-> key1] : e \in Events, b \in {body1, body2}}

\* The workers are alike.
WorkerSymmetry == {(w1 :> w2) @@ (w2 :> w1)}
=============================================================================
