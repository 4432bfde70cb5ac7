------------------------------ MODULE Verifier ------------------------------
(***************************************************************************)
(* packages/contract-client/src/verify.ts as the extension calls it        *)
(* (apps/extension/lib/chain-verifier.ts): how a browser that trusts       *)
(* neither the relay nor its own memory decides, from the public chain,    *)
(* that one of its two local events is anchored by a given transaction.    *)
(*                                                                         *)
(* The chain is the registry of module Registry at the configured block    *)
(* tag.  A transaction is named by what it did: <<id, n>> anchored the n-th *)
(* event of receipt id, and each transaction to the registry anchors one   *)
(* event.  The checks of network, bytecode, protocol version, transaction  *)
(* success, destination, sender and finality concern what the model has    *)
(* one of; the transaction given to Verified is a successful final call of *)
(* that one registry.                                                      *)
(***************************************************************************)
EXTENDS Registry

\* CONTRACT_RECEIPT_STAGES
ContractReceiptStages ==
  [NONE               |-> 0,
   ATTEMPTED          |-> 1,
   SITE_CONFIRMED     |-> 2,
   AUTHORITY_ACCEPTED |-> 3,
   AUTHORITY_REJECTED |-> 4]
StageValue(stage) == ContractReceiptStages[stage]

\* What verifyExtensionEventAnchor takes: an event the extension signed, at one
\* of its own two stages, without an authority's signature.
LocalEvent ==
  [receiptId         : ReceiptIds,
   eventHash         : Hashes,
   previousEventHash : Hashes \cup {Zero},
   extensionKeyHash  : Keys,
   authorityKeyHash  : {Zero},
   stage             : {"ATTEMPTED", "SITE_CONFIRMED"}]

\* The event count verifyExtensionEventAnchor expects of a local event.
ExpectedCount(e) == IF e.stage = "ATTEMPTED" THEN 1 ELSE 2

Transactions == UNION {{id} \X DOMAIN log[id] : id \in ReceiptIds}

\* The arguments of the ReceiptEventAnchored log of a transaction.
LogOf(tx) == log[tx[1]][tx[2]]

\* matchingAnchorLog: the transaction logged this event.
Matches(e, tx) ==
  /\ LogOf(tx).receiptId = e.receiptId
  /\ LogOf(tx).eventHash = e.eventHash

\* assertExpectedEvent: every field of the log, and the count it carries.
ExactEvent(e, tx) ==
  /\ LogOf(tx).previousEventHash = e.previousEventHash
  /\ LogOf(tx).extensionKeyHash = e.extensionKeyHash
  /\ LogOf(tx).authorityKeyHash = e.authorityKeyHash
  /\ LogOf(tx).stage = e.stage
  /\ tx[2] = ExpectedCount(e)

\* Broken: the event has to be the receipt's last one.
StoredIsTip(e, s) ==
  /\ e.eventHash \in anchoredEvents
  /\ s.extensionKeyHash = e.extensionKeyHash
  /\ s.eventCount = ExpectedCount(e)
  /\ s.latestEventHash = e.eventHash

\* The stored state allows for the later events of the receipt.
StoredAgrees(e, s) ==
  /\ e.eventHash \in anchoredEvents
  /\ s.extensionKeyHash = e.extensionKeyHash
  /\ StageValue(s.currentStage) >= StageValue(e.stage)
  /\ s.eventCount >= ExpectedCount(e)
  /\ s.eventCount = ExpectedCount(e) =>
       s.currentStage = e.stage /\ s.latestEventHash = e.eventHash

\* verifySubmissionReceiptAnchor
Verified(e, tx) ==
  /\ Matches(e, tx)
  /\ ExactEvent(e, tx)
  /\ StoredAgrees(e, receipts[e.receiptId])

\* findSubmissionReceiptAnchorTransaction: the transactions whose log has the
\* event's receipt and hash.  It answers only when there is exactly one.
Discovered(e) == {tx \in Transactions : Matches(e, tx)}

-----------------------------------------------------------------------------
(* Properties *)

\* The browser confirms an anchor exactly when the chain has it.  Whatever was
\* anchored after it, and whoever else writes to the registry, the transaction
\* that logged a local event verifies for it, no other event verifies for that
\* transaction, and discovery, which the extension uses when the relay is gone
\* or lies, finds that transaction and is never ambiguous.
VerifierIsExact ==
  \A e \in LocalEvent :
    /\ \A tx \in Transactions : Verified(e, tx) <=> LogOf(tx) = e
    /\ \A tx \in Transactions : Verified(e, tx) => Discovered(e) = {tx}
    /\ \A tx1, tx2 \in Discovered(e) : tx1 = tx2
=============================================================================
