------------------------------ MODULE Receipt -------------------------------
(***************************************************************************)
(* packages/receipt-core: what makes a receipt valid, and the status it    *)
(* may show. parseReceiptStructure and validateReceipt throw on what they  *)
(* do not accept; here they are the two halves of what they do: a          *)
(* predicate that says what is accepted, and ParseReceipt, the receipt     *)
(* they return. Like EventChain, the module declares no variable.          *)
(*                                                                         *)
(* An envelope is an event of EventChain with the evidence around it: the  *)
(* two signatures, each a key and the hash of the payload it covers, and   *)
(* the chain anchor. Formats, times and the details of checks are left     *)
(* out; a payload hash stands for the event hash it is made from.          *)
(***************************************************************************)
EXTENDS EventChain, FiniteSets

CONSTANT NoAnchor    \* an envelope without chainAnchor

NoKey == 0
NoSignature == [key |-> NoKey, payload |-> Zero]
Signed(e) == e.extensionSignature # NoSignature
Anchored(e) == e.chainAnchor # NoAnchor
Some(events, P(_)) == \E i \in DOMAIN events : P(events[i])

\* VERIFICATION_CHECK_NAMES, each with its place in the order of compareCanonicalText.
Place == [AUTHORITY_SIGNATURE |-> 1, CHAIN_ANCHOR |-> 2, DECRYPTION |-> 3, EVENT_HASH |-> 4,
          EVENT_LINK |-> 5, EXTENSION_SIGNATURE |-> 6, SCHEMA |-> 7]
CheckPassed(v, name) ==
  \E i \in DOMAIN v.checks : v.checks[i] = [check |-> name, result |-> "PASSED"]

-----------------------------------------------------------------------------
\* parseEventEnvelope: only an authority event carries an authority signature.
EnvelopeParses(e) == e.authoritySignature # NoSignature => e.stage \in AuthorityStage

\* parseVerificationState: no check twice, and a result the checks support.
VerificationParses(v) ==
  /\ \A i, j \in DOMAIN v.checks : i # j => v.checks[i].check # v.checks[j].check
  /\ LET results == {v.checks[i].result : i \in DOMAIN v.checks} IN
     CASE v.result = "FAILED" -> "FAILED" \in results
       [] v.result = "VERIFIED" -> results = {"PASSED"}
       [] OTHER -> "FAILED" \notin results
\* It returns the checks sorted by their names, of which there are no two alike.
SortedChecks(checks) ==
  LET Rank(i) == Cardinality({j \in DOMAIN checks :
                                Place[checks[j].check] <= Place[checks[i].check]}) IN
  [n \in DOMAIN checks |-> checks[CHOOSE i \in DOMAIN checks : Rank(i) = n]]

\* parseReceiptStructure
StructureParses(r) ==
  /\ \A i \in DOMAIN r.events : EnvelopeParses(r.events[i])
  /\ VerificationParses(r.verification)
ParseReceipt(r) == [r EXCEPT !.verification.checks = SortedChecks(@)]

-----------------------------------------------------------------------------
Stage(events) == StageBefore(events, Len(events) + 1)
StructureVerified(v) ==
  /\ v.result = "VERIFIED"
  /\ \A name \in {"SCHEMA", "EVENT_HASH", "EVENT_LINK"} : CheckPassed(v, name)

DeriveReceiptStatus(stage, v) ==
  LET decided == /\ stage \in AuthorityStage
                 /\ StructureVerified(v) /\ CheckPassed(v, "AUTHORITY_SIGNATURE") IN
  CASE v.result = "FAILED" -> "VERIFICATION_FAILED"
    [] v.result # "FAILED" /\ stage = "NONE" -> "PREPARED"
    [] v.result # "FAILED" /\ decided ->
         IF stage = "AUTHORITY_ACCEPTED" THEN "ACCEPTED" ELSE "REJECTED"
    [] OTHER -> "PENDING_ACCEPTANCE"

\* validateEnvelopePayloads: signatures are about this event, the extension's
\* by the receipt's key.
PayloadsMatch(e, key) ==
  /\ Signed(e) => e.extensionSignature = [key |-> key, payload |-> e.eventHash]
  /\ e.authoritySignature # NoSignature => e.authoritySignature.payload = e.eventHash

\* The checks a VERIFIED receipt must have passed.
RequiredChecks(r) ==
  {"SCHEMA", "EVENT_HASH", "EVENT_LINK"}
    \cup (IF Some(r.events, Signed) THEN {"EXTENSION_SIGNATURE"} ELSE {})
    \cup (IF Some(r.events, Anchored) THEN {"CHAIN_ANCHOR"} ELSE {})
    \cup (IF r.currentStage \in AuthorityStage THEN {"AUTHORITY_SIGNATURE"} ELSE {})

\* validateReceipt: the receipts it accepts.
ValidReceipt(r) ==
  /\ StructureParses(r)
  /\ ValidateEventChain(r.events)
  /\ \A i \in DOMAIN r.events :
       r.events[i].receiptId = r.receiptId /\ PayloadsMatch(r.events[i], r.extensionPublicKey)
  /\ r.currentStage = Stage(r.events)
  /\ r.derivedStatus = DeriveReceiptStatus(r.currentStage, r.verification)
  /\ r.currentStage \in AuthorityStage =>
       r.events[Len(r.events)].authoritySignature # NoSignature
  /\ r.verification.result = "VERIFIED" =>
       \A name \in RequiredChecks(r) : CheckPassed(r.verification, name)

\* createReceipt: the receipt it makes, before validateReceipt returns it.
CreateReceipt(receiptId, events, key, verification) ==
  [receiptId |-> receiptId, events |-> events, extensionPublicKey |-> key,
   currentStage |-> Stage(events), verification |-> verification,
   derivedStatus |-> DeriveReceiptStatus(Stage(events), verification)]
=============================================================================
