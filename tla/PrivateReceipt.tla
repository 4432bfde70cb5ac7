--------------------------- MODULE PrivateReceipt ---------------------------
(***************************************************************************)
(* apps/extension/lib/private-receipt.ts: the bundles of signed evidence   *)
(* the extension encrypts, and their travels between installations.        *)
(*                                                                         *)
(* A profile is an installation of the extension. It signs with one key    *)
(* (crypto.ts), which a delete-all replaces. Receipts are captured,        *)
(* confirmed, anchored, exported as packages and imported, by their own    *)
(* profile or another one. Every bundle is verified whenever it is read,   *)
(* so one that does not verify is a lost receipt: a step is taken here     *)
(* only when the code's own checks let it pass, and OwnerCanGoOn says that *)
(* they always do when the owner needs them to.                            *)
(*                                                                         *)
(* SecureStorage shows how one operation's writes survive a stopped        *)
(* worker; here an operation is one step. The packages are those the       *)
(* extension exported: they are encrypted and authenticated.               *)
(***************************************************************************)
EXTENDS Receipt

CONSTANTS
  Profiles, Receipts,
  Keys,         \* bound: the signing keys installations make, 1..n
  Anchors,      \* verified chain metadata an event can get
  MaxPackages   \* bound: packages exported

ASSUME PrivateReceiptAssumption ==
  /\ Keys \subseteq Nat \ {NoKey} /\ NoAnchor \notin Anchors /\ MaxPackages \in Nat
  /\ Zero \notin Receipts \X EventStage   \* no event hashes to Zero

VARIABLES
  identity,   \* [Profiles -> key], NoKey after a delete-all
  held,       \* held[p][r]: the bundles p keeps
  packages,   \* the bundles exported so far
  captured,   \* history: the receipts captured so far (their ids are random)
  proved      \* history: <<profile, event hash, anchor>> that it verified itself

vars == <<identity, held, packages, captured, proved>>

Empty == [x \in {} |-> x]
With(f, x, y) == [z \in DOMAIN f \cup {x} |-> IF z = x THEN y ELSE f[z]]

-----------------------------------------------------------------------------
(***************************************************************************)
(* StoredAttemptReceipt: the record the capture and the confirmation work  *)
(* with. Its context is ACTIVE, CLOSED (superseded or expired) or          *)
(* COMPLETED; its events are not signed.                                   *)
(***************************************************************************)
Contexts == {"ACTIVE", "CLOSED", "COMPLETED"}
Operational(r, context, confirmed) ==
  [receiptId |-> r, context |-> context, confirmed |-> confirmed]
\* validateStoredAttemptReceipt: a confirmation needs its completed context.
OperationalParses(o) == o.confirmed <=> o.context = "COMPLETED"

Hash(r, stage) == <<r, stage>>
Unsigned(r, stage, previous) ==
  [stage |-> stage, receiptId |-> r, eventHash |-> Hash(r, stage),
   previousEventHash |-> previous, extensionSignature |-> NoSignature,
   authoritySignature |-> NoSignature, chainAnchor |-> NoAnchor]
OperationalEvents(o) ==
  LET attempted == Unsigned(o.receiptId, "ATTEMPTED", Zero) IN
  IF o.confirmed
  THEN <<attempted, Unsigned(o.receiptId, "SITE_CONFIRMED", attempted.eventHash)>>
  ELSE <<attempted>>

\* withoutExtensionSignature: an envelope's core and authority signature.
WithoutExtensionSignature(e) ==
  [e EXCEPT !.extensionSignature = NoSignature, !.chainAnchor = NoAnchor]

-----------------------------------------------------------------------------
\* expectedVerificationChecks: the exact list a bundle must show.
Passed(name) == [check |-> name, result |-> "PASSED"]
ExtensionChecks == <<Passed("EVENT_HASH"), Passed("EVENT_LINK"),
                     Passed("EXTENSION_SIGNATURE"), Passed("SCHEMA")>>
ExpectedChecksAppended(events) ==   \* broken: the anchor's check comes last
  ExtensionChecks \o (IF Some(events, Anchored) THEN <<Passed("CHAIN_ANCHOR")>> ELSE <<>>)
ExpectedChecks(events) ==
  (IF Some(events, Anchored) THEN <<Passed("CHAIN_ANCHOR")>> ELSE <<>>) \o ExtensionChecks
VerificationState(events) == [result |-> "VERIFIED", checks |-> ExpectedChecks(events)]

ReceiptMatchesOperational(receipt, o) ==
  /\ receipt.receiptId = o.receiptId
  /\ receipt.currentStage = IF o.confirmed THEN "SITE_CONFIRMED" ELSE "ATTEMPTED"
  /\ receipt.derivedStatus = "PENDING_ACCEPTANCE"
  /\ [i \in DOMAIN receipt.events |-> WithoutExtensionSignature(receipt.events[i])]
       = OperationalEvents(o)

\* parsePrivateReceiptBundle: what it accepts, and what it returns.
BundleParses(b) ==
  /\ OperationalParses(b.operational)
  /\ ValidReceipt(b.receipt)
  /\ ReceiptMatchesOperational(b.receipt, b.operational)
  /\ \A i \in DOMAIN b.receipt.events :
       Signed(b.receipt.events[i]) /\ b.receipt.events[i].authoritySignature = NoSignature
  /\ b.receipt.verification.result = "VERIFIED"
  /\ ParseReceipt(b.receipt).verification.checks = ExpectedChecks(b.receipt.events)
ParseBundle(b) == [b EXCEPT !.receipt = ParseReceipt(@)]

\* verifyExtensionEventSignature
SignatureVerifies(e, key) ==
  e.extensionSignature = [key |-> key, payload |-> e.eventHash]
\* verifyPrivateReceiptBundle
BundleVerifies(b) ==
  /\ BundleParses(b)
  /\ \A i \in DOMAIN b.receipt.events :
       SignatureVerifies(b.receipt.events[i], b.receipt.extensionPublicKey)

-----------------------------------------------------------------------------
\* signExtensionEvent, which is only called with an operational event: of
\* stage ATTEMPTED or SITE_CONFIRMED and without any evidence yet.
SignExtensionEvent(e, key) ==
  [e EXCEPT !.extensionSignature = [key |-> key, payload |-> e.eventHash]]

\* signedEventsForOperational: an event signed before keeps its envelope.
SignedEventsAnew(o, key, existing) ==   \* broken: everything is signed again
  LET events == OperationalEvents(o) IN
  [i \in DOMAIN events |-> SignExtensionEvent(events[i], key)]
SignedEvents(o, key, existing) ==
  LET events == OperationalEvents(o)
      Prior(e) == {x \in existing : /\ WithoutExtensionSignature(x) = e
                                    /\ SignatureVerifies(x, key)} IN
  [i \in DOMAIN events |->
     IF Prior(events[i]) # {} THEN CHOOSE x \in Prior(events[i]) : TRUE
     ELSE SignExtensionEvent(events[i], key)]

EventsOf(b) == {b.receipt.events[i] : i \in DOMAIN b.receipt.events}
Bundle(o, events, key, owner) ==
  [operational |-> o, ownership |-> owner,
   receipt |-> CreateReceipt(o.receiptId, events, key, VerificationState(events))]
\* createOrUpdatePrivateReceiptBundle: the bundle it makes, and when it
\* refuses to update an existing one.
Secured(o, key, existing) == Bundle(o, SignedEvents(o, key, existing), key, "LOCAL")
MayUpdate(b, o, key) ==
  /\ b.operational.receiptId = o.receiptId
  /\ b.ownership = "LOCAL" /\ b.receipt.extensionPublicKey = key

\* attachVerifiedChainAnchor: an anchor, once saved, stays.
MayAttach(b, i, anchor) ==
  b.receipt.events[i].chainAnchor \in {NoAnchor, anchor}
Attached(b, i, anchor) ==
  Bundle(b.operational, [b.receipt.events EXCEPT ![i].chainAnchor = anchor],
         b.receipt.extensionPublicKey, b.ownership)

\* importedPrivateReceiptBundle: no claims about the chain; the context does
\* not move to the new profile.
MayImportAnchored(b) == TRUE   \* broken: trusts the package's anchors
MayImport(b) == ~Some(b.receipt.events, Anchored)
ImportedOpen(b, key) ==        \* broken: the context moves along
  [b EXCEPT !.ownership = IF key = b.receipt.extensionPublicKey THEN "LOCAL" ELSE "IMPORTED"]
ImportedAsLabelled(b, key) ==  \* broken: believes the package's label
  [b EXCEPT !.operational.context = "CLOSED"]
Imported(b, key) ==
  [b EXCEPT !.operational.context = "CLOSED",
            !.ownership = IF key = b.receipt.extensionPublicKey THEN "LOCAL" ELSE "IMPORTED"]

-----------------------------------------------------------------------------
\* A bundle is kept only if it verifies; it is kept as it was parsed.
Keep(p, r, b) ==
  /\ BundleVerifies(b)
  /\ held' = [held EXCEPT ![p] = With(@, r, ParseBundle(b))]
Drop(p, R) ==
  held' = [held EXCEPT ![p] = [x \in DOMAIN @ \ R |-> @[x]]]

\* generateInstallationIdentity, when the profile has no key.
Enroll(p) ==
  /\ identity[p] = NoKey
  /\ \E k \in Keys :
       /\ \A q \in Profiles : identity[q] # k
       /\ \A b \in packages : b.receipt.extensionPublicKey # k
       /\ \A q \in Profiles : \A r \in DOMAIN held[q] : held[q][r].receipt.extensionPublicKey # k
       /\ identity' = [identity EXCEPT ![p] = k]
  /\ UNCHANGED <<held, packages, captured, proved>>

Capture(p, r) ==
  /\ identity[p] # NoKey /\ r \notin captured
  /\ Keep(p, r, Secured(Operational(r, "ACTIVE", FALSE), identity[p], {}))
  /\ captured' = captured \cup {r}
  /\ UNCHANGED <<identity, packages, proved>>

\* An open context is closed, or completed by a site confirmation.
Update(p, r, o) ==
  /\ held[p][r].operational.context = "ACTIVE"
  /\ MayUpdate(held[p][r], o, identity[p])
  /\ Keep(p, r, Secured(o, identity[p], EventsOf(held[p][r])))
  /\ UNCHANGED <<identity, packages, captured, proved>>
Closed(r) == Operational(r, "CLOSED", FALSE)
Confirmed(r) == Operational(r, "COMPLETED", TRUE)
CloseContext(p, r) == Update(p, r, Closed(r))
Confirm(p, r) == Update(p, r, Confirmed(r))

\* storeVerifiedChainAnchor: for a receipt of this installation.
Attach(p, r, i, anchor) ==
  /\ held[p][r].ownership = "LOCAL" /\ MayAttach(held[p][r], i, anchor)
  /\ Keep(p, r, Attached(held[p][r], i, anchor))
  /\ proved' = proved \cup {<<p, held[p][r].receipt.events[i].eventHash, anchor>>}
  /\ UNCHANGED <<identity, packages, captured>>

\* createSubmittedItExport verifies the bundle before it encrypts it.
Export(p, r) ==
  /\ BundleVerifies(held[p][r])
  /\ Cardinality(packages) < MaxPackages
  /\ packages' = packages \cup {held[p][r]}
  /\ UNCHANGED <<identity, held, captured, proved>>

\* openSubmittedItExport with the right passphrase.
Opens(b) == BundleVerifies(b)
\* importReceipt; the user approves the replacement of a receipt that is
\* there.
Import(p, b) ==
  /\ identity[p] # NoKey
  /\ Opens(b) /\ MayImport(b)
  /\ Keep(p, b.receipt.receiptId, Imported(b, identity[p]))
  /\ UNCHANGED <<identity, packages, captured, proved>>

Delete(p, r) ==
  /\ Drop(p, {r})
  /\ UNCHANGED <<identity, packages, captured, proved>>
\* deleteAllSecureExtensionData: the key goes with the receipts.
DeleteAll(p) ==
  /\ identity[p] # NoKey
  /\ Drop(p, DOMAIN held[p])
  /\ identity' = [identity EXCEPT ![p] = NoKey]
  /\ UNCHANGED <<packages, captured, proved>>

-----------------------------------------------------------------------------
Init ==
  /\ identity = [p \in Profiles |-> NoKey]
  /\ held = [p \in Profiles |-> Empty]
  /\ packages = {} /\ captured = {} /\ proved = {}

Owned(p) ==
  \E r \in DOMAIN held[p] :
    \/ CloseContext(p, r) \/ Confirm(p, r) \/ Export(p, r) \/ Delete(p, r)
    \/ \E i \in DOMAIN held[p][r].receipt.events, a \in Anchors : Attach(p, r, i, a)
Next ==
  \E p \in Profiles :
    \/ Enroll(p) \/ DeleteAll(p) \/ Owned(p)
    \/ \E r \in Receipts : Capture(p, r)
    \/ \E b \in packages : Import(p, b)
Spec == Init /\ [][Next]_vars

-----------------------------------------------------------------------------
AllHeld == {pr \in Profiles \X Receipts : pr[2] \in DOMAIN held[pr[1]]}

(* An owner is never shut out of a receipt: every bundle a profile keeps   *)
(* verifies when it is read again, and for a receipt it signed, closing or *)
(* confirming an open context and attaching a first anchor to any event    *)
(* give a bundle that verifies, in any order and after any travels. (The   *)
(* list of checks is rebuilt, sorted and compared literally at each one:   *)
(* private-receipt.ts:120-129, schema.ts:631-633.)                         *)
OwnerCanGoOn ==
  \A pr \in AllHeld :
    LET b == held[pr[1]][pr[2]]
        key == identity[pr[1]] IN
    /\ BundleVerifies(b)
    /\ b.receipt.extensionPublicKey = key =>
         /\ b.operational.context = "ACTIVE" =>
              \A o \in {Closed(pr[2]), Confirmed(pr[2])} :
                MayUpdate(b, o, key) /\ BundleVerifies(Secured(o, key, EventsOf(b)))
         /\ b.ownership = "LOCAL"
         /\ \A i \in DOMAIN b.receipt.events, a \in Anchors :
              ~Anchored(b.receipt.events[i]) => BundleVerifies(Attached(b, i, a))

(* Every anchor in a bundle was verified on the chain by the profile that  *)
(* keeps it, for exactly that event: none arrives in a package.            *)
(* (EXTENSION.md:360-362, "imported chain claims cannot be marked          *)
(* verified".)                                                             *)
AnchorsAreProved ==
  \A pr \in AllHeld : \A e \in EventsOf(held[pr[1]][pr[2]]) :
    Anchored(e) => <<pr[1], e.eventHash, e.chainAnchor>> \in proved

(* A receipt is labelled LOCAL exactly when this installation's present    *)
(* key signed it, whatever label the package carried and even when the     *)
(* same user exported it before a delete-all.                              *)
OwnershipIsTrue ==
  \A pr \in AllHeld :
    LET b == held[pr[1]][pr[2]] IN
    b.ownership = "LOCAL" <=> b.receipt.extensionPublicKey = identity[pr[1]]

(* A receipt's confirmation context is open in at most one place, so no    *)
(* two installations can append different confirmations to one receipt.    *)
OneOpenContext ==
  \A r \in Receipts :
    Cardinality({p \in Profiles : r \in DOMAIN held[p]
                                  /\ held[p][r].operational.context = "ACTIVE"}) <= 1

(* As long as a profile keeps a receipt and does not import it again, its  *)
(* evidence only grows: the key, and every signature and anchor of every   *)
(* event, stay as they are, and a receipt imported from another            *)
(* installation does not change at all.                                    *)
Grows(old, new) ==
  /\ old.receipt.extensionPublicKey = new.receipt.extensionPublicKey
  /\ old.ownership = "IMPORTED" => new = old
  /\ \A i \in DOMAIN old.receipt.events :
       LET e == old.receipt.events[i]  f == new.receipt.events[i] IN
       /\ i \in DOMAIN new.receipt.events
       /\ e.eventHash = f.eventHash /\ e.extensionSignature = f.extensionSignature
       /\ Anchored(e) => e.chainAnchor = f.chainAnchor
EvidenceStays ==
  [][\A pr \in AllHeld :
       \/ pr[2] \notin DOMAIN held'[pr[1]]
       \/ Grows(held[pr[1]][pr[2]], held'[pr[1]][pr[2]])
       \/ \E b \in packages : Import(pr[1], b)]_vars
=============================================================================
