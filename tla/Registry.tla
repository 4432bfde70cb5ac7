------------------------------ MODULE Registry ------------------------------
(***************************************************************************)
(* contracts/src/SubmissionReceiptRegistry.sol: the contract every anchor  *)
(* ends in.  It keeps a compact state per receipt and one global set of    *)
(* anchored event hashes, and emits one event per successful call.  Any    *)
(* address may call it, so the requests are not restricted to those the    *)
(* relay sends.                                                            *)
(*                                                                         *)
(* A reverted call changes nothing and is not a step.  The block timestamp *)
(* (updatedAt, anchoredAt) and msg.sender are left out: no guard reads     *)
(* them, apart from the uint64 bound on the timestamp.                     *)
(***************************************************************************)
EXTENDS Naturals, Sequences, FiniteSets

CONSTANTS
  ReceiptIds,    \* nonzero receipt identifiers
  Hashes,        \* nonzero event hashes
  Keys,          \* nonzero key fingerprints, of extensions and authorities
  Zero           \* bytes32(0)

ASSUME ZeroAssumption == Zero \notin ReceiptIds \cup Hashes \cup Keys

VARIABLES
  receipts,        \* _receipts: the compact state of each receipt
  anchoredEvents,  \* _anchoredEvents: the hashes anchored for any receipt
  log              \* the ReceiptEventAnchored logs of each receipt, in order

registryVars == <<receipts, anchoredEvents, log>>

ReceiptStage == {"NONE", "ATTEMPTED", "SITE_CONFIRMED", "AUTHORITY_ACCEPTED", "AUTHORITY_REJECTED"}

ReceiptState ==
  [latestEventHash  : Hashes \cup {Zero},
   extensionKeyHash : Keys \cup {Zero},
   eventCount       : Nat,
   currentStage     : ReceiptStage]

\* The arguments of anchorEvent.
Request ==
  [receiptId         : ReceiptIds \cup {Zero},
   eventHash         : Hashes \cup {Zero},
   previousEventHash : Hashes \cup {Zero},
   extensionKeyHash  : Keys \cup {Zero},
   authorityKeyHash  : Keys \cup {Zero},
   stage             : ReceiptStage]

\* getReceipt of an unknown identifier: the all-zero state.
UnknownReceipt ==
  [latestEventHash |-> Zero, extensionKeyHash |-> Zero, eventCount |-> 0, currentStage |-> "NONE"]

\* _isTerminal
IsTerminal(stage) == stage \in {"AUTHORITY_ACCEPTED", "AUTHORITY_REJECTED"}

\* Broken: an authority may not decide before the site confirmed.
IsNextStage(current, requested) ==
  \/ current = "ATTEMPTED" /\ requested = "SITE_CONFIRMED"
  \/ current = "SITE_CONFIRMED" /\ requested \in {"AUTHORITY_ACCEPTED", "AUTHORITY_REJECTED"}

\* _isValidTransition
IsValidTransition(current, requested) ==
  \/ /\ current = "ATTEMPTED"
     /\ requested \in {"SITE_CONFIRMED", "AUTHORITY_ACCEPTED", "AUTHORITY_REJECTED"}
  \/ /\ current = "SITE_CONFIRMED"
     /\ requested \in {"AUTHORITY_ACCEPTED", "AUTHORITY_REJECTED"}

\* _validateAuthorityKey: an authority key exactly at an authority stage.
ValidAuthorityKey(stage, authorityKeyHash) == (authorityKeyHash # Zero) <=> IsTerminal(stage)

\* The guards of anchorEvent on a receipt seen for the first time.
ValidFirst(r) ==
  /\ r.previousEventHash = Zero
  /\ r.stage = "ATTEMPTED"

\* Broken: a later event not bound to the key, to the lifecycle.
ValidNextAnyKey(s, r) ==
  /\ r.previousEventHash # Zero
  /\ r.previousEventHash = s.latestEventHash
  /\ IsValidTransition(s.currentStage, r.stage)
ValidNextAnyStage(s, r) ==
  /\ r.previousEventHash # Zero
  /\ r.previousEventHash = s.latestEventHash
  /\ r.extensionKeyHash = s.extensionKeyHash
  /\ r.stage \notin {"NONE", "ATTEMPTED"}

\* The guards of anchorEvent on a receipt in state s.
ValidNext(s, r) ==
  /\ r.previousEventHash # Zero
  /\ r.previousEventHash = s.latestEventHash
  /\ r.extensionKeyHash = s.extensionKeyHash
  /\ ~IsTerminal(s.currentStage)
  /\ IsValidTransition(s.currentStage, r.stage)

\* The guards on the receipt, whichever it is, and on the authority key.
ValidForReceipt(r) ==
  /\ IF receipts[r.receiptId].currentStage = "NONE"
     THEN ValidFirst(r)
     ELSE ValidNext(receipts[r.receiptId], r)
  /\ ValidAuthorityKey(r.stage, r.authorityKeyHash)

\* Broken: also a hash anchored before.
AcceptsAgain(r) ==
  r.receiptId # Zero /\ r.eventHash # Zero /\ r.extensionKeyHash # Zero /\ ValidForReceipt(r)

\* The calls of anchorEvent that do not revert.
Accepts(r) ==
  /\ r.receiptId # Zero
  /\ r.eventHash # Zero
  /\ r.extensionKeyHash # Zero
  /\ r.eventHash \notin anchoredEvents
  /\ ValidForReceipt(r)

\* anchorEvent
AnchorEvent(r) ==
  /\ Accepts(r)
  /\ receipts' = [receipts EXCEPT ![r.receiptId] =
       [latestEventHash  |-> r.eventHash,
        extensionKeyHash |-> IF @.currentStage = "NONE" THEN r.extensionKeyHash
                                                        ELSE @.extensionKeyHash,
        eventCount       |-> @.eventCount + 1,
        currentStage     |-> r.stage]]
  /\ anchoredEvents' = anchoredEvents \cup {r.eventHash}
  /\ log' = [log EXCEPT ![r.receiptId] = Append(@, r)]

Init ==
  /\ receipts = [id \in ReceiptIds |-> UnknownReceipt]
  /\ anchoredEvents = {}
  /\ log = [id \in ReceiptIds |-> <<>>]

Next == \E r \in Request : AnchorEvent(r)

Spec == Init /\ [][Next]_registryVars

-----------------------------------------------------------------------------
(* Properties *)

TypeOK ==
  /\ receipts \in [ReceiptIds -> ReceiptState]
  /\ anchoredEvents \in SUBSET Hashes
  /\ log \in [ReceiptIds -> Seq(Request)]

\* The off-chain rules of receipt-core, which every verifier applies.
Lifecycle == INSTANCE EventChain

\* The state of receipt id is the one its logs describe.
LogDescribes(id) ==
  LET n == Len(log[id]) IN
  /\ receipts[id].eventCount = n
  /\ n = 0 => receipts[id] = UnknownReceipt
  /\ n > 0 => /\ receipts[id].latestEventHash = log[id][n].eventHash
              /\ receipts[id].currentStage = log[id][n].stage
              /\ receipts[id].currentStage # "NONE"
  /\ \A i \in 1..n : /\ log[id][i].extensionKeyHash = receipts[id].extensionKeyHash
                     /\ log[id][i].receiptId = id

\* The compact state of a receipt is what its logs say: the contract keeps no
\* history on chain, so a verifier has to be able to rebuild the tip, the count
\* and the key from ReceiptEventAnchored alone (anchorEvent, getReceipt).
StateMatchesLog == \A id \in ReceiptIds : LogDescribes(id)

\* The logs of each receipt are a chain validateEventChain of receipt-core
\* accepts, signed by one extension key throughout: whoever calls, a log never
\* continues under another key (ExtensionKeyMismatch), although the off-chain
\* rules of a chain do not look at the key.
LogIsEventChain ==
  \A id \in ReceiptIds :
    /\ Lifecycle!ValidateEventChain(log[id])
    /\ \A i \in DOMAIN log[id] : log[id][i].extensionKeyHash = log[id][1].extensionKeyHash

\* An event hash is anchored once, for one receipt: no other log of the same or
\* another receipt carries it (DuplicateEventHash is a global check), and
\* isAnchored says exactly which hashes were logged.
HashAnchoredOnce ==
  /\ \A id1, id2 \in ReceiptIds : \A i \in DOMAIN log[id1], j \in DOMAIN log[id2] :
       log[id1][i].eventHash = log[id2][j].eventHash => id1 = id2 /\ i = j
  /\ \A h \in Hashes : h \in anchoredEvents <=>
       \E id \in ReceiptIds : \E i \in DOMAIN log[id] : log[id][i].eventHash = h

\* The contract and the off-chain library agree: a well-formed, not yet anchored
\* event extends a receipt on chain exactly when receipt-core accepts the
\* extended chain and the receipt's key and the authority key are right.
AgreesWithReceiptCore ==
  \A id \in ReceiptIds : \A r \in Request :
    ( /\ r.receiptId = id
      /\ r.eventHash \notin anchoredEvents \cup {Zero}
      /\ r.extensionKeyHash # Zero
      /\ r.stage \in Lifecycle!EventStage
      /\ (r.authorityKeyHash # Zero) <=> (r.stage \in Lifecycle!AuthorityStage)
      /\ log[id] # <<>> => r.extensionKeyHash = log[id][1].extensionKeyHash )
    => (Accepts(r) <=> Lifecycle!ValidateEventChain(Append(log[id], r)))

\* A receipt never changes its key, never loses an event, and never changes at
\* all once an authority accepted or rejected it.
ReceiptOnlyGrows ==
  [][\A id \in ReceiptIds :
       /\ receipts[id].currentStage # "NONE" =>
            receipts'[id].extensionKeyHash = receipts[id].extensionKeyHash
       /\ receipts'[id].eventCount >= receipts[id].eventCount
       /\ IsTerminal(receipts[id].currentStage) => receipts'[id] = receipts[id]]_registryVars
=============================================================================
