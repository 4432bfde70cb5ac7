----------------------- MODULE PrivateReceipt_proofs -----------------------
(***************************************************************************)
(* What private-receipt.ts keeps true of its bundles, for any number of    *)
(* profiles, receipts, keys, anchors and packages.                         *)
(*                                                                         *)
(* Every bundle is one of four parts: an operational record o, a key, the  *)
(* anchors f of its two possible events, and an owner; Made(o, key, f,     *)
(* owner) builds it. The first lemmas show that each such bundle parses,   *)
(* verifies and is returned as it is, and that capturing, updating,        *)
(* attaching and importing take one such bundle to another. ReceiptInv     *)
(* then says that profiles and packages hold no other bundle, with what    *)
(* relates a bundle to the profile that keeps it; StepOf(p) is what any    *)
(* step of profile p may do, and each theorem follows from the two.        *)
(***************************************************************************)
EXTENDS PrivateReceipt, FiniteSetTheorems, SequenceTheorems, TLAPS

-----------------------------------------------------------------------------
(* The checks of a bundle are in their canonical order *)

AnchoredChecks == <<Passed("CHAIN_ANCHOR")>> \o ExtensionChecks

LEMMA OneBefore ==
  ASSUME NEW a, NEW b, NEW c, NEW d, NEW e
  PROVE  <<a>> \o <<b, c, d, e>> = <<a, b, c, d, e>>
<1> DEFINE S == {a, b, c, d, e}
<1>1. <<a>> \in Seq(S) /\ <<b, c, d, e>> \in Seq(S) /\ Len(<<a>>) = 1 /\ Len(<<b, c, d, e>>) = 4
  OBVIOUS
<1>2. <<a>> \o <<b, c, d, e>> \in Seq(S) /\ Len(<<a>> \o <<b, c, d, e>>) = 5
  BY <1>1
<1>3. \A i \in 1..5 : (<<a>> \o <<b, c, d, e>>)[i] = IF i <= 1 THEN <<a>>[i] ELSE <<b, c, d, e>>[i - 1]
  BY <1>1
<1>4. /\ (<<a>> \o <<b, c, d, e>>)[1] = a /\ (<<a>> \o <<b, c, d, e>>)[2] = b
      /\ (<<a>> \o <<b, c, d, e>>)[3] = c /\ (<<a>> \o <<b, c, d, e>>)[4] = d
      /\ (<<a>> \o <<b, c, d, e>>)[5] = e
  BY <1>3
<1>5. <<a, b, c, d, e>> \in Seq(S) /\ Len(<<a, b, c, d, e>>) = 5
  OBVIOUS
<1>6. \A i \in 1..5 : i = 1 \/ i = 2 \/ i = 3 \/ i = 4 \/ i = 5
  OBVIOUS
<1>7. \A i \in 1..5 : (<<a>> \o <<b, c, d, e>>)[i] = <<a, b, c, d, e>>[i]
  BY <1>4, <1>6
<1> HIDE DEF S
<1> QED
  BY <1>2, <1>5, <1>7, SeqEqual

LEMMA CheckLists ==
  /\ \A events : ExpectedChecks(events) = IF Some(events, Anchored) THEN AnchoredChecks ELSE ExtensionChecks
  /\ ExtensionChecks = <<Passed("EVENT_HASH"), Passed("EVENT_LINK"), Passed("EXTENSION_SIGNATURE"),
                         Passed("SCHEMA")>>
  /\ AnchoredChecks = <<Passed("CHAIN_ANCHOR"), Passed("EVENT_HASH"), Passed("EVENT_LINK"),
                        Passed("EXTENSION_SIGNATURE"), Passed("SCHEMA")>>
<1>1. ExtensionChecks = <<Passed("EVENT_HASH"), Passed("EVENT_LINK"), Passed("EXTENSION_SIGNATURE"),
                         Passed("SCHEMA")>>
  BY DEF ExtensionChecks
<1>2. AnchoredChecks = <<Passed("CHAIN_ANCHOR"), Passed("EVENT_HASH"), Passed("EVENT_LINK"),
                        Passed("EXTENSION_SIGNATURE"), Passed("SCHEMA")>>
  BY <1>1, OneBefore DEF AnchoredChecks
<1>3. <<>> \o ExtensionChecks = ExtensionChecks
  BY <1>1
<1> QED
  BY <1>1, <1>2, <1>3 DEF ExpectedChecks, AnchoredChecks

\* A list of at most five checks whose places grow is sorted already.
LEMMA SortedStays ==
  ASSUME NEW n \in Nat, NEW checks, DOMAIN checks = 1..n, checks = [i \in 1..n |-> checks[i]],
         \A i \in 1..n : Place[checks[i].check] \in Nat,
         \A i, j \in 1..n : i < j => Place[checks[i].check] < Place[checks[j].check]
  PROVE  SortedChecks(checks) = checks
<1> DEFINE Lower(i) == {j \in 1..n : Place[checks[j].check] <= Place[checks[i].check]}
<1>1. ASSUME NEW i \in 1..n PROVE Lower(i) = 1..i
  <2>1. ASSUME NEW j \in 1..n PROVE Place[checks[j].check] <= Place[checks[i].check] <=> j <= i
    <3>1. j < i \/ j = i \/ i < j
      OBVIOUS
    <3> QED
      BY <3>1
  <2> QED
    BY <2>1
<1>2. ASSUME NEW i \in 1..n PROVE Cardinality(Lower(i)) = i
  <2>1. Cardinality(1..i) = i
    <3>1. 1 \in Int /\ i \in Int /\ ~(1 > i) /\ i - 1 + 1 = i
      OBVIOUS
    <3> QED
      BY <3>1, FS_Interval
  <2> QED
    BY <1>1, <2>1
<1> HIDE DEF Lower
<1>3. ASSUME NEW i \in 1..n PROVE (CHOOSE k \in 1..n : Cardinality(Lower(k)) = i) = i
  BY <1>2
<1>4. SortedChecks(checks) = [i \in 1..n |-> checks[CHOOSE k \in 1..n : Cardinality(Lower(k)) = i]]
  BY DEF SortedChecks, Lower
<1> QED
  BY <1>3, <1>4

LEMMA ChecksSorted ==
  ASSUME NEW checks \in {ExtensionChecks, AnchoredChecks}
  PROVE  SortedChecks(checks) = checks
<1>1. CASE checks = ExtensionChecks
  <2>1. /\ checks[1].check = "EVENT_HASH" /\ checks[2].check = "EVENT_LINK"
        /\ checks[3].check = "EXTENSION_SIGNATURE" /\ checks[4].check = "SCHEMA"
        /\ DOMAIN checks = 1..4 /\ checks = [i \in 1..4 |-> checks[i]]
    BY <1>1, CheckLists DEF Passed
  <2>2. \A i \in 1..4 : i = 1 \/ i = 2 \/ i = 3 \/ i = 4
    OBVIOUS
  <2>3. /\ \A i \in 1..4 : Place[checks[i].check] \in Nat
        /\ \A i, j \in 1..4 : i < j => Place[checks[i].check] < Place[checks[j].check]
    BY <2>1, <2>2 DEF Place
  <2> QED
    BY <2>1, <2>3, SortedStays
<1>2. CASE checks = AnchoredChecks
  <2>1. /\ checks[1].check = "CHAIN_ANCHOR" /\ checks[2].check = "EVENT_HASH" /\ checks[3].check = "EVENT_LINK"
        /\ checks[4].check = "EXTENSION_SIGNATURE" /\ checks[5].check = "SCHEMA"
        /\ DOMAIN checks = 1..5 /\ checks = [i \in 1..5 |-> checks[i]]
    BY <1>2, CheckLists DEF Passed
  <2>2. \A i \in 1..5 : i = 1 \/ i = 2 \/ i = 3 \/ i = 4 \/ i = 5
    OBVIOUS
  <2>3. /\ \A i \in 1..5 : Place[checks[i].check] \in Nat
        /\ \A i, j \in 1..5 : i < j => Place[checks[i].check] < Place[checks[j].check]
    BY <2>1, <2>2 DEF Place
  <2> QED
    BY <2>1, <2>3, SortedStays
<1> QED
  BY <1>1, <1>2

-----------------------------------------------------------------------------
(* The bundles this code makes, and that each of them verifies *)

Operationals(r) == {Operational(r, "ACTIVE", FALSE), Closed(r), Confirmed(r)}
Size(o) == IF o.confirmed THEN 2 ELSE 1
StageOf(i) == IF i = 1 THEN "ATTEMPTED" ELSE "SITE_CONFIRMED"
Signature(r, i, key) == [key |-> key, payload |-> Hash(r, StageOf(i))]

\* Event i of a receipt, with its evidence.
Envelope(r, i, signature, anchor) ==
  [stage |-> StageOf(i), receiptId |-> r, eventHash |-> Hash(r, StageOf(i)),
   previousEventHash |-> IF i = 1 THEN Zero ELSE Hash(r, "ATTEMPTED"), extensionSignature |-> signature,
   authoritySignature |-> NoSignature, chainAnchor |-> anchor]

\* The signed events of a receipt, anchored by f, and their bundle.
Anchorings == [{1, 2} -> Anchors \cup {NoAnchor}]
Evidence(o, key, f) ==
  [i \in 1..Size(o) |-> Envelope(o.receiptId, i, Signature(o.receiptId, i, key), f[i])]
Made(o, key, f, owner) == Bundle(o, Evidence(o, key, f), key, owner)

LEMMA OperationalParts ==
  ASSUME NEW r \in Receipts, NEW o \in Operationals(r)
  PROVE  /\ o.receiptId = r /\ o.confirmed \in BOOLEAN
         /\ o.confirmed <=> o.context = "COMPLETED"
         /\ o.context \in Contexts
         /\ Size(o) \in {1, 2} /\ (Size(o) = 2 <=> o.confirmed)
         /\ OperationalEvents(o) = [i \in 1..Size(o) |-> Envelope(r, i, NoSignature, NoAnchor)]
<1>1. /\ o.receiptId = r /\ o.confirmed \in BOOLEAN /\ o.context \in Contexts
      /\ o.confirmed <=> o.context = "COMPLETED"
  <2>1. CASE o = Operational(r, "ACTIVE", FALSE)
    BY <2>1 DEF Operational, Contexts
  <2>2. CASE o = Closed(r)
    BY <2>2 DEF Operational, Closed, Contexts
  <2>3. CASE o = Confirmed(r)
    BY <2>3 DEF Operational, Confirmed, Contexts
  <2> QED
    BY <2>1, <2>2, <2>3 DEF Operationals
<1>2. Envelope(r, 1, NoSignature, NoAnchor) = Unsigned(r, "ATTEMPTED", Zero)
  BY DEF Envelope, Unsigned, StageOf
<1>3. Envelope(r, 2, NoSignature, NoAnchor) = Unsigned(r, "SITE_CONFIRMED", Hash(r, "ATTEMPTED"))
  BY DEF Envelope, Unsigned, StageOf
<1>4. Unsigned(r, "ATTEMPTED", Zero).eventHash = Hash(r, "ATTEMPTED")
  BY DEF Unsigned
<1>5. CASE o.confirmed
  <2>1. OperationalEvents(o) = <<Envelope(r, 1, NoSignature, NoAnchor), Envelope(r, 2, NoSignature, NoAnchor)>>
    BY <1>1, <1>2, <1>3, <1>4, <1>5 DEF OperationalEvents
  <2>2. \A i \in 1..2 : i = 1 \/ i = 2
    OBVIOUS
  <2>3. OperationalEvents(o) = [i \in 1..2 |-> Envelope(r, i, NoSignature, NoAnchor)]
    BY <2>1, <2>2
  <2> QED
    BY <1>1, <1>5, <2>3 DEF Size
<1>6. CASE ~o.confirmed
  <2>1. OperationalEvents(o) = <<Envelope(r, 1, NoSignature, NoAnchor)>>
    BY <1>1, <1>2, <1>6 DEF OperationalEvents
  <2>2. \A i \in 1..1 : i = 1
    OBVIOUS
  <2>3. OperationalEvents(o) = [i \in 1..1 |-> Envelope(r, i, NoSignature, NoAnchor)]
    BY <2>1, <2>2
  <2> QED
    BY <1>1, <1>6, <2>3 DEF Size
<1> QED
  BY <1>5, <1>6

LEMMA EnvelopeParts ==
  ASSUME NEW r, NEW i, NEW s, NEW a
  PROVE  /\ Envelope(r, i, s, a).stage = StageOf(i)
         /\ Envelope(r, i, s, a).receiptId = r
         /\ Envelope(r, i, s, a).eventHash = Hash(r, StageOf(i))
         /\ Envelope(r, i, s, a).previousEventHash = IF i = 1 THEN Zero ELSE Hash(r, "ATTEMPTED")
         /\ Envelope(r, i, s, a).extensionSignature = s
         /\ Envelope(r, i, s, a).authoritySignature = NoSignature
         /\ Envelope(r, i, s, a).chainAnchor = a
         /\ WithoutExtensionSignature(Envelope(r, i, s, a)) = Envelope(r, i, NoSignature, NoAnchor)
         /\ \A b : [Envelope(r, i, s, a) EXCEPT !.chainAnchor = b] = Envelope(r, i, s, b)
<1> DEFINE e == Envelope(r, i, s, a)
<1>1. /\ e.stage = StageOf(i) /\ e.receiptId = r /\ e.eventHash = Hash(r, StageOf(i))
      /\ e.previousEventHash = IF i = 1 THEN Zero ELSE Hash(r, "ATTEMPTED")
      /\ e.extensionSignature = s /\ e.authoritySignature = NoSignature /\ e.chainAnchor = a
  BY DEF Envelope
<1>2. ASSUME NEW b PROVE [e EXCEPT !.chainAnchor = b] = Envelope(r, i, s, b)
  BY DEF Envelope
<1>3. [e EXCEPT !.extensionSignature = NoSignature] = Envelope(r, i, NoSignature, a)
  BY DEF Envelope
<1>4. [Envelope(r, i, NoSignature, a) EXCEPT !.chainAnchor = NoAnchor] = Envelope(r, i, NoSignature, NoAnchor)
  BY DEF Envelope
<1>5. [e EXCEPT !.extensionSignature = NoSignature, !.chainAnchor = NoAnchor]
        = [[e EXCEPT !.extensionSignature = NoSignature] EXCEPT !.chainAnchor = NoAnchor]
  <2> HIDE DEF e
  <2> QED
    OBVIOUS
<1>6. WithoutExtensionSignature(e) = Envelope(r, i, NoSignature, NoAnchor)
  <2> HIDE DEF e
  <2> QED
    BY <1>3, <1>4, <1>5 DEF WithoutExtensionSignature
<1> QED
  BY <1>1, <1>2, <1>6

LEMMA EnvelopeSigned ==
  ASSUME NEW r, NEW i, NEW key, NEW a
  PROVE  SignExtensionEvent(Envelope(r, i, NoSignature, a), key) = Envelope(r, i, Signature(r, i, key), a)
<1>1. Envelope(r, i, NoSignature, a).eventHash = Hash(r, StageOf(i))
  BY EnvelopeParts
<1>2. [Envelope(r, i, NoSignature, a) EXCEPT !.extensionSignature = Signature(r, i, key)]
        = Envelope(r, i, Signature(r, i, key), a)
  BY DEF Envelope
<1> QED
  BY <1>1, <1>2 DEF SignExtensionEvent, Signature

LEMMA KeysSign ==
  ASSUME NEW r, NEW i, NEW key \in Keys
  PROVE  Signature(r, i, key) # NoSignature /\ Signature(r, i, key).key = key
BY PrivateReceiptAssumption DEF Signature, NoSignature, NoKey

LEMMA MadeParts ==
  ASSUME NEW o, NEW key, NEW f, NEW owner
  PROVE  LET b == Made(o, key, f, owner) IN
         /\ b.operational = o /\ b.ownership = owner
         /\ b.receipt = CreateReceipt(o.receiptId, Evidence(o, key, f), key, VerificationState(Evidence(o, key, f)))
         /\ b.receipt.receiptId = o.receiptId
         /\ b.receipt.extensionPublicKey = key
         /\ b.receipt.events = Evidence(o, key, f)
BY DEF Made, Bundle, CreateReceipt

\* The events of a bundle form a chain of one receipt.
LEMMA EvidenceIsChain ==
  ASSUME NEW r \in Receipts, NEW o \in Operationals(r), NEW key \in Keys, NEW f
  PROVE  LET events == Evidence(o, key, f) IN
         /\ DOMAIN events = 1..Size(o)
         /\ \A i \in 1..Size(o) : events[i] = Envelope(r, i, Signature(r, i, key), f[i])
         /\ Len(events) = Size(o)
         /\ ValidateEventChain(events)
         /\ Stage(events) = IF o.confirmed THEN "SITE_CONFIRMED" ELSE "ATTEMPTED"
<1> DEFINE events == Evidence(o, key, f)
<1>1. /\ DOMAIN events = 1..Size(o)
      /\ \A i \in 1..Size(o) : events[i] = Envelope(r, i, Signature(r, i, key), f[i])
  BY OperationalParts DEF Evidence
<1>2. Len(events) = Size(o)
  BY OperationalParts, <1>1 DEF Evidence
<1>3. Stage(events) = IF o.confirmed THEN "SITE_CONFIRMED" ELSE "ATTEMPTED"
  <2>1. Size(o) \in {1, 2} /\ (Size(o) = 2 <=> o.confirmed)
    BY OperationalParts
  <2>2. Stage(events) = events[Size(o)].stage
    BY <1>2, <2>1 DEF Stage, StageBefore
  <2>3. events[Size(o)].stage = StageOf(Size(o))
    BY <1>1, <2>1, EnvelopeParts
  <2> QED
    BY <2>1, <2>2, <2>3 DEF StageOf
<1>4. ValidateEventChain(events)
  <2> HIDE DEF events
  <2>1. /\ events[1].receiptId = r /\ events[1].stage = "ATTEMPTED"
        /\ events[1].eventHash = Hash(r, "ATTEMPTED") /\ events[1].previousEventHash = Zero
    BY <1>1, OperationalParts, EnvelopeParts DEF StageOf
  <2>2. Size(o) = 2 => /\ events[2].receiptId = r /\ events[2].stage = "SITE_CONFIRMED"
                       /\ events[2].eventHash = Hash(r, "SITE_CONFIRMED")
                       /\ events[2].previousEventHash = Hash(r, "ATTEMPTED")
    BY <1>1, OperationalParts, EnvelopeParts DEF StageOf
  <2>3. Hash(r, "ATTEMPTED") # Zero /\ Hash(r, "ATTEMPTED") # Hash(r, "SITE_CONFIRMED")
    BY PrivateReceiptAssumption DEF Hash, EventStage
  <2>4. ASSUME NEW i \in 1..Size(o)
        PROVE  /\ \A j \in 1..(i - 1) : events[j].eventHash # events[i].eventHash
               /\ events[i].previousEventHash = LinkBefore(events, i)
               /\ i > 1 => /\ events[i].previousEventHash # Zero
                           /\ events[i].receiptId = events[1].receiptId
               /\ IsValidTransition(StageBefore(events, i), events[i].stage)
    <3>1. CASE i = 1
      BY <2>1, <3>1 DEF LinkBefore, StageBefore, IsValidTransition, AllowedTransitions
    <3>2. CASE i = 2 /\ Size(o) = 2
      <4>1. \A j \in 1..(i - 1) : j = 1
        BY <3>2
      <4>2. LinkBefore(events, i) = events[1].eventHash /\ StageBefore(events, i) = events[1].stage
        BY <3>2 DEF LinkBefore, StageBefore
      <4> QED
        BY <2>1, <2>2, <2>3, <3>2, <4>1, <4>2 DEF IsValidTransition, AllowedTransitions
    <3> QED
      BY <3>1, <3>2, OperationalParts
  <2> QED
    BY <1>1, <2>4 DEF ValidateEventChain
<1> QED
  BY <1>1, <1>2, <1>3, <1>4

\* The verification state of a bundle: what it shows, and that parsing keeps it.
LEMMA StateParses ==
  ASSUME NEW events
  PROVE  LET v == VerificationState(events) IN
         /\ v.result = "VERIFIED" /\ v.checks = ExpectedChecks(events)
         /\ v.checks \in {ExtensionChecks, AnchoredChecks}
         /\ VerificationParses(v)
         /\ \A name \in {"SCHEMA", "EVENT_HASH", "EVENT_LINK", "EXTENSION_SIGNATURE"} : CheckPassed(v, name)
         /\ Some(events, Anchored) => CheckPassed(v, "CHAIN_ANCHOR")
<1> DEFINE v == VerificationState(events)
<1>1. /\ v.result = "VERIFIED" /\ v.checks = ExpectedChecks(events)
      /\ v.checks = IF Some(events, Anchored) THEN AnchoredChecks ELSE ExtensionChecks
  BY CheckLists DEF VerificationState
<1> HIDE DEF v
<1>2. CASE v.checks = ExtensionChecks
  <2>1. /\ DOMAIN v.checks = {1, 2, 3, 4}
        /\ v.checks[1] = [check |-> "EVENT_HASH", result |-> "PASSED"]
        /\ v.checks[2] = [check |-> "EVENT_LINK", result |-> "PASSED"]
        /\ v.checks[3] = [check |-> "EXTENSION_SIGNATURE", result |-> "PASSED"]
        /\ v.checks[4] = [check |-> "SCHEMA", result |-> "PASSED"]
    BY <1>2, CheckLists DEF Passed
  <2>2. VerificationParses(v)
    BY <1>1, <2>1 DEF VerificationParses
  <2>3. \A name \in {"SCHEMA", "EVENT_HASH", "EVENT_LINK", "EXTENSION_SIGNATURE"} : CheckPassed(v, name)
    BY <2>1 DEF CheckPassed
  <2>4. ExtensionChecks # AnchoredChecks
    BY CheckLists
  <2> QED
    BY <1>1, <1>2, <2>2, <2>3, <2>4 DEF v
<1>3. CASE v.checks = AnchoredChecks
  <2>1. /\ DOMAIN v.checks = {1, 2, 3, 4, 5}
        /\ v.checks[1] = [check |-> "CHAIN_ANCHOR", result |-> "PASSED"]
        /\ v.checks[2] = [check |-> "EVENT_HASH", result |-> "PASSED"]
        /\ v.checks[3] = [check |-> "EVENT_LINK", result |-> "PASSED"]
        /\ v.checks[4] = [check |-> "EXTENSION_SIGNATURE", result |-> "PASSED"]
        /\ v.checks[5] = [check |-> "SCHEMA", result |-> "PASSED"]
    BY <1>3, CheckLists DEF Passed
  <2>2. VerificationParses(v)
    BY <1>1, <2>1 DEF VerificationParses
  <2>3. /\ \A name \in {"SCHEMA", "EVENT_HASH", "EVENT_LINK", "EXTENSION_SIGNATURE"} : CheckPassed(v, name)
        /\ CheckPassed(v, "CHAIN_ANCHOR")
    BY <2>1 DEF CheckPassed
  <2> QED
    BY <1>1, <1>3, <2>2, <2>3 DEF v
<1> QED
  BY <1>1, <1>2, <1>3

LEMMA MadeVerifies ==
  ASSUME NEW r \in Receipts, NEW o \in Operationals(r), NEW key \in Keys, NEW f, NEW owner
  PROVE  /\ BundleVerifies(Made(o, key, f, owner))
         /\ ParseBundle(Made(o, key, f, owner)) = Made(o, key, f, owner)
<1> DEFINE events == Evidence(o, key, f)
           v == VerificationState(events)
           b == Made(o, key, f, owner)
           c == CreateReceipt(r, events, key, v)
<1>1. /\ b.operational = o /\ b.ownership = owner /\ b.receipt = c
  BY MadeParts, OperationalParts
<1>2. /\ c.receiptId = r /\ c.events = events /\ c.extensionPublicKey = key /\ c.currentStage = Stage(events)
      /\ c.verification = v /\ c.derivedStatus = DeriveReceiptStatus(Stage(events), v)
  BY DEF CreateReceipt
<1>3. /\ DOMAIN events = 1..Size(o)
      /\ \A i \in 1..Size(o) : events[i] = Envelope(r, i, Signature(r, i, key), f[i])
      /\ Len(events) = Size(o)
      /\ ValidateEventChain(events)
      /\ Stage(events) = IF o.confirmed THEN "SITE_CONFIRMED" ELSE "ATTEMPTED"
  BY EvidenceIsChain
<1>4. /\ v.result = "VERIFIED" /\ v.checks = ExpectedChecks(events)
      /\ v.checks \in {ExtensionChecks, AnchoredChecks}
      /\ VerificationParses(v)
      /\ \A name \in {"SCHEMA", "EVENT_HASH", "EVENT_LINK", "EXTENSION_SIGNATURE"} : CheckPassed(v, name)
      /\ Some(events, Anchored) => CheckPassed(v, "CHAIN_ANCHOR")
  BY StateParses
<1> HIDE DEF v
<1>5. ParseReceipt(c) = c
  <2>1. SortedChecks(v.checks) = v.checks
    BY <1>4, ChecksSorted
  <2>2. ParseReceipt(c) = [c EXCEPT !.verification = [v EXCEPT !.checks = v.checks]]
    BY <1>2, <2>1 DEF ParseReceipt
  <2>3. [v EXCEPT !.checks = v.checks] = v
    BY DEF v, VerificationState
  <2>4. [c EXCEPT !.verification = v] = c
    BY DEF CreateReceipt
  <2> QED
    BY <2>2, <2>3, <2>4
<1>6. ParseBundle(b) = b
  <2>1. [b EXCEPT !.receipt = c] = b
    BY <1>1 DEF Made, Bundle
  <2> QED
    BY <1>1, <1>5, <2>1 DEF ParseBundle
<1> HIDE DEF c, b
<1>7. \A i \in 1..Size(o) :
        /\ events[i].stage = StageOf(i) /\ events[i].receiptId = r
        /\ events[i].eventHash = Hash(r, StageOf(i))
        /\ events[i].extensionSignature = Signature(r, i, key)
        /\ events[i].authoritySignature = NoSignature
        /\ WithoutExtensionSignature(events[i]) = Envelope(r, i, NoSignature, NoAnchor)
        /\ Signed(events[i]) /\ SignatureVerifies(events[i], key)
  <2>1. ASSUME NEW i \in 1..Size(o)
        PROVE  /\ events[i].stage = StageOf(i) /\ events[i].receiptId = r
               /\ events[i].eventHash = Hash(r, StageOf(i))
               /\ events[i].extensionSignature = Signature(r, i, key)
               /\ events[i].authoritySignature = NoSignature
               /\ WithoutExtensionSignature(events[i]) = Envelope(r, i, NoSignature, NoAnchor)
    BY <1>3, EnvelopeParts
  <2>2. ASSUME NEW i \in 1..Size(o) PROVE Signed(events[i]) /\ SignatureVerifies(events[i], key)
    <3>1. Signed(events[i])
      BY <2>1, <2>2, KeysSign DEF Signed
    <3>2. SignatureVerifies(events[i], key)
      BY <2>1, <2>2 DEF SignatureVerifies, Signature
    <3> QED
      BY <3>1, <3>2
  <2> QED
    BY <2>1, <2>2
<1> HIDE DEF events
<1>8. Stage(events) \notin AuthorityStage /\ Stage(events) # "NONE"
  BY <1>3, OperationalParts DEF AuthorityStage
<1>9. c.derivedStatus = "PENDING_ACCEPTANCE"
  BY <1>2, <1>4, <1>8 DEF DeriveReceiptStatus
<1>10. ValidReceipt(c)
  <2>1. StructureParses(c)
    BY <1>2, <1>3, <1>4, <1>7 DEF StructureParses, EnvelopeParses
  <2>2. \A i \in DOMAIN c.events : c.events[i].receiptId = c.receiptId
                                   /\ PayloadsMatch(c.events[i], c.extensionPublicKey)
    BY <1>2, <1>3, <1>7 DEF PayloadsMatch, Signature
  <2>3. \A name \in RequiredChecks(c) : CheckPassed(c.verification, name)
    BY <1>2, <1>4, <1>8 DEF RequiredChecks
  <2> QED
    BY <1>2, <1>3, <1>8, <2>1, <2>2, <2>3 DEF ValidReceipt
<1>11. ReceiptMatchesOperational(c, o)
  <2>1. [i \in DOMAIN c.events |-> WithoutExtensionSignature(c.events[i])] = OperationalEvents(o)
    BY <1>2, <1>3, <1>7, OperationalParts
  <2> QED
    BY <1>2, <1>3, <1>9, <2>1, OperationalParts DEF ReceiptMatchesOperational
<1>12. BundleParses(b)
  BY <1>1, <1>2, <1>3, <1>4, <1>5, <1>7, <1>10, <1>11, OperationalParts DEF BundleParses, OperationalParses
<1>13. BundleVerifies(b)
  BY <1>1, <1>2, <1>3, <1>7, <1>12 DEF BundleVerifies
<1> QED
  BY <1>6, <1>13 DEF b

\* A new receipt is signed anew and not anchored.
Bare == [i \in {1, 2} |-> NoAnchor]

LEMMA SecuredAnew ==
  ASSUME NEW r \in Receipts, NEW o \in Operationals(r), NEW key \in Keys
  PROVE  Secured(o, key, {}) = Made(o, key, Bare, "LOCAL")
<1>1. DOMAIN OperationalEvents(o) = 1..Size(o) /\ Size(o) \in {1, 2} /\ o.receiptId = r
  BY OperationalParts
<1>2. ASSUME NEW i \in 1..Size(o)
      PROVE  SignExtensionEvent(OperationalEvents(o)[i], key) = Envelope(r, i, Signature(r, i, key), NoAnchor)
  <2>1. OperationalEvents(o)[i] = Envelope(r, i, NoSignature, NoAnchor)
    BY OperationalParts
  <2> QED
    BY <2>1, EnvelopeSigned
<1>3. SignedEvents(o, key, {}) = [i \in 1..Size(o) |-> SignExtensionEvent(OperationalEvents(o)[i], key)]
  BY <1>1 DEF SignedEvents
<1>4. SignedEvents(o, key, {}) = Evidence(o, key, Bare)
  BY <1>1, <1>2, <1>3 DEF Evidence, Bare
<1> QED
  BY <1>4 DEF Secured, Made

\* An event signed before keeps its envelope, and its anchor.
LEMMA SecuredAgain ==
  ASSUME NEW r \in Receipts, NEW o \in Operationals(r), NEW key \in Keys, NEW f \in Anchorings, NEW owner,
         NEW next \in {Closed(r), Confirmed(r)}, o.context = "ACTIVE"
  PROVE  Secured(next, key, EventsOf(Made(o, key, f, owner)))
           = Made(next, key, [f EXCEPT ![2] = NoAnchor], "LOCAL")
<1> DEFINE first == Envelope(r, 1, Signature(r, 1, key), f[1])
           existing == EventsOf(Made(o, key, f, owner))
           Prior(e) == {x \in existing : WithoutExtensionSignature(x) = e /\ SignatureVerifies(x, key)}
           e(i) == OperationalEvents(next)[i]
<1>1. o.receiptId = r /\ ~o.confirmed /\ Size(o) = 1
  BY OperationalParts DEF Size
<1>2. next \in Operationals(r) /\ next.receiptId = r /\ Size(next) \in {1, 2}
      /\ DOMAIN OperationalEvents(next) = 1..Size(next)
      /\ \A i \in 1..Size(next) : e(i) = Envelope(r, i, NoSignature, NoAnchor)
  <2>1. next \in Operationals(r)
    BY DEF Operationals
  <2> QED
    BY <2>1, OperationalParts
<1>3. existing = {first}
  <2>1. Made(o, key, f, owner).receipt.events = Evidence(o, key, f)
    BY MadeParts
  <2>2. DOMAIN Evidence(o, key, f) = {1} /\ Evidence(o, key, f)[1] = first
    BY <1>1, EvidenceIsChain
  <2> QED
    BY <2>1, <2>2 DEF EventsOf
<1>4. /\ WithoutExtensionSignature(first) = Envelope(r, 1, NoSignature, NoAnchor)
      /\ SignatureVerifies(first, key)
  BY EnvelopeParts DEF SignatureVerifies, Signature
<1>5. Envelope(r, 1, NoSignature, NoAnchor) # Envelope(r, 2, NoSignature, NoAnchor)
  BY EnvelopeParts DEF StageOf
<1> HIDE DEF first, existing, e
<1>6. Prior(Envelope(r, 1, NoSignature, NoAnchor)) = {first} /\ Prior(Envelope(r, 2, NoSignature, NoAnchor)) = {}
  BY <1>3, <1>4, <1>5
<1>7. (CHOOSE x \in {first} : TRUE) = first
  OBVIOUS
<1> HIDE DEF Prior
<1>8. SignedEvents(next, key, existing)
        = [i \in 1..Size(next) |-> IF Prior(e(i)) # {} THEN CHOOSE x \in Prior(e(i)) : TRUE
                                   ELSE SignExtensionEvent(e(i), key)]
  BY <1>2 DEF SignedEvents, Prior, e
<1>9. ASSUME NEW i \in 1..Size(next)
      PROVE  SignedEvents(next, key, existing)[i]
               = Envelope(r, i, Signature(r, i, key), [f EXCEPT ![2] = NoAnchor][i])
  <2>1. CASE i = 1
    <3>1. SignedEvents(next, key, existing)[i] = first
      BY <1>2, <1>6, <1>7, <1>8, <2>1
    <3>2. [f EXCEPT ![2] = NoAnchor][1] = f[1]
      BY DEF Anchorings
    <3> QED
      BY <2>1, <3>1, <3>2 DEF first
  <2>2. CASE i = 2
    <3>1. SignedEvents(next, key, existing)[i] = SignExtensionEvent(Envelope(r, 2, NoSignature, NoAnchor), key)
      BY <1>2, <1>6, <1>8, <2>2
    <3>2. [f EXCEPT ![2] = NoAnchor][2] = NoAnchor
      BY DEF Anchorings
    <3> QED
      BY <2>2, <3>1, <3>2, EnvelopeSigned
  <2> QED
    BY <1>2, <2>1, <2>2
<1>10. SignedEvents(next, key, existing) = Evidence(next, key, [f EXCEPT ![2] = NoAnchor])
  BY <1>2, <1>8, <1>9 DEF Evidence
<1> QED
  BY <1>10 DEF Secured, Made, existing

\* Attaching an anchor changes one anchor.
LEMMA AttachedIs ==
  ASSUME NEW r \in Receipts, NEW o \in Operationals(r), NEW key \in Keys, NEW f \in Anchorings, NEW owner,
         NEW i \in 1..Size(o), NEW a \in Anchors
  PROVE  /\ Attached(Made(o, key, f, owner), i, a) = Made(o, key, [f EXCEPT ![i] = a], owner)
         /\ [f EXCEPT ![i] = a] \in Anchorings
<1> DEFINE b == Made(o, key, f, owner)
           g == [f EXCEPT ![i] = a]
<1>1. b.operational = o /\ b.ownership = owner /\ b.receipt.extensionPublicKey = key
      /\ b.receipt.events = Evidence(o, key, f) /\ o.receiptId = r /\ i \in {1, 2}
  BY MadeParts, OperationalParts
<1>2. g \in Anchorings /\ g[i] = a /\ \A j \in {1, 2} \ {i} : g[j] = f[j]
  BY <1>1 DEF Anchorings
<1> HIDE DEF g
<1>3. [Evidence(o, key, f) EXCEPT ![i].chainAnchor = a] = Evidence(o, key, g)
  <2>1. Evidence(o, key, f) = [j \in 1..Size(o) |-> Envelope(r, j, Signature(r, j, key), f[j])]
    BY <1>1 DEF Evidence
  <2>2. [Evidence(o, key, f)[i] EXCEPT !.chainAnchor = a] = Envelope(r, i, Signature(r, i, key), a)
    BY <2>1, EnvelopeParts
  <2>3. [Evidence(o, key, f) EXCEPT ![i].chainAnchor = a]
          = [j \in 1..Size(o) |-> IF j = i THEN Envelope(r, i, Signature(r, i, key), a)
                                  ELSE Envelope(r, j, Signature(r, j, key), f[j])]
    BY <2>1, <2>2
  <2>4. \A j \in 1..Size(o) : j \in {1, 2}
    BY OperationalParts
  <2>5. Evidence(o, key, g) = [j \in 1..Size(o) |-> Envelope(r, j, Signature(r, j, key), g[j])]
    BY <1>1 DEF Evidence
  <2> QED
    BY <1>2, <2>3, <2>4, <2>5
<1> QED
  BY <1>1, <1>2, <1>3 DEF Attached, Made, g

\* An import closes the context of an unconfirmed receipt and relabels the bundle.
LEMMA ImportedIs ==
  ASSUME NEW r \in Receipts, NEW o \in Operationals(r), NEW key \in Keys, NEW f, NEW owner, NEW mine,
         BundleVerifies(Imported(Made(o, key, f, owner), mine))
  PROVE  Imported(Made(o, key, f, owner), mine)
           = Made(Closed(r), key, f, IF mine = key THEN "LOCAL" ELSE "IMPORTED")
<1> DEFINE b == Made(o, key, f, owner)
           label == IF mine = key THEN "LOCAL" ELSE "IMPORTED"
<1>1. b.receipt.extensionPublicKey = key /\ b.operational = o /\ o.receiptId = r
  BY MadeParts, OperationalParts
<1>2. Imported(b, mine) = [operational |-> [o EXCEPT !.context = "CLOSED"], ownership |-> label,
                           receipt |-> b.receipt]
  <2>1. b = [operational |-> o, ownership |-> owner, receipt |-> b.receipt]
    BY DEF Made, Bundle
  <2> HIDE DEF b
  <2>2. [b EXCEPT !.operational.context = "CLOSED"]
          = [operational |-> [o EXCEPT !.context = "CLOSED"], ownership |-> owner, receipt |-> b.receipt]
    BY <2>1
  <2>3. Imported(b, mine) = [[b EXCEPT !.operational.context = "CLOSED"] EXCEPT !.ownership = label]
    BY <1>1 DEF Imported
  <2> QED
    BY <2>2, <2>3
<1>3. [o EXCEPT !.context = "CLOSED"] = Operational(r, "CLOSED", o.confirmed)
  BY DEF Operationals, Operational, Closed, Confirmed
<1>4. ~o.confirmed
  <2>1. Imported(b, mine).operational = Operational(r, "CLOSED", o.confirmed)
    BY <1>2, <1>3
  <2>2. OperationalParses(Operational(r, "CLOSED", o.confirmed))
    BY <2>1 DEF BundleVerifies, BundleParses
  <2> QED
    BY <2>2, OperationalParts DEF OperationalParses, Operational
<1>5. [o EXCEPT !.context = "CLOSED"] = Closed(r)
  BY <1>3, <1>4, OperationalParts DEF Closed
<1>6. Evidence(Closed(r), key, f) = Evidence(o, key, f)
  BY <1>1, <1>4 DEF Evidence, Size, Closed, Operational
<1>7. Made(Closed(r), key, f, label).receipt = b.receipt
  BY <1>1, <1>6, MadeParts DEF Closed, Operational
<1>8. Made(Closed(r), key, f, label) = [operational |-> Closed(r), ownership |-> label,
                                        receipt |-> Made(Closed(r), key, f, label).receipt]
  BY DEF Made, Bundle
<1> QED
  BY <1>2, <1>5, <1>7, <1>8

-----------------------------------------------------------------------------
(* The inductive invariant *)

IsMade(b, r) ==
  \E o \in Operationals(r), key \in Keys, f \in Anchorings, owner \in {"LOCAL", "IMPORTED"} :
    b = Made(o, key, f, owner)

\* What holds of a bundle where it is kept.
GoodHeld(p, r) ==
  LET b == held[p][r] IN
  /\ r \in captured
  /\ IsMade(b, r)
  /\ b.ownership = "LOCAL" <=> b.receipt.extensionPublicKey = identity[p]
  /\ \A e \in EventsOf(b) : Anchored(e) => <<p, e.eventHash, e.chainAnchor>> \in proved

Active(p, r) == r \in DOMAIN held[p] /\ held[p][r].operational.context = "ACTIVE"

ReceiptInv ==
  /\ identity \in [Profiles -> Keys \cup {NoKey}]
  /\ captured \subseteq Receipts
  /\ DOMAIN held = Profiles
  /\ \A p \in Profiles : \A r \in DOMAIN held[p] : GoodHeld(p, r)
  /\ \A b \in packages : \E r \in captured : IsMade(b, r)
  /\ \A p, q \in Profiles, r \in Receipts : Active(p, r) /\ Active(q, r) => p = q

\* What a step may make of the bundle p keeps of r, if it touches it.
Became(p, r) ==
  /\ GoodHeld(p, r)'
  /\ Active(p, r)' => r \notin captured \/ Active(p, r)
  /\ r \in DOMAIN held[p] => \/ Grows(held[p][r], held'[p][r])
                             \/ \E b \in packages : Import(p, b)

\* The evidence of a bundle.
LEMMA MadeEvents ==
  ASSUME NEW r \in Receipts, NEW o \in Operationals(r), NEW key \in Keys, NEW f, NEW owner
  PROVE  LET events == Made(o, key, f, owner).receipt.events IN
         /\ DOMAIN events = 1..Size(o)
         /\ \A i \in 1..Size(o) : /\ events[i].chainAnchor = f[i]
                                  /\ events[i].eventHash = Hash(r, StageOf(i))
                                  /\ events[i].extensionSignature = Signature(r, i, key)
         /\ ~Some(events, Anchored) => \A i \in 1..Size(o) : f[i] = NoAnchor
<1> DEFINE events == Made(o, key, f, owner).receipt.events
<1>1. events = Evidence(o, key, f)
  BY MadeParts
<1> HIDE DEF events
<1>2. /\ DOMAIN events = 1..Size(o)
      /\ \A i \in 1..Size(o) : /\ events[i].chainAnchor = f[i]
                               /\ events[i].eventHash = Hash(r, StageOf(i))
                               /\ events[i].extensionSignature = Signature(r, i, key)
  BY <1>1, EvidenceIsChain, EnvelopeParts
<1>3. ~Some(events, Anchored) => \A i \in 1..Size(o) : f[i] = NoAnchor
  BY <1>2 DEF Some, Anchored
<1> QED
  BY <1>2, <1>3 DEF events

\* The anchors of a bundle p verified, for P the anchors verified so far.
LEMMA AnchorsOf ==
  ASSUME NEW r \in Receipts, NEW o \in Operationals(r), NEW key \in Keys, NEW f, NEW owner, NEW p, NEW P
  PROVE  (\A e \in EventsOf(Made(o, key, f, owner)) :
            Anchored(e) => <<p, e.eventHash, e.chainAnchor>> \in P)
         <=> (\A i \in 1..Size(o) : f[i] # NoAnchor => <<p, Hash(r, StageOf(i)), f[i]>> \in P)
<1> DEFINE b == Made(o, key, f, owner)
           events == b.receipt.events
<1>1. /\ DOMAIN events = 1..Size(o)
      /\ \A i \in 1..Size(o) : /\ events[i].chainAnchor = f[i]
                               /\ events[i].eventHash = Hash(r, StageOf(i))
  BY MadeEvents
<1> HIDE DEF b
<1>2. EventsOf(b) = {events[i] : i \in 1..Size(o)}
  BY <1>1 DEF EventsOf
<1> HIDE DEF events
<1>3. (\A e \in EventsOf(b) : Anchored(e) => <<p, e.eventHash, e.chainAnchor>> \in P)
        <=> (\A i \in 1..Size(o) : f[i] # NoAnchor => <<p, Hash(r, StageOf(i)), f[i]>> \in P)
  BY <1>1, <1>2 DEF Anchored
<1> QED
  BY <1>3 DEF b

LEMMA MadeGrows ==
  ASSUME NEW r \in Receipts, NEW o \in Operationals(r), NEW next \in Operationals(r), Size(o) <= Size(next),
         NEW key \in Keys, NEW f \in Anchorings, NEW g \in Anchorings, NEW owner,
         \A i \in 1..Size(o) : f[i] # NoAnchor => g[i] = f[i]
  PROVE  Grows(Made(o, key, f, "LOCAL"), Made(next, key, g, owner))
<1> DEFINE b == Made(o, key, f, "LOCAL")
           c == Made(next, key, g, owner)
<1>1. Size(o) \in {1, 2} /\ Size(next) \in {1, 2}
  BY OperationalParts
<1>2. /\ b.ownership = "LOCAL" /\ b.receipt.extensionPublicKey = key /\ c.receipt.extensionPublicKey = key
  BY MadeParts
<1>3. /\ DOMAIN b.receipt.events = 1..Size(o)
      /\ \A i \in 1..Size(o) : /\ b.receipt.events[i].chainAnchor = f[i]
                               /\ b.receipt.events[i].eventHash = Hash(r, StageOf(i))
                               /\ b.receipt.events[i].extensionSignature = Signature(r, i, key)
  BY MadeEvents
<1>4. /\ DOMAIN c.receipt.events = 1..Size(next)
      /\ \A i \in 1..Size(next) : /\ c.receipt.events[i].chainAnchor = g[i]
                                  /\ c.receipt.events[i].eventHash = Hash(r, StageOf(i))
                                  /\ c.receipt.events[i].extensionSignature = Signature(r, i, key)
  BY MadeEvents
<1> HIDE DEF b, c
<1>5. \A i \in 1..Size(o) : i \in 1..Size(next)
  BY <1>1
<1>6. Grows(b, c)
  BY <1>2, <1>3, <1>4, <1>5 DEF Grows, Anchored
<1> QED
  BY <1>6 DEF b, c

\* What Keep does when the bundle is one this code makes.
LEMMA KeepMade ==
  ASSUME DOMAIN held = Profiles, NEW p \in Profiles, NEW r, NEW b, ParseBundle(b) = b, Keep(p, r, b)
  PROVE  /\ DOMAIN held' = Profiles
         /\ held'[p][r] = b /\ DOMAIN held'[p] = DOMAIN held[p] \cup {r}
         /\ \A x \in DOMAIN held[p] \ {r} : held'[p][x] = held[p][x]
         /\ \A q \in Profiles \ {p} : held'[q] = held[q]
BY DEF Keep, With

LEMMA DropLeaves ==
  ASSUME DOMAIN held = Profiles, NEW p \in Profiles, NEW R, Drop(p, R)
  PROVE  /\ DOMAIN held' = Profiles
         /\ DOMAIN held'[p] = DOMAIN held[p] \ R
         /\ \A x \in DOMAIN held'[p] : held'[p][x] = held[p][x]
         /\ \A q \in Profiles \ {p} : held'[q] = held[q]
BY DEF Drop

\* A bundle that is not touched stays good.
LEMMA GoodStays ==
  ASSUME NEW p \in Profiles, NEW r \in DOMAIN held[p], GoodHeld(p, r), held'[p][r] = held[p][r],
         captured \subseteq captured', proved \subseteq proved',
         held[p][r].receipt.extensionPublicKey = identity[p]
           <=> held[p][r].receipt.extensionPublicKey = identity'[p]
  PROVE  GoodHeld(p, r)'
BY DEF GoodHeld

\* A bundle that is made from what it says is good.
LEMMA MadeIsGood ==
  ASSUME NEW p \in Profiles, NEW r \in Receipts, r \in captured', NEW o \in Operationals(r), NEW key \in Keys,
         NEW f \in Anchorings, NEW owner \in {"LOCAL", "IMPORTED"},
         held'[p][r] = Made(o, key, f, owner),
         owner = "LOCAL" <=> key = identity'[p],
         \A i \in 1..Size(o) : f[i] # NoAnchor => <<p, Hash(r, StageOf(i)), f[i]>> \in proved'
  PROVE  GoodHeld(p, r)'
<1> DEFINE b == Made(o, key, f, owner)
<1>1. b.ownership = owner /\ b.receipt.extensionPublicKey = key
  BY MadeParts
<1>2. \A e \in EventsOf(b) : Anchored(e) => <<p, e.eventHash, e.chainAnchor>> \in proved'
  BY AnchorsOf
<1>3. IsMade(b, r)
  BY DEF IsMade
<1> HIDE DEF b
<1>4. held'[p][r] = b
  BY DEF b
<1> QED
  BY <1>1, <1>2, <1>3, <1>4 DEF GoodHeld

-----------------------------------------------------------------------------
(* Every step is one of profile p *)

StepOf(p) ==
  /\ identity' \in [Profiles -> Keys \cup {NoKey}]
  /\ captured \subseteq captured' /\ captured' \subseteq Receipts /\ proved \subseteq proved'
  /\ DOMAIN held' = Profiles
  /\ \A q \in Profiles \ {p} : held'[q] = held[q] /\ identity'[q] = identity[q]
  /\ \A r \in DOMAIN held'[p] :
       \/ /\ r \in DOMAIN held[p] /\ held'[p][r] = held[p][r]
          /\ held[p][r].receipt.extensionPublicKey = identity[p]
               <=> held[p][r].receipt.extensionPublicKey = identity'[p]
       \/ Became(p, r)
  /\ \A b \in packages' : b \in packages \/ \E q \in Profiles : \E r \in DOMAIN held[q] : b = held[q][r]

\* A step that keeps one new bundle, of receipt r.
LEMMA KeepStep ==
  ASSUME ReceiptInv, NEW p \in Profiles, NEW r \in Receipts, NEW b, ParseBundle(b) = b, Keep(p, r, b),
         held'[p][r] = b => Became(p, r),
         UNCHANGED <<identity, packages>>,
         captured \subseteq captured', captured' \subseteq Receipts, proved \subseteq proved'
  PROVE  StepOf(p)
<1>1. /\ DOMAIN held' = Profiles
      /\ held'[p][r] = b /\ DOMAIN held'[p] = DOMAIN held[p] \cup {r}
      /\ \A x \in DOMAIN held[p] \ {r} : held'[p][x] = held[p][x]
      /\ \A q \in Profiles \ {p} : held'[q] = held[q]
  BY KeepMade DEF ReceiptInv
<1> QED
  BY <1>1 DEF StepOf, ReceiptInv

LEMMA HeldParts ==
  ASSUME ReceiptInv, NEW p \in Profiles, NEW r \in DOMAIN held[p]
  PROVE  /\ r \in Receipts /\ r \in captured
         /\ \E o \in Operationals(r), key \in Keys, f \in Anchorings, owner \in {"LOCAL", "IMPORTED"} :
              /\ held[p][r] = Made(o, key, f, owner)
              /\ owner = "LOCAL" <=> key = identity[p]
              /\ \A i \in 1..Size(o) : f[i] # NoAnchor => <<p, Hash(r, StageOf(i)), f[i]>> \in proved
<1>1. r \in Receipts /\ r \in captured /\ GoodHeld(p, r)
  BY DEF ReceiptInv, GoodHeld
<1>2. PICK o \in Operationals(r), key \in Keys, f \in Anchorings, owner \in {"LOCAL", "IMPORTED"} :
        held[p][r] = Made(o, key, f, owner)
  BY <1>1 DEF GoodHeld, IsMade
<1>3. owner = "LOCAL" <=> key = identity[p]
  <2>1. held[p][r].ownership = owner /\ held[p][r].receipt.extensionPublicKey = key
    BY <1>2, MadeParts
  <2> QED
    BY <1>1, <2>1 DEF GoodHeld
<1>4. \A i \in 1..Size(o) : f[i] # NoAnchor => <<p, Hash(r, StageOf(i)), f[i]>> \in proved
  <2>1. \A e \in EventsOf(Made(o, key, f, owner)) : Anchored(e) => <<p, e.eventHash, e.chainAnchor>> \in proved
    BY <1>1, <1>2 DEF GoodHeld
  <2> DEFINE events == Made(o, key, f, owner).receipt.events
  <2>2. /\ DOMAIN events = 1..Size(o)
        /\ \A i \in 1..Size(o) : events[i].chainAnchor = f[i] /\ events[i].eventHash = Hash(r, StageOf(i))
    BY <1>1, MadeEvents
  <2>3. \A i \in DOMAIN events : events[i] \in EventsOf(Made(o, key, f, owner))
    BY DEF EventsOf
  <2> HIDE DEF events
  <2> QED
    BY <2>1, <2>2, <2>3 DEF Anchored
<1> QED
  BY <1>1, <1>2, <1>3, <1>4

LEMMA EnrollStep ==
  ASSUME ReceiptInv, NEW p \in Profiles, Enroll(p) PROVE StepOf(p)
<1>1. PICK k \in Keys :
        /\ \A q \in Profiles : \A r \in DOMAIN held[q] : held[q][r].receipt.extensionPublicKey # k
        /\ identity' = [identity EXCEPT ![p] = k]
  BY DEF Enroll
<1>2. identity[p] = NoKey /\ UNCHANGED <<held, packages, captured, proved>>
  BY DEF Enroll
<1>3. \A r \in DOMAIN held[p] : held[p][r].receipt.extensionPublicKey # NoKey
  <2>1. ASSUME NEW r \in DOMAIN held[p] PROVE held[p][r].receipt.extensionPublicKey # NoKey
    <3>1. PICK o \in Operationals(r), key \in Keys, f \in Anchorings, owner \in {"LOCAL", "IMPORTED"} :
            held[p][r] = Made(o, key, f, owner)
      BY HeldParts
    <3>2. held[p][r].receipt.extensionPublicKey = key
      BY <3>1, MadeParts
    <3> QED
      BY <3>2, PrivateReceiptAssumption
  <2> QED
    BY <2>1
<1>4. identity' \in [Profiles -> Keys \cup {NoKey}] /\ identity'[p] = k
      /\ \A q \in Profiles \ {p} : identity'[q] = identity[q]
  BY <1>1 DEF ReceiptInv
<1> QED
  BY <1>1, <1>2, <1>3, <1>4 DEF StepOf, ReceiptInv

LEMMA DeleteStep ==
  ASSUME ReceiptInv, NEW p \in Profiles, NEW r, Delete(p, r) PROVE StepOf(p)
<1>1. /\ DOMAIN held' = Profiles
      /\ DOMAIN held'[p] = DOMAIN held[p] \ {r}
      /\ \A x \in DOMAIN held'[p] : held'[p][x] = held[p][x]
      /\ \A q \in Profiles \ {p} : held'[q] = held[q]
  BY DropLeaves DEF ReceiptInv, Delete
<1> QED
  BY <1>1 DEF StepOf, ReceiptInv, Delete

LEMMA DeleteAllStep ==
  ASSUME ReceiptInv, NEW p \in Profiles, DeleteAll(p) PROVE StepOf(p)
<1>1. /\ DOMAIN held' = Profiles
      /\ DOMAIN held'[p] = {}
      /\ \A q \in Profiles \ {p} : held'[q] = held[q]
  <2>1. DOMAIN held = Profiles /\ Drop(p, DOMAIN held[p])
    BY DEF ReceiptInv, DeleteAll
  <2> QED
    BY <2>1, DropLeaves
<1>2. identity' \in [Profiles -> Keys \cup {NoKey}] /\ \A q \in Profiles \ {p} : identity'[q] = identity[q]
  BY DEF ReceiptInv, DeleteAll
<1> QED
  BY <1>1, <1>2 DEF StepOf, ReceiptInv, DeleteAll

LEMMA ExportStep ==
  ASSUME ReceiptInv, NEW p \in Profiles, NEW r \in DOMAIN held[p], Export(p, r) PROVE StepOf(p)
<1>1. packages' = packages \cup {held[p][r]} /\ UNCHANGED <<identity, held, captured, proved>>
  BY DEF Export
<1> QED
  BY <1>1 DEF StepOf, ReceiptInv

LEMMA CaptureStep ==
  ASSUME ReceiptInv, NEW p \in Profiles, NEW r \in Receipts, Capture(p, r) PROVE StepOf(p)
<1> DEFINE o == Operational(r, "ACTIVE", FALSE)
           b == Made(o, identity[p], Bare, "LOCAL")
<1>1. identity[p] \in Keys /\ o \in Operationals(r) /\ Bare \in Anchorings
  BY DEF ReceiptInv, Capture, Operationals, Bare, Anchorings
<1>2. Keep(p, r, b) /\ ParseBundle(b) = b
  BY <1>1, SecuredAnew, MadeVerifies DEF Capture
<1>3. captured' = captured \cup {r} /\ r \notin captured /\ UNCHANGED <<identity, packages, proved>>
  BY DEF Capture
<1>4. r \notin DOMAIN held[p]
  BY <1>3, HeldParts
<1>5. \A i \in 1..Size(o) : Bare[i] = NoAnchor
  <2> HIDE DEF o
  <2>1. Size(o) \in {1, 2}
    BY <1>1, OperationalParts
  <2>2. \A i \in 1..Size(o) : i \in {1, 2}
    BY <2>1
  <2> QED
    BY <2>2 DEF Bare
<1> HIDE DEF o
<1>6. ASSUME held'[p][r] = b PROVE Became(p, r)
  <2>1. GoodHeld(p, r)'
    BY <1>1, <1>3, <1>5, <1>6, MadeIsGood
  <2> QED
    BY <1>3, <1>4, <2>1 DEF Became
<1> HIDE DEF b
<1> QED
  BY <1>2, <1>3, <1>6, KeepStep DEF ReceiptInv

\* Closing and confirming need an open context of a receipt of this profile.
LEMMA UpdateStep ==
  ASSUME ReceiptInv, NEW p \in Profiles, NEW r \in DOMAIN held[p], NEW next \in {Closed(r), Confirmed(r)},
         Update(p, r, next)
  PROVE  StepOf(p)
<1>1. PICK o \in Operationals(r), key \in Keys, f \in Anchorings, owner \in {"LOCAL", "IMPORTED"} :
        /\ held[p][r] = Made(o, key, f, owner)
        /\ owner = "LOCAL" <=> key = identity[p]
        /\ \A i \in 1..Size(o) : f[i] # NoAnchor => <<p, Hash(r, StageOf(i)), f[i]>> \in proved
  BY HeldParts
<1>2. r \in Receipts /\ r \in captured
  BY HeldParts
<1> DEFINE g == [f EXCEPT ![2] = NoAnchor]
           b == Made(next, key, g, "LOCAL")
<1>3. held[p][r].operational = o /\ held[p][r].ownership = owner /\ held[p][r].receipt.extensionPublicKey = key
  BY <1>1, MadeParts
<1>4. o.context = "ACTIVE" /\ owner = "LOCAL" /\ key = identity[p]
  BY <1>3 DEF Update, MayUpdate
<1>5. next \in Operationals(r) /\ g \in Anchorings /\ g[1] = f[1] /\ g[2] = NoAnchor
  <2>1. next \in Operationals(r)
    BY DEF Operationals
  <2>2. g \in Anchorings /\ g[1] = f[1] /\ g[2] = NoAnchor
    BY DEF Anchorings
  <2> QED
    BY <2>1, <2>2
<1>6. Keep(p, r, b) /\ ParseBundle(b) = b
  <2>1. Keep(p, r, Secured(next, key, EventsOf(Made(o, key, f, owner))))
    BY <1>1, <1>4 DEF Update
  <2>2. Secured(next, key, EventsOf(Made(o, key, f, owner))) = b
    BY <1>2, <1>4, SecuredAgain
  <2>3. ParseBundle(b) = b
    BY <1>2, <1>5, MadeVerifies
  <2> QED
    BY <2>1, <2>2, <2>3
<1>7. UNCHANGED <<identity, packages, captured, proved>>
  BY DEF Update
<1>8. Size(o) = 1 /\ Size(next) \in {1, 2}
  BY <1>2, <1>4, <1>5, OperationalParts
<1>9. \A i \in 1..Size(next) : g[i] # NoAnchor => <<p, Hash(r, StageOf(i)), g[i]>> \in proved
  <2>1. \A i \in 1..Size(next) : i = 1 \/ i = 2
    BY <1>8
  <2>2. f[1] # NoAnchor => <<p, Hash(r, StageOf(1)), f[1]>> \in proved
    BY <1>1, <1>8
  <2> QED
    BY <1>5, <2>1, <2>2
<1>10. \A i \in 1..Size(o) : g[i] = f[i]
  <2>1. \A i \in 1..Size(o) : i = 1
    BY <1>8
  <2> QED
    BY <1>5, <2>1
<1> HIDE DEF g
<1>11. ASSUME held'[p][r] = b PROVE Became(p, r)
  <2>1. GoodHeld(p, r)'
    BY <1>2, <1>4, <1>5, <1>7, <1>9, <1>11, MadeIsGood
  <2>2. Active(p, r)
    BY <1>3, <1>4 DEF Active
  <2>3. Grows(held[p][r], held'[p][r])
    <3>1. Grows(Made(o, key, f, "LOCAL"), b)
      BY <1>2, <1>5, <1>8, <1>10, MadeGrows
    <3> QED
      BY <1>1, <1>4, <1>11, <3>1
  <2> QED
    BY <2>1, <2>2, <2>3 DEF Became
<1> HIDE DEF b
<1> QED
  BY <1>2, <1>6, <1>7, <1>11, KeepStep DEF ReceiptInv

LEMMA AttachStep ==
  ASSUME ReceiptInv, NEW p \in Profiles, NEW r \in DOMAIN held[p], NEW i \in DOMAIN held[p][r].receipt.events,
         NEW a \in Anchors, Attach(p, r, i, a)
  PROVE  StepOf(p)
<1>1. PICK o \in Operationals(r), key \in Keys, f \in Anchorings, owner \in {"LOCAL", "IMPORTED"} :
        /\ held[p][r] = Made(o, key, f, owner)
        /\ owner = "LOCAL" <=> key = identity[p]
        /\ \A j \in 1..Size(o) : f[j] # NoAnchor => <<p, Hash(r, StageOf(j)), f[j]>> \in proved
  BY HeldParts
<1>2. r \in Receipts /\ r \in captured
  BY HeldParts
<1> DEFINE g == [f EXCEPT ![i] = a]
           b == Made(o, key, g, "LOCAL")
<1>3. held[p][r].operational = o /\ held[p][r].ownership = owner
  BY <1>1, MadeParts
<1>4. owner = "LOCAL" /\ key = identity[p]
  BY <1>1, <1>3 DEF Attach
<1>5. i \in 1..Size(o) /\ held[p][r].receipt.events[i].chainAnchor = f[i]
      /\ held[p][r].receipt.events[i].eventHash = Hash(r, StageOf(i))
  <2>1. /\ DOMAIN Made(o, key, f, owner).receipt.events = 1..Size(o)
        /\ \A j \in 1..Size(o) : /\ Made(o, key, f, owner).receipt.events[j].chainAnchor = f[j]
                                 /\ Made(o, key, f, owner).receipt.events[j].eventHash = Hash(r, StageOf(j))
    BY <1>2, MadeEvents
  <2> HIDE DEF b, g
  <2> QED
    BY <1>1, <2>1
<1>6. f[i] \in {NoAnchor, a}
  BY <1>5 DEF Attach, MayAttach
<1>7. Attached(held[p][r], i, a) = b /\ g \in Anchorings
  BY <1>1, <1>2, <1>4, <1>5, AttachedIs
<1>8. Keep(p, r, b) /\ ParseBundle(b) = b
  BY <1>2, <1>7, MadeVerifies DEF Attach
<1>9. /\ UNCHANGED <<identity, packages, captured>>
      /\ proved' = proved \cup {<<p, Hash(r, StageOf(i)), a>>}
  BY <1>5 DEF Attach
<1>10. g[i] = a /\ \A j \in 1..Size(o) : j # i => g[j] = f[j]
  BY <1>2, <1>5, OperationalParts DEF Anchorings
<1>11. Size(o) <= Size(o)
  BY <1>2, OperationalParts
<1> HIDE DEF g
<1>12. ASSUME held'[p][r] = b PROVE Became(p, r)
  <2>1. \A j \in 1..Size(o) : g[j] # NoAnchor => <<p, Hash(r, StageOf(j)), g[j]>> \in proved'
    BY <1>1, <1>9, <1>10
  <2>2. GoodHeld(p, r)'
    BY <1>2, <1>4, <1>7, <1>9, <1>12, <2>1, MadeIsGood
  <2>3. Active(p, r)' => Active(p, r)
    <3>1. b.operational = o
      BY MadeParts
    <3> HIDE DEF b
    <3> QED
      BY <1>3, <1>12, <3>1 DEF Active
  <2>4. Grows(held[p][r], held'[p][r])
    <3>1. Grows(Made(o, key, f, "LOCAL"), b)
      BY <1>2, <1>6, <1>7, <1>10, <1>11, MadeGrows
    <3> QED
      BY <1>1, <1>4, <1>12, <3>1
  <2> QED
    BY <2>2, <2>3, <2>4 DEF Became
<1> HIDE DEF b
<1> QED
  BY <1>2, <1>8, <1>9, <1>12, KeepStep DEF ReceiptInv

LEMMA ImportStep ==
  ASSUME ReceiptInv, NEW p \in Profiles, NEW c \in packages, Import(p, c) PROVE StepOf(p)
<1>1. PICK r \in captured : IsMade(c, r)
  BY DEF ReceiptInv
<1>2. PICK o \in Operationals(r), key \in Keys, f \in Anchorings, label \in {"LOCAL", "IMPORTED"} :
        c = Made(o, key, f, label)
  BY <1>1 DEF IsMade
<1>3. r \in Receipts
  BY <1>1 DEF ReceiptInv
<1>4. c.receipt.receiptId = r /\ o.receiptId = r
  BY <1>2, <1>3, MadeParts, OperationalParts
<1> DEFINE owner == IF identity[p] = key THEN "LOCAL" ELSE "IMPORTED"
           b == Made(Closed(r), key, f, owner)
<1>5. Keep(p, r, Imported(c, identity[p])) /\ BundleVerifies(Imported(c, identity[p]))
  BY <1>4 DEF Import, Keep
<1>6. Imported(c, identity[p]) = b
  BY <1>2, <1>3, <1>5, ImportedIs
<1>7. Closed(r) \in Operationals(r) /\ Closed(r).context = "CLOSED" /\ Size(Closed(r)) = 1
  BY DEF Operationals, Closed, Operational, Size
<1>8. Keep(p, r, b) /\ ParseBundle(b) = b
  BY <1>3, <1>5, <1>6, <1>7, MadeVerifies
<1>9. UNCHANGED <<identity, packages, captured, proved>>
  BY DEF Import
<1>10. f[1] = NoAnchor
  <2>1. ~Some(c.receipt.events, Anchored)
    BY DEF Import, MayImport
  <2>2. 1 \in 1..Size(o)
    BY <1>3, OperationalParts
  <2> QED
    BY <1>2, <1>3, <2>1, <2>2, MadeEvents
<1>11. \A i \in 1..Size(Closed(r)) : f[i] = NoAnchor
  BY <1>7, <1>10
<1>12. owner \in {"LOCAL", "IMPORTED"} /\ (owner = "LOCAL" <=> key = identity'[p])
  BY <1>9
<1>13. b.operational = Closed(r)
  BY MadeParts
<1> HIDE DEF owner
<1>14. ASSUME held'[p][r] = b PROVE Became(p, r)
  <2>1. GoodHeld(p, r)'
    BY <1>1, <1>3, <1>7, <1>9, <1>11, <1>12, <1>14, MadeIsGood
  <2>2. ~Active(p, r)'
    <3> HIDE DEF b
    <3> QED
      BY <1>7, <1>13, <1>14 DEF Active
  <2> QED
    BY <2>1, <2>2 DEF Became
<1> HIDE DEF b
<1> QED
  BY <1>3, <1>8, <1>9, <1>14, KeepStep DEF ReceiptInv

LEMMA NextSteps ==
  ASSUME ReceiptInv, Next PROVE \E p \in Profiles : StepOf(p)
<1>1. PICK p \in Profiles :
        \/ Enroll(p) \/ DeleteAll(p) \/ Owned(p)
        \/ \E r \in Receipts : Capture(p, r)
        \/ \E b \in packages : Import(p, b)
  BY DEF Next
<1>2. CASE Enroll(p)
  BY <1>2, EnrollStep
<1>3. CASE DeleteAll(p)
  BY <1>3, DeleteAllStep
<1>4. CASE Owned(p)
  <2>1. PICK r \in DOMAIN held[p] :
          \/ CloseContext(p, r) \/ Confirm(p, r) \/ Export(p, r) \/ Delete(p, r)
          \/ \E i \in DOMAIN held[p][r].receipt.events, a \in Anchors : Attach(p, r, i, a)
    BY <1>4 DEF Owned
  <2>2. CASE CloseContext(p, r)
    BY <2>2, UpdateStep DEF CloseContext
  <2>3. CASE Confirm(p, r)
    BY <2>3, UpdateStep DEF Confirm
  <2>4. CASE Export(p, r)
    BY <2>4, ExportStep
  <2>5. CASE Delete(p, r)
    BY <2>5, DeleteStep
  <2>6. ASSUME NEW i \in DOMAIN held[p][r].receipt.events, NEW a \in Anchors, Attach(p, r, i, a)
        PROVE  StepOf(p)
    BY <2>6, AttachStep
  <2> QED
    BY <2>1, <2>2, <2>3, <2>4, <2>5, <2>6
<1>5. ASSUME NEW r \in Receipts, Capture(p, r) PROVE StepOf(p)
  BY <1>5, CaptureStep
<1>6. ASSUME NEW b \in packages, Import(p, b) PROVE StepOf(p)
  BY <1>6, ImportStep
<1> QED
  BY <1>1, <1>2, <1>3, <1>4, <1>5, <1>6

LEMMA ReceiptInvInit ==
  ASSUME Init PROVE ReceiptInv
BY DEF Init, ReceiptInv, Empty, Active

LEMMA ReceiptInvStep ==
  ASSUME ReceiptInv, NEW p \in Profiles, StepOf(p) PROVE ReceiptInv'
<1>1. /\ identity' \in [Profiles -> Keys \cup {NoKey}]
      /\ captured' \subseteq Receipts /\ captured \subseteq captured' /\ DOMAIN held' = Profiles
      /\ proved \subseteq proved'
      /\ \A q \in Profiles \ {p} : held'[q] = held[q] /\ identity'[q] = identity[q]
  BY DEF StepOf
<1>2. ASSUME NEW q \in Profiles, NEW r \in DOMAIN held'[q] PROVE GoodHeld(q, r)'
  <2>1. CASE q = p
    <3>1. CASE /\ r \in DOMAIN held[p] /\ held'[p][r] = held[p][r]
               /\ held[p][r].receipt.extensionPublicKey = identity[p]
                    <=> held[p][r].receipt.extensionPublicKey = identity'[p]
      BY <1>1, <2>1, <3>1, GoodStays DEF ReceiptInv
    <3>2. CASE Became(p, r)
      BY <2>1, <3>2 DEF Became
    <3> QED
      BY <1>2, <2>1, <3>1, <3>2 DEF StepOf
  <2>2. CASE q # p
    <3>1. held'[q] = held[q] /\ identity'[q] = identity[q]
      BY <1>1, <2>2
    <3> QED
      BY <1>1, <1>2, <3>1, GoodStays DEF ReceiptInv
  <2> QED
    BY <2>1, <2>2
<1>3. ASSUME NEW b \in packages' PROVE \E r \in captured' : IsMade(b, r)
  <2>1. CASE b \in packages
    BY <1>1, <2>1 DEF ReceiptInv
  <2>2. ASSUME NEW q \in Profiles, NEW r \in DOMAIN held[q], b = held[q][r]
        PROVE  \E x \in captured' : IsMade(b, x)
    <3>1. GoodHeld(q, r)
      BY DEF ReceiptInv
    <3> QED
      BY <1>1, <2>2, <3>1 DEF GoodHeld
  <2> QED
    BY <1>3, <2>1, <2>2 DEF StepOf
\* Only profile p opens a context, and only of a receipt nobody keeps.
<1>4. ASSUME NEW r \in Receipts, Active(p, r)' PROVE r \notin captured \/ Active(p, r)
  <2>1. r \in DOMAIN held'[p] /\ held'[p][r].operational.context = "ACTIVE"
    BY <1>4 DEF Active
  <2>2. CASE r \in DOMAIN held[p] /\ held'[p][r] = held[p][r]
    BY <2>1, <2>2 DEF Active
  <2>3. CASE Became(p, r)
    BY <1>4, <2>3 DEF Became
  <2> QED
    BY <2>1, <2>2, <2>3 DEF StepOf
<1>5. ASSUME NEW q \in Profiles \ {p}, NEW r \in Receipts, Active(q, r)' PROVE Active(q, r) /\ r \in captured
  <2>1. Active(q, r)
    BY <1>1, <1>5 DEF Active
  <2> QED
    BY <2>1, HeldParts DEF Active
<1>6. ASSUME NEW q \in Profiles, NEW s \in Profiles, NEW r \in Receipts, Active(q, r)', Active(s, r)'
      PROVE  q = s
  <2>1. CASE q = p /\ s # p
    BY <1>4, <1>5, <1>6, <2>1 DEF ReceiptInv
  <2>2. CASE q # p /\ s = p
    BY <1>4, <1>5, <1>6, <2>2 DEF ReceiptInv
  <2>3. CASE q # p /\ s # p
    BY <1>5, <1>6, <2>3 DEF ReceiptInv
  <2> QED
    BY <2>1, <2>2, <2>3
<1> QED
  BY <1>1, <1>2, <1>3, <1>6 DEF ReceiptInv

LEMMA ReceiptInvUnchanged ==
  ASSUME ReceiptInv, UNCHANGED vars PROVE ReceiptInv'
BY DEF ReceiptInv, GoodHeld, Active, vars

LEMMA ReceiptInvInductive == Spec => []ReceiptInv
<1>1. ReceiptInv /\ [Next]_vars => ReceiptInv'
  BY NextSteps, ReceiptInvStep, ReceiptInvUnchanged
<1> QED
  BY <1>1, ReceiptInvInit, PTL DEF Spec

-----------------------------------------------------------------------------
(* What the invariant says *)

LEMMA AllHeldAre ==
  ASSUME ReceiptInv, NEW pr \in AllHeld
  PROVE  pr[1] \in Profiles /\ pr[2] \in Receipts /\ pr[2] \in DOMAIN held[pr[1]]
BY DEF AllHeld

\* The owner's next step on a bundle that this code made.
LEMMA OwnerGoesOn ==
  ASSUME ReceiptInv, NEW p \in Profiles, NEW r \in DOMAIN held[p]
  PROVE  LET b == held[p][r]  key == identity[p] IN
         /\ BundleVerifies(b)
         /\ b.receipt.extensionPublicKey = key =>
              /\ b.operational.context = "ACTIVE" =>
                   \A o \in {Closed(r), Confirmed(r)} :
                     MayUpdate(b, o, key) /\ BundleVerifies(Secured(o, key, EventsOf(b)))
              /\ b.ownership = "LOCAL"
              /\ \A i \in DOMAIN b.receipt.events, a \in Anchors :
                   ~Anchored(b.receipt.events[i]) => BundleVerifies(Attached(b, i, a))
<1>1. PICK o \in Operationals(r), key \in Keys, f \in Anchorings, owner \in {"LOCAL", "IMPORTED"} :
        /\ held[p][r] = Made(o, key, f, owner)
        /\ owner = "LOCAL" <=> key = identity[p]
  BY HeldParts
<1>2. r \in Receipts
  BY HeldParts
<1> DEFINE b == Made(o, key, f, owner)
<1>3. b.operational = o /\ b.ownership = owner /\ b.receipt.extensionPublicKey = key
  BY MadeParts
<1>4. BundleVerifies(b)
  BY <1>2, MadeVerifies
<1>5. o.receiptId = r
  BY <1>2, OperationalParts
<1>6. ASSUME key = identity[p], o.context = "ACTIVE", NEW next \in {Closed(r), Confirmed(r)}
      PROVE  MayUpdate(b, next, key) /\ BundleVerifies(Secured(next, key, EventsOf(b)))
  <2>1. next \in Operationals(r) /\ [f EXCEPT ![2] = NoAnchor] \in Anchorings
    BY DEF Operationals, Anchorings
  <2>2. next.receiptId = r
    BY <1>2, <2>1, OperationalParts
  <2>3. MayUpdate(b, next, key)
    BY <1>1, <1>3, <1>5, <1>6, <2>2 DEF MayUpdate
  <2>4. BundleVerifies(Secured(next, key, EventsOf(b)))
    BY <1>2, <1>6, <2>1, SecuredAgain, MadeVerifies
  <2> QED
    BY <2>3, <2>4
<1>7. ASSUME NEW i \in DOMAIN b.receipt.events, NEW a \in Anchors PROVE BundleVerifies(Attached(b, i, a))
  <2>1. i \in 1..Size(o)
    <3>1. DOMAIN Made(o, key, f, owner).receipt.events = 1..Size(o)
      BY <1>2, MadeEvents
    <3> QED
      BY <1>7, <3>1
  <2>2. Attached(b, i, a) = Made(o, key, [f EXCEPT ![i] = a], owner)
    BY <1>2, <2>1, AttachedIs
  <2>3. BundleVerifies(Made(o, key, [f EXCEPT ![i] = a], owner))
    BY <1>2, MadeVerifies
  <2> QED
    BY <2>2, <2>3
<1> HIDE DEF b
<1>8. held[p][r] = b
  BY <1>1 DEF b
<1> QED
  BY <1>1, <1>3, <1>4, <1>6, <1>7, <1>8

(* An owner is never shut out of a receipt: what a profile keeps verifies  *)
(* whenever it is read (verifyPrivateReceiptBundle), and closing,          *)
(* confirming (createOrUpdatePrivateReceiptBundle) and anchoring           *)
(* (attachVerifiedChainAnchor) its own receipt give a bundle that verifies *)
(* too, although the list of checks is built and compared anew each time.  *)
THEOREM OwnersGoOn == Spec => []OwnerCanGoOn
<1>1. ReceiptInv => OwnerCanGoOn
  BY AllHeldAre, OwnerGoesOn DEF OwnerCanGoOn
<1> QED
  BY <1>1, ReceiptInvInductive, PTL

(* Every anchor a profile shows was verified on the chain by that profile  *)
(* for exactly that event: importedPrivateReceiptBundle takes no package   *)
(* that claims one, and nothing else carries an anchor along.              *)
THEOREM AnchorsProved == Spec => []AnchorsAreProved
<1>1. ReceiptInv => AnchorsAreProved
  <2>1. ASSUME ReceiptInv, NEW pr \in AllHeld PROVE GoodHeld(pr[1], pr[2])
    BY <2>1, AllHeldAre DEF ReceiptInv
  <2> QED
    BY <2>1 DEF GoodHeld, AnchorsAreProved
<1> QED
  BY <1>1, ReceiptInvInductive, PTL

(* A bundle is labelled LOCAL exactly when the installation's present key  *)
(* signed it: through captures, updates, imports of any package, and the   *)
(* delete-all and new key of generateInstallationIdentity.                 *)
THEOREM OwnershipTrue == Spec => []OwnershipIsTrue
<1>1. ReceiptInv => OwnershipIsTrue
  <2>1. ASSUME ReceiptInv, NEW pr \in AllHeld PROVE GoodHeld(pr[1], pr[2])
    BY <2>1, AllHeldAre DEF ReceiptInv
  <2> QED
    BY <2>1 DEF GoodHeld, OwnershipIsTrue
<1> QED
  BY <1>1, ReceiptInvInductive, PTL

(* No two installations have a receipt's confirmation context open: an     *)
(* import closes it, and a capture has an id no package carries.           *)
THEOREM ContextsOpenOnce == Spec => []OneOpenContext
<1>1. ReceiptInv => OneOpenContext
  <2>1. ASSUME ReceiptInv, NEW r \in Receipts
        PROVE  Cardinality({p \in Profiles : r \in DOMAIN held[p]
                                             /\ held[p][r].operational.context = "ACTIVE"}) <= 1
    <3> DEFINE Open == {p \in Profiles : r \in DOMAIN held[p]
                                         /\ held[p][r].operational.context = "ACTIVE"}
    <3>1. \A p, q \in Open : p = q
      BY <2>1 DEF ReceiptInv, Active
    <3> HIDE DEF Open
    <3>2. Open = {} \/ \E p \in Open : Open = {p}
      BY <3>1
    <3>3. Cardinality(Open) <= 1
      <4>1. CASE Open = {}
        BY <4>1, FS_EmptySet
      <4>2. ASSUME NEW p \in Open, Open = {p} PROVE Cardinality(Open) <= 1
        <5>1. Cardinality({p}) = 1
          BY FS_Singleton
        <5> QED
          BY <4>2, <5>1
      <4> QED
        BY <3>2, <4>1, <4>2
    <3> QED
      BY <3>3 DEF Open
  <2> QED
    BY <2>1 DEF OneOpenContext
<1> QED
  BY <1>1, ReceiptInvInductive, PTL

LEMMA GrowsItself ==
  ASSUME NEW b PROVE Grows(b, b)
BY DEF Grows

(* Evidence only grows: whatever is done to a receipt a profile keeps,     *)
(* short of deleting it or importing it again, leaves its key and every    *)
(* signature and anchor of its events as they are (signedEventsForOpera-   *)
(* tional keeps the envelopes, attachVerifiedChainAnchor the anchors), and *)
(* a receipt of another installation does not change at all.               *)
THEOREM EvidenceGrows == Spec => EvidenceStays
<1> DEFINE Stays(pr) ==
      \/ pr[2] \notin DOMAIN held'[pr[1]]
      \/ Grows(held[pr[1]][pr[2]], held'[pr[1]][pr[2]])
      \/ \E b \in packages : Import(pr[1], b)
<1>1. ASSUME ReceiptInv, Next, NEW pr \in AllHeld PROVE Stays(pr)
  <2> DEFINE q == pr[1]
             r == pr[2]
  <2>1. q \in Profiles /\ r \in DOMAIN held[q]
    BY <1>1, AllHeldAre
  <2>2. PICK p \in Profiles : StepOf(p)
    BY <1>1, NextSteps
  <2> HIDE DEF q, r
  <2>3. \/ r \notin DOMAIN held'[q]
        \/ Grows(held[q][r], held'[q][r])
        \/ \E b \in packages : Import(q, b)
    <3>1. CASE q # p
      <4>1. held'[q] = held[q]
        BY <2>1, <2>2, <3>1 DEF StepOf
      <4> QED
        BY <4>1, GrowsItself
    <3>2. CASE q = p /\ r \in DOMAIN held'[p]
      <4>1. CASE held'[p][r] = held[p][r]
        BY <3>2, <4>1, GrowsItself
      <4>2. CASE Became(p, r)
        BY <2>1, <3>2, <4>2 DEF Became
      <4> QED
        BY <2>2, <3>2, <4>1, <4>2 DEF StepOf
    <3> QED
      BY <3>1, <3>2
  <2> QED
    BY <2>3 DEF q, r
<1>2. ReceiptInv /\ [Next]_vars => [\A pr \in AllHeld : Stays(pr)]_vars
  BY <1>1
<1> QED
  BY <1>2, ReceiptInvInductive, PTL DEF Spec, EvidenceStays
=============================================================================
