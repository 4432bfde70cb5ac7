--------------------------- MODULE Registry_proofs ---------------------------
(***************************************************************************)
(* Theorems about the registry contract, and about the verifier that reads *)
(* it, for any sets of receipts, hashes and keys.  History is the          *)
(* inductive invariant: the compact state of a receipt describes its logs, *)
(* the set of anchored hashes describes all logs, and each log is a chain. *)
(* None of the three is inductive alone: a new event links to the stored   *)
(* tip, which has to be the last logged hash, and is new to the anchored   *)
(* set, which has to hold all of them.                                     *)
(*                                                                         *)
(* The browser's verdict is exact because of that whole history: a stage   *)
(* fixes the place of an event in its chain (so the count the verifier     *)
(* expects is the one logged), stages only grow along a chain (so a later  *)
(* stored stage does not refuse an earlier event), and a hash is logged    *)
(* once (so the discovered transaction is unique).                         *)
(***************************************************************************)
EXTENDS Verifier, TLAPS


\* A call leaves storage in the shape the Solidity types give it.
LEMMA CallKeepsTypes ==
  ASSUME TypeOK, NEW r \in Request, AnchorEvent(r)
  PROVE  TypeOK'
<1>1. r.receiptId \in ReceiptIds /\ r.eventHash \in Hashes /\ r.extensionKeyHash \in Keys
  BY DEF AnchorEvent, Accepts, ValidForReceipt, Request
<1>2. r.stage \in ReceiptStage
  BY DEF Request
<1>3. receipts[r.receiptId] \in ReceiptState
  BY <1>1 DEF TypeOK
<1>4. receipts' \in [ReceiptIds -> ReceiptState]
  BY <1>1, <1>2, <1>3 DEF TypeOK, AnchorEvent, ReceiptState
<1>5. anchoredEvents' \in SUBSET Hashes
  BY <1>1 DEF TypeOK, AnchorEvent
<1>6. log' \in [ReceiptIds -> Seq(Request)]
  BY <1>1 DEF TypeOK, AnchorEvent
<1> QED
  BY <1>4, <1>5, <1>6 DEF TypeOK

\* Contract storage always has that shape.
THEOREM TypeCorrect == Spec => []TypeOK
<1>1. Init => TypeOK
  BY DEF Init, TypeOK, UnknownReceipt, ReceiptState, ReceiptStage
<1>2. TypeOK /\ [Next]_registryVars => TypeOK'
  BY CallKeepsTypes DEF Next, TypeOK, registryVars
<1> QED
  BY <1>1, <1>2, PTL DEF Spec

History == StateMatchesLog /\ HashAnchoredOnce /\ LogIsEventChain

\* What one successful call of anchorEvent does to the logs: it appends the
\* request to the log of its receipt and to no other.
LEMMA AppendsOneEvent ==
  ASSUME TypeOK, NEW r \in Request, AnchorEvent(r)
  PROVE  /\ r.receiptId \in ReceiptIds
         /\ log'[r.receiptId] = Append(log[r.receiptId], r)
         /\ Len(log'[r.receiptId]) = Len(log[r.receiptId]) + 1
         /\ log'[r.receiptId][Len(log[r.receiptId]) + 1] = r
         /\ \A i \in 1..Len(log[r.receiptId]) : log'[r.receiptId][i] = log[r.receiptId][i]
         /\ \A id \in ReceiptIds \ {r.receiptId} : log'[id] = log[id] /\ receipts'[id] = receipts[id]
         /\ \A id \in ReceiptIds : Len(log[id]) \in Nat /\ log[id] \in Seq(Request)
<1>1. r.receiptId \in ReceiptIds
  BY DEF AnchorEvent, Accepts, ValidForReceipt, Request
<1> QED
  BY <1>1 DEF AnchorEvent, TypeOK

\* The stored state of every receipt still describes its log after a call.
LEMMA CallKeepsState ==
  ASSUME TypeOK, StateMatchesLog, NEW r \in Request, AnchorEvent(r)
  PROVE  StateMatchesLog'
<1> DEFINE id0 == r.receiptId
           n == Len(log[id0])
<1> USE AppendsOneEvent
<1>1. ASSUME NEW id \in ReceiptIds, id # id0 PROVE LogDescribes(id)'
  BY <1>1 DEF StateMatchesLog, LogDescribes, UnknownReceipt
<1>2. LogDescribes(id0)'
  <2>1. LogDescribes(id0) /\ n \in Nat
    BY DEF StateMatchesLog
  <2>2. receipts[id0] \in ReceiptState
    BY DEF TypeOK
  <2>3. receipts'[id0] =
          [latestEventHash  |-> r.eventHash,
           extensionKeyHash |-> IF receipts[id0].currentStage = "NONE" THEN r.extensionKeyHash
                                                        ELSE receipts[id0].extensionKeyHash,
           eventCount       |-> receipts[id0].eventCount + 1,
           currentStage     |-> r.stage]
    BY DEF AnchorEvent, TypeOK
  <2>4. r.stage # "NONE"
    BY DEF AnchorEvent, Accepts, ValidForReceipt, ValidFirst, ValidNext, IsValidTransition
  <2>5. n > 0 => r.extensionKeyHash = receipts[id0].extensionKeyHash /\ receipts[id0].currentStage # "NONE"
    BY <2>1 DEF AnchorEvent, Accepts, ValidForReceipt, ValidNext, LogDescribes
  <2>6. n = 0 => receipts[id0].currentStage = "NONE"
    BY <2>1 DEF LogDescribes, UnknownReceipt
  <2>7. receipts'[id0].extensionKeyHash = r.extensionKeyHash
    BY <2>1, <2>3, <2>5, <2>6
  <2>8. ASSUME NEW i \in 1..(n + 1)
        PROVE  log'[id0][i].extensionKeyHash = r.extensionKeyHash /\ log'[id0][i].receiptId = id0
    <3>1. CASE i = n + 1
      BY <3>1
    <3>2. CASE i \in 1..n
      <4>1. log'[id0][i] = log[id0][i]
        BY <3>2
      <4>2. log[id0][i].extensionKeyHash = receipts[id0].extensionKeyHash /\ log[id0][i].receiptId = id0
        BY <3>2, <2>1 DEF LogDescribes
      <4> QED
        BY <3>2, <4>1, <4>2, <2>5, <2>1
    <3> QED
      BY <3>1, <3>2, <2>1
  <2>9. receipts'[id0].eventCount = n + 1
    BY <2>1, <2>3 DEF LogDescribes
  <2>10. Len(log'[id0]) = n + 1 /\ log'[id0][n + 1] = r
    OBVIOUS
  <2> QED
    BY <2>1, <2>3, <2>4, <2>7, <2>8, <2>9, <2>10 DEF LogDescribes
<1> QED
  BY <1>1, <1>2 DEF StateMatchesLog

\* After a call every hash is still logged once, and the anchored set is still
\* the set of logged hashes: the new hash was not in it, so no log has it.
LEMMA CallKeepsHashes ==
  ASSUME TypeOK, HashAnchoredOnce, NEW r \in Request, AnchorEvent(r)
  PROVE  HashAnchoredOnce'
<1> DEFINE id0 == r.receiptId
           n == Len(log[id0])
<1> USE AppendsOneEvent
<1>1. r.eventHash \in Hashes /\ r.eventHash \notin anchoredEvents
  BY DEF AnchorEvent, Accepts, ValidForReceipt, Request
<1>2. anchoredEvents' = anchoredEvents \cup {r.eventHash}
  BY DEF AnchorEvent
<1>3. ASSUME NEW id \in ReceiptIds, NEW i \in DOMAIN log[id]
      PROVE  log[id][i].eventHash # r.eventHash
  BY <1>1, <1>3 DEF HashAnchoredOnce
<1>4. ASSUME NEW id \in ReceiptIds, NEW i \in DOMAIN log'[id]
      PROVE  \/ i \in DOMAIN log[id] /\ log'[id][i] = log[id][i]
             \/ id = id0 /\ i = n + 1 /\ log'[id][i] = r
  <2>1. CASE id # id0
    BY <2>1, <1>4
  <2>2. CASE id = id0
    <3>1. i \in 1..(n + 1)
      BY <2>2, <1>4
    <3> QED
      BY <3>1, <2>2
  <2> QED
    BY <2>1, <2>2
<1>5. ASSUME NEW id1 \in ReceiptIds, NEW id2 \in ReceiptIds,
             NEW i \in DOMAIN log'[id1], NEW j \in DOMAIN log'[id2],
             log'[id1][i].eventHash = log'[id2][j].eventHash
      PROVE  id1 = id2 /\ i = j
  <2>1. CASE i \in DOMAIN log[id1] /\ log'[id1][i] = log[id1][i]
    <3>1. log'[id2][j] # r
      BY <2>1, <1>5, <1>3
    <3>2. j \in DOMAIN log[id2] /\ log'[id2][j] = log[id2][j]
      BY <3>1, <1>4
    <3> QED
      BY <2>1, <3>2, <1>5 DEF HashAnchoredOnce
  <2>2. CASE id1 = id0 /\ i = n + 1 /\ log'[id1][i] = r
    <3>1. ~(j \in DOMAIN log[id2] /\ log'[id2][j] = log[id2][j])
      BY <2>2, <1>5, <1>3
    <3> QED
      BY <2>2, <3>1, <1>4
  <2> QED
    BY <2>1, <2>2, <1>4
<1>6. ASSUME NEW h \in Hashes
      PROVE  h \in anchoredEvents' <=>
               \E id \in ReceiptIds : \E i \in DOMAIN log'[id] : log'[id][i].eventHash = h
  <2>1. ASSUME h \in anchoredEvents'
        PROVE  \E id \in ReceiptIds : \E i \in DOMAIN log'[id] : log'[id][i].eventHash = h
    <3>1. CASE h = r.eventHash
      <4>1. n + 1 \in DOMAIN log'[id0]
        OBVIOUS
      <4> QED
        BY <3>1, <4>1
    <3>2. CASE h \in anchoredEvents
      <4>1. PICK id \in ReceiptIds : \E i \in DOMAIN log[id] : log[id][i].eventHash = h
        BY <3>2 DEF HashAnchoredOnce
      <4>2. \A i \in DOMAIN log[id] : i \in DOMAIN log'[id] /\ log'[id][i] = log[id][i]
        OBVIOUS
      <4> QED
        BY <4>1, <4>2
    <3> QED
      BY <3>1, <3>2, <2>1, <1>2
  <2>2. ASSUME NEW id \in ReceiptIds, NEW i \in DOMAIN log'[id], log'[id][i].eventHash = h
        PROVE  h \in anchoredEvents'
    BY <2>2, <1>4, <1>2 DEF HashAnchoredOnce
  <2> QED
    BY <2>1, <2>2
<1> QED
  BY <1>5, <1>6 DEF HashAnchoredOnce

\* The contract's transition check implies the one of receipt-core.
LEMMA TransitionsAgree ==
  ASSUME NEW from \in ReceiptStage, NEW to \in ReceiptStage
  PROVE  /\ IsValidTransition(from, to) => Lifecycle!IsValidTransition(from, to)
         /\ Lifecycle!IsValidTransition("NONE", "ATTEMPTED")
BY DEF IsValidTransition, Lifecycle!IsValidTransition, Lifecycle!AllowedTransitions,
       Lifecycle!AuthorityStage, ReceiptStage

\* After a call every log is still a chain receipt-core accepts: the new event is
\* new, links to the last logged hash, follows its stage and has the stored key.
LEMMA CallKeepsChain ==
  ASSUME TypeOK, History, NEW r \in Request, AnchorEvent(r)
  PROVE  LogIsEventChain'
<1> DEFINE id0 == r.receiptId
           n == Len(log[id0])
<1> USE AppendsOneEvent
<1>1. ASSUME NEW id \in ReceiptIds, id # id0 PROVE Lifecycle!ValidateEventChain(log'[id])
  BY <1>1 DEF History, LogIsEventChain
<1>2. ASSUME NEW i \in 1..(n + 1)
      PROVE  /\ \A j \in 1..(i - 1) : log'[id0][j].eventHash # log'[id0][i].eventHash
             /\ log'[id0][i].previousEventHash = Lifecycle!LinkBefore(log'[id0], i)
             /\ i > 1 => /\ log'[id0][i].previousEventHash # Zero
                         /\ log'[id0][i].receiptId = log'[id0][1].receiptId
             /\ Lifecycle!IsValidTransition(Lifecycle!StageBefore(log'[id0], i), log'[id0][i].stage)
  <2>1. CASE i \in 1..n
    <3>1. Lifecycle!ValidateEventChain(log[id0]) /\ i \in DOMAIN log[id0]
      BY <2>1 DEF History, LogIsEventChain
    <3>2. n \in Nat /\ \A j \in 1..n : log'[id0][j] = log[id0][j]
      OBVIOUS
    <3>3. /\ log'[id0][i] = log[id0][i] /\ log'[id0][1] = log[id0][1]
          /\ \A j \in 1..(i - 1) : log'[id0][j] = log[id0][j]
          /\ i # 1 => log'[id0][i - 1] = log[id0][i - 1]
      BY <2>1, <3>2
    <3>4. /\ Lifecycle!LinkBefore(log'[id0], i) = Lifecycle!LinkBefore(log[id0], i)
          /\ Lifecycle!StageBefore(log'[id0], i) = Lifecycle!StageBefore(log[id0], i)
      BY <3>3 DEF Lifecycle!LinkBefore, Lifecycle!StageBefore
    <3>5. /\ \A j \in 1..(i - 1) : log[id0][j].eventHash # log[id0][i].eventHash
          /\ log[id0][i].previousEventHash = Lifecycle!LinkBefore(log[id0], i)
          /\ i > 1 => /\ log[id0][i].previousEventHash # Zero
                      /\ log[id0][i].receiptId = log[id0][1].receiptId
          /\ Lifecycle!IsValidTransition(Lifecycle!StageBefore(log[id0], i), log[id0][i].stage)
      BY <3>1 DEF Lifecycle!ValidateEventChain
    <3> HIDE DEF id0
    <3> QED
      BY <3>3, <3>4, <3>5
  <2>2. CASE i = n + 1
    <3>1. log'[id0][i] = r /\ n \in Nat
      BY <2>2
    <3>2. LogDescribes(id0)
      BY DEF History, StateMatchesLog
    <3>3. \A j \in 1..n : log'[id0][j] = log[id0][j] /\ log[id0][j].eventHash # r.eventHash
      <4>1. r.eventHash \in Hashes /\ r.eventHash \notin anchoredEvents
        BY DEF AnchorEvent, Accepts, ValidForReceipt, Request
      <4>2. DOMAIN log[id0] = 1..n
        OBVIOUS
      <4> QED
        BY <4>1, <4>2 DEF History, HashAnchoredOnce
    <3>4. CASE n = 0
      <4>1. r.previousEventHash = Zero /\ r.stage = "ATTEMPTED"
        BY <3>2, <3>4 DEF LogDescribes, UnknownReceipt, AnchorEvent, Accepts, ValidForReceipt, ValidFirst
      <4> QED
        BY <2>2, <3>1, <3>4, <4>1, TransitionsAgree DEF Lifecycle!LinkBefore, Lifecycle!StageBefore, ReceiptStage
    <3>5. CASE n > 0
      <4>1. ValidNext(receipts[id0], r)
        BY <3>2, <3>5 DEF LogDescribes, AnchorEvent, Accepts, ValidForReceipt
      <4>2. /\ r.previousEventHash # Zero
            /\ r.previousEventHash = log[id0][n].eventHash
            /\ IsValidTransition(log[id0][n].stage, r.stage)
        BY <3>2, <3>5, <4>1 DEF LogDescribes, ValidNext
      <4>3. log[id0][n].stage \in ReceiptStage /\ r.stage \in ReceiptStage
        <5>1. log[id0][n] \in Request
          BY <3>1, <3>5
        <5> QED
          BY <5>1 DEF Request
      <4>4. Lifecycle!IsValidTransition(log[id0][n].stage, r.stage)
        BY <4>2, <4>3, TransitionsAgree
      <4>5. log'[id0][1].receiptId = id0
        BY <3>2, <3>3, <3>5 DEF LogDescribes
      <4>6. i - 1 = n /\ log'[id0][n] = log[id0][n] /\ i # 1
        BY <2>2, <3>1, <3>3, <3>5
      <4> QED
        BY <2>2, <3>1, <3>3, <4>2, <4>4, <4>5, <4>6 DEF Lifecycle!LinkBefore, Lifecycle!StageBefore
    <3> QED
      BY <3>1, <3>4, <3>5
  <2> QED
    BY <2>1, <2>2
<1>3. Lifecycle!ValidateEventChain(log'[id0])
  <2>1. DOMAIN log'[id0] = 1..(n + 1)
    OBVIOUS
  <2> QED
    BY <1>2, <2>1 DEF Lifecycle!ValidateEventChain
<1>4. ASSUME NEW id \in ReceiptIds, NEW i \in DOMAIN log'[id]
      PROVE  log'[id][i].extensionKeyHash = log'[id][1].extensionKeyHash
  <2>1. LogDescribes(id)'
    BY CallKeepsState DEF History, StateMatchesLog
  <2>2. DOMAIN log'[id] = 1..Len(log'[id]) /\ Len(log'[id]) \in Nat
    OBVIOUS
  <2>3. \A j \in 1..Len(log'[id]) : log'[id][j].extensionKeyHash = receipts'[id].extensionKeyHash
    BY <2>1 DEF LogDescribes
  <2>4. i \in 1..Len(log'[id]) /\ 1 \in 1..Len(log'[id])
    BY <1>4, <2>2
  <2> QED
    BY <2>3, <2>4
<1> QED
  BY <1>1, <1>3, <1>4 DEF LogIsEventChain

\* For every set of receipts, hashes and keys, and whoever calls the contract: the
\* stored state of each receipt is what its logs say (anchorEvent, getReceipt).
THEOREM HistoryCorrect == Spec => [](StateMatchesLog /\ HashAnchoredOnce /\ LogIsEventChain)
<1>1. Init => History
  <2> SUFFICES ASSUME Init PROVE History
    OBVIOUS
  <2>1. \A id \in ReceiptIds : log[id] = <<>> /\ Len(log[id]) = 0 /\ receipts[id] = UnknownReceipt
    BY DEF Init
  <2>2. StateMatchesLog
    BY <2>1 DEF StateMatchesLog, LogDescribes, UnknownReceipt
  <2>3. HashAnchoredOnce /\ LogIsEventChain
    BY <2>1 DEF Init, HashAnchoredOnce, LogIsEventChain, Lifecycle!ValidateEventChain
  <2> QED
    BY <2>2, <2>3 DEF History
<1>2. TypeOK /\ History /\ [Next]_registryVars => History'
  <2> SUFFICES ASSUME TypeOK, History, [Next]_registryVars PROVE History'
    OBVIOUS
  <2>1. ASSUME NEW r \in Request, AnchorEvent(r) PROVE History'
    BY <2>1, CallKeepsState, CallKeepsHashes, CallKeepsChain DEF History
  <2>2. CASE UNCHANGED registryVars
    BY <2>2 DEF registryVars, History, StateMatchesLog, LogDescribes, HashAnchoredOnce, LogIsEventChain,
                UnknownReceipt
  <2> QED
    BY <2>1, <2>2 DEF Next
<1>3. History => StateMatchesLog /\ HashAnchoredOnce /\ LogIsEventChain
  BY DEF History
<1> QED
  BY <1>1, <1>2, <1>3, TypeCorrect, PTL DEF Spec

\* No call changes the key of a receipt, takes an event back, or touches a receipt
\* an authority has accepted or rejected.
THEOREM HistoryOnlyGrows == Spec => ReceiptOnlyGrows
<1> DEFINE Grows(id) ==
      /\ receipts[id].currentStage # "NONE" =>
           receipts'[id].extensionKeyHash = receipts[id].extensionKeyHash
      /\ receipts'[id].eventCount >= receipts[id].eventCount
      /\ IsTerminal(receipts[id].currentStage) => receipts'[id] = receipts[id]
<1>1. TypeOK /\ [Next]_registryVars => [\A id \in ReceiptIds : Grows(id)]_registryVars
  <2> SUFFICES ASSUME TypeOK, NEW r \in Request, AnchorEvent(r), NEW id \in ReceiptIds PROVE Grows(id)
    BY DEF Next
  <2>1. receipts[id] \in ReceiptState
    BY DEF TypeOK
  <2>2. CASE id # r.receiptId
    BY <2>1, <2>2, AppendsOneEvent DEF ReceiptState
  <2>3. CASE id = r.receiptId
    BY <2>1, <2>3 DEF AnchorEvent, Accepts, ValidForReceipt, ValidNext, TypeOK, ReceiptState, IsTerminal
  <2> QED
    BY <2>2, <2>3
<1> QED
  BY <1>1, TypeCorrect, PTL DEF Spec, ReceiptOnlyGrows

\* For any calls of anchorEvent by anyone, the logs of every receipt are a chain
\* receipt-core accepts, under one extension key, and the compact state is the
\* chain's last event, its length and its key.
THEOREM ChainsCorrect == Spec => [](LogIsEventChain /\ StateMatchesLog)
  BY HistoryCorrect, PTL

\* The contract's rules for the next event of a receipt are receipt-core's rules
\* for a chain one longer, as long as the logs are the chain the stored tip
\* describes.
LEMMA ExtendsTheChain ==
  ASSUME TypeOK, History, NEW id \in ReceiptIds, NEW r \in Request,
         r.receiptId = id, r.eventHash \notin anchoredEvents \cup {Zero}, r.extensionKeyHash # Zero,
         (r.authorityKeyHash # Zero) <=> (r.stage \in Lifecycle!AuthorityStage),
         log[id] # <<>> => r.extensionKeyHash = log[id][1].extensionKeyHash
  PROVE  Accepts(r) <=> Lifecycle!ValidateEventChain(Append(log[id], r))
<1> DEFINE n == Len(log[id])
           s == Append(log[id], r)
           Follows == /\ r.previousEventHash = Lifecycle!LinkBefore(s, n + 1)
                      /\ n > 0 => r.previousEventHash # Zero /\ r.receiptId = log[id][1].receiptId
                      /\ Lifecycle!IsValidTransition(Lifecycle!StageBefore(s, n + 1), r.stage)
<1>1. /\ log[id] \in Seq(Request) /\ n \in Nat /\ DOMAIN log[id] = 1..n
      /\ DOMAIN s = 1..(n + 1) /\ s[n + 1] = r /\ \A i \in 1..n : s[i] = log[id][i]
  BY DEF TypeOK
<1>2. LogDescribes(id) /\ Lifecycle!ValidateEventChain(log[id])
  BY DEF History, StateMatchesLog, LogIsEventChain
<1>3. \A j \in 1..n : log[id][j].eventHash # r.eventHash
  BY <1>1 DEF History, HashAnchoredOnce, Request
<1> HIDE DEF s, n
<1>4. Lifecycle!ValidateEventChain(s) <=> Follows
  <2>1. ASSUME NEW i \in 1..n
        PROVE  /\ \A j \in 1..(i - 1) : s[j].eventHash # s[i].eventHash
               /\ s[i].previousEventHash = Lifecycle!LinkBefore(s, i)
               /\ i > 1 => s[i].previousEventHash # Zero /\ s[i].receiptId = s[1].receiptId
               /\ Lifecycle!IsValidTransition(Lifecycle!StageBefore(s, i), s[i].stage)
    <3>1. /\ s[i] = log[id][i] /\ s[1] = log[id][1] /\ (i # 1 => s[i - 1] = log[id][i - 1])
          /\ \A j \in 1..(i - 1) : s[j] = log[id][j]
      BY <1>1, <2>1
    <3> QED
      BY <1>1, <1>2, <3>1 DEF Lifecycle!ValidateEventChain, Lifecycle!LinkBefore, Lifecycle!StageBefore
  <2>2. \A j \in 1..((n + 1) - 1) : s[j].eventHash # s[n + 1].eventHash
    BY <1>1, <1>3
  <2>3. n > 0 => s[1] = log[id][1]
    BY <1>1
  <2>4. ASSUME Follows PROVE Lifecycle!ValidateEventChain(s)
    <3>1. SUFFICES ASSUME NEW i \in 1..(n + 1)
                   PROVE  /\ \A j \in 1..(i - 1) : s[j].eventHash # s[i].eventHash
                          /\ s[i].previousEventHash = Lifecycle!LinkBefore(s, i)
                          /\ i > 1 => s[i].previousEventHash # Zero /\ s[i].receiptId = s[1].receiptId
                          /\ Lifecycle!IsValidTransition(Lifecycle!StageBefore(s, i), s[i].stage)
      BY <1>1 DEF Lifecycle!ValidateEventChain
    <3>2. CASE i \in 1..n
      BY <2>1, <3>2
    <3>3. CASE i = n + 1
      BY <1>1, <2>2, <2>3, <2>4, <3>3
    <3> QED
      BY <1>1, <3>2, <3>3
  <2>5. ASSUME Lifecycle!ValidateEventChain(s) PROVE Follows
    <3>1. n + 1 \in DOMAIN s
      BY <1>1
    <3> QED
      BY <1>1, <2>3, <2>5, <3>1 DEF Lifecycle!ValidateEventChain
  <2> QED
    BY <2>4, <2>5
<1>5. r.receiptId # Zero /\ ValidAuthorityKey(r.stage, r.authorityKeyHash)
  BY ZeroAssumption DEF ValidAuthorityKey, IsTerminal, Lifecycle!AuthorityStage
<1>6. Accepts(r) <=> IF receipts[id].currentStage = "NONE" THEN ValidFirst(r) ELSE ValidNext(receipts[id], r)
  BY <1>5 DEF Accepts, ValidForReceipt
<1>7. CASE n = 0
  <2>1. receipts[id].currentStage = "NONE"
    BY <1>2, <1>7 DEF LogDescribes, UnknownReceipt, n
  <2>2. Follows <=> r.previousEventHash = Zero /\ r.stage = "ATTEMPTED"
    BY <1>7 DEF Lifecycle!LinkBefore, Lifecycle!StageBefore, Lifecycle!IsValidTransition,
                Lifecycle!AllowedTransitions
  <2> QED
    BY <1>4, <1>6, <2>1, <2>2 DEF ValidFirst, s
<1>8. CASE n > 0
  <2>1. /\ receipts[id].currentStage # "NONE"
        /\ receipts[id].latestEventHash = log[id][n].eventHash
        /\ receipts[id].currentStage = log[id][n].stage
        /\ log[id][1].extensionKeyHash = receipts[id].extensionKeyHash
        /\ log[id][1].receiptId = id
    BY <1>1, <1>2, <1>8 DEF LogDescribes, n
  <2>2. r.extensionKeyHash = receipts[id].extensionKeyHash
    BY <1>1, <1>8, <2>1
  <2>3. s[n] = log[id][n] /\ n + 1 # 1 /\ (n + 1) - 1 = n
    BY <1>1, <1>8
  <2>4. receipts[id].currentStage \in ReceiptStage /\ r.stage \in ReceiptStage
    BY DEF TypeOK, ReceiptState, Request
  <2>5. Lifecycle!IsValidTransition(receipts[id].currentStage, r.stage)
          <=> ~IsTerminal(receipts[id].currentStage) /\ IsValidTransition(receipts[id].currentStage, r.stage)
    BY <2>1, <2>4 DEF Lifecycle!IsValidTransition, Lifecycle!AllowedTransitions, Lifecycle!AuthorityStage,
                      IsValidTransition, IsTerminal, ReceiptStage
  <2>6. Lifecycle!LinkBefore(s, n + 1) = receipts[id].latestEventHash
        /\ Lifecycle!StageBefore(s, n + 1) = receipts[id].currentStage
    BY <2>1, <2>3 DEF Lifecycle!LinkBefore, Lifecycle!StageBefore
  <2>7. Follows <=> ValidNext(receipts[id], r)
    BY <1>8, <2>1, <2>2, <2>5, <2>6 DEF ValidNext
  <2> QED
    BY <1>4, <1>6, <2>1, <2>7 DEF s
<1> QED
  BY <1>1, <1>7, <1>8

\* Contract and off-chain library agree on every next event, for any number of
\* receipts and calls (anchorEvent, validateEventChain).
THEOREM RulesAgree == Spec => []AgreesWithReceiptCore
<1>1. TypeOK /\ StateMatchesLog /\ HashAnchoredOnce /\ LogIsEventChain => AgreesWithReceiptCore
  BY ExtendsTheChain DEF AgreesWithReceiptCore, History
<1> QED
  BY <1>1, TypeCorrect, HistoryCorrect, PTL

-----------------------------------------------------------------------------
(* The verifier *)


\* What receipt-core's rules say of one event of a log and the one before it.
LEMMA ChainLink ==
  ASSUME TypeOK, LogIsEventChain, NEW id \in ReceiptIds, NEW n \in 1..Len(log[id])
  PROVE  /\ log[id][n] \in Request
         /\ log[id][n].stage \in Lifecycle!EventStage
         /\ n = 1 => log[id][n].stage = "ATTEMPTED"
         /\ n > 1 => /\ n - 1 \in 1..Len(log[id])
                     /\ log[id][n].stage \in Lifecycle!AllowedTransitions[log[id][n - 1].stage]
<1>1. log[id] \in Seq(Request) /\ n \in DOMAIN log[id] /\ Len(log[id]) \in Nat
  BY DEF TypeOK
<1>2. log[id][n] \in Request
  BY <1>1
<1>3. Lifecycle!IsValidTransition(Lifecycle!StageBefore(log[id], n), log[id][n].stage)
  BY <1>1 DEF LogIsEventChain, Lifecycle!ValidateEventChain
<1>4. CASE n = 1
  BY <1>2, <1>3, <1>4 DEF Lifecycle!IsValidTransition, Lifecycle!StageBefore,
     Lifecycle!AllowedTransitions, Lifecycle!EventStage
<1>5. CASE n > 1
  <2>1. n - 1 \in 1..Len(log[id]) /\ n # 1
    BY <1>1, <1>5
  <2>2. log[id][n - 1].stage \in ReceiptStage
    <3>1. log[id][n - 1] \in Request
      BY <1>1, <2>1
    <3> QED
      BY <3>1 DEF Request
  <2>3. log[id][n].stage \in Lifecycle!AllowedTransitions[log[id][n - 1].stage]
    BY <1>3, <2>1 DEF Lifecycle!IsValidTransition, Lifecycle!StageBefore
  <2>4. \A from \in ReceiptStage : Lifecycle!AllowedTransitions[from] \subseteq Lifecycle!EventStage
    BY DEF Lifecycle!AllowedTransitions, Lifecycle!EventStage, Lifecycle!AuthorityStage, ReceiptStage
  <2> QED
    BY <1>2, <1>5, <2>1, <2>2, <2>3, <2>4
<1> QED
  BY <1>1, <1>4, <1>5

\* A local stage fixes the place of its event in the log: ATTEMPTED is first and
\* SITE_CONFIRMED second, and nothing but a decision comes third.
LEMMA StageFixesPlace ==
  ASSUME TypeOK, LogIsEventChain, NEW id \in ReceiptIds, NEW n \in 1..Len(log[id])
  PROVE  /\ log[id][n].stage = "ATTEMPTED" => n = 1
         /\ log[id][n].stage = "SITE_CONFIRMED" => n = 2
         /\ n > 2 => log[id][n].stage \in Lifecycle!AuthorityStage
<1>1. ASSUME NEW k \in 1..Len(log[id]), k > 1
      PROVE  log[id][k].stage \in {"SITE_CONFIRMED"} \cup Lifecycle!AuthorityStage
  <2>1. k - 1 \in 1..Len(log[id])
        /\ log[id][k].stage \in Lifecycle!AllowedTransitions[log[id][k - 1].stage]
    BY <1>1, ChainLink
  <2>2. log[id][k - 1].stage \in Lifecycle!EventStage
    BY <2>1, ChainLink
  <2> QED
    BY <2>1, <2>2 DEF Lifecycle!AllowedTransitions, Lifecycle!EventStage, Lifecycle!AuthorityStage
<1>2. Len(log[id]) \in Nat
  BY DEF TypeOK
<1>3. log[id][n].stage = "ATTEMPTED" => n = 1
  BY <1>1, <1>2 DEF Lifecycle!AuthorityStage
<1>4. n > 2 => log[id][n].stage \in Lifecycle!AuthorityStage
  <2> SUFFICES ASSUME n > 2 PROVE log[id][n].stage \in Lifecycle!AuthorityStage
    OBVIOUS
  <2>1. n - 1 \in 1..Len(log[id]) /\ n - 1 > 1
    BY <1>2
  <2>2. log[id][n - 1].stage \in {"SITE_CONFIRMED"} \cup Lifecycle!AuthorityStage
    BY <1>1, <2>1
  <2>3. log[id][n].stage \in Lifecycle!AllowedTransitions[log[id][n - 1].stage]
    BY <2>1, ChainLink
  <2> QED
    BY <2>2, <2>3 DEF Lifecycle!AllowedTransitions, Lifecycle!AuthorityStage
<1>5. log[id][n].stage = "SITE_CONFIRMED" => n = 2
  BY <1>2, <1>4, ChainLink DEF Lifecycle!AuthorityStage
<1> QED
  BY <1>3, <1>4, <1>5

\* The stored state of a receipt does not refuse an event of its log, however many
\* came after it.
LEMMA StoredAgreesWithLog ==
  ASSUME TypeOK, StateMatchesLog, HashAnchoredOnce, LogIsEventChain,
         NEW id \in ReceiptIds, NEW n \in 1..Len(log[id]), log[id][n] \in LocalEvent
  PROVE  /\ n = ExpectedCount(log[id][n])
         /\ StoredAgrees(log[id][n], receipts[id])
<1> DEFINE e == log[id][n]
           m == Len(log[id])
           s == receipts[id]
<1>1. m \in Nat /\ n \in 1..m /\ m \in 1..m /\ n \in DOMAIN log[id]
  BY DEF TypeOK
<1>2. e.stage \in {"ATTEMPTED", "SITE_CONFIRMED"} /\ e.eventHash \in Hashes
  BY DEF LocalEvent
<1>3. n = ExpectedCount(e)
  BY <1>2, StageFixesPlace DEF ExpectedCount
<1>4. LogDescribes(id)
  BY DEF StateMatchesLog
<1>5. /\ s.eventCount = m
      /\ s.latestEventHash = log[id][m].eventHash
      /\ s.currentStage = log[id][m].stage
      /\ s.extensionKeyHash = e.extensionKeyHash
  BY <1>1, <1>4 DEF LogDescribes
<1>6. e.eventHash \in anchoredEvents
  BY <1>1, <1>2 DEF HashAnchoredOnce
<1>7. StageValue(s.currentStage) >= StageValue(e.stage)
  <2>1. log[id][m].stage \in Lifecycle!EventStage
    BY <1>1, ChainLink
  <2>2. CASE e.stage = "ATTEMPTED"
    BY <1>5, <2>1, <2>2 DEF StageValue, ContractReceiptStages, Lifecycle!EventStage
  <2>3. CASE e.stage = "SITE_CONFIRMED"
    <3>1. n = 2
      BY <2>3, StageFixesPlace
    <3>2. CASE m = n
      BY <1>5, <2>3, <3>2 DEF StageValue, ContractReceiptStages
    <3>3. CASE m # n
      <4>1. m \in Nat /\ n \in 1..m
        BY <1>1
      <4>2. m > 2
        <5> HIDE DEF m, e, s
        <5> QED
          BY <3>1, <3>3, <4>1
      <4>3. s.currentStage \in Lifecycle!AuthorityStage
        BY <1>1, <1>5, <4>2, StageFixesPlace
      <4> QED
        BY <2>3, <4>3 DEF StageValue, ContractReceiptStages, Lifecycle!AuthorityStage
    <3> QED
      BY <3>2, <3>3
  <2> QED
    BY <1>2, <2>2, <2>3
<1>8. s.eventCount >= ExpectedCount(e)
  BY <1>1, <1>3, <1>5
<1>9. s.eventCount = ExpectedCount(e) => s.currentStage = e.stage /\ s.latestEventHash = e.eventHash
  BY <1>3, <1>5
<1> HIDE DEF e, s
<1> QED
  BY <1>3, <1>5, <1>6, <1>7, <1>8, <1>9 DEF StoredAgrees, e, s

\* A transaction verifies for exactly the event it logged.
LEMMA VerifiedIsLogged ==
  ASSUME TypeOK, StateMatchesLog, HashAnchoredOnce, LogIsEventChain,
         NEW e \in LocalEvent, NEW id \in ReceiptIds, NEW n \in DOMAIN log[id]
  PROVE  Verified(e, <<id, n>>) <=> log[id][n] = e
<1>1. log[id] \in Seq(Request) /\ n \in 1..Len(log[id])
  BY DEF TypeOK
<1>2. log[id][n] \in Request
  BY <1>1
<1>3. LogOf(<<id, n>>) = log[id][n]
  BY DEF LogOf
<1>4. ASSUME Verified(e, <<id, n>>) PROVE log[id][n] = e
  <2>1. /\ log[id][n].receiptId = e.receiptId
        /\ log[id][n].eventHash = e.eventHash
        /\ log[id][n].previousEventHash = e.previousEventHash
        /\ log[id][n].extensionKeyHash = e.extensionKeyHash
        /\ log[id][n].authorityKeyHash = e.authorityKeyHash
        /\ log[id][n].stage = e.stage
    BY <1>3, <1>4 DEF Verified, Matches, ExactEvent
  <2> QED
    BY <1>2, <2>1 DEF Request, LocalEvent
<1>5. ASSUME log[id][n] = e PROVE Verified(e, <<id, n>>)
  <2>1. e.receiptId = id
    BY <1>1, <1>5 DEF StateMatchesLog, LogDescribes
  <2>2. n = ExpectedCount(e) /\ StoredAgrees(e, receipts[id])
    BY <1>1, <1>5, StoredAgreesWithLog
  <2>3. Matches(e, <<id, n>>) /\ ExactEvent(e, <<id, n>>)
    BY <1>3, <1>5, <2>2 DEF Matches, ExactEvent
  <2> QED
    BY <2>1, <2>2, <2>3 DEF Verified
<1> QED
  BY <1>4, <1>5

\* At most one transaction logged an event's hash.
LEMMA DiscoveryIsUnique ==
  ASSUME HashAnchoredOnce, NEW e \in LocalEvent, NEW tx1 \in Discovered(e), NEW tx2 \in Discovered(e)
  PROVE  tx1 = tx2
<1>1. \A tx \in Discovered(e) :
        \E id \in ReceiptIds : \E n \in DOMAIN log[id] : tx = <<id, n>> /\ log[id][n].eventHash = e.eventHash
  BY DEF Discovered, Transactions, Matches, LogOf
<1>2. PICK id1 \in ReceiptIds : \E n \in DOMAIN log[id1] : tx1 = <<id1, n>> /\ log[id1][n].eventHash = e.eventHash
  BY <1>1
<1>3. PICK n1 \in DOMAIN log[id1] : tx1 = <<id1, n1>> /\ log[id1][n1].eventHash = e.eventHash
  BY <1>2
<1>4. PICK id2 \in ReceiptIds : \E n \in DOMAIN log[id2] : tx2 = <<id2, n>> /\ log[id2][n].eventHash = e.eventHash
  BY <1>1
<1>5. PICK n2 \in DOMAIN log[id2] : tx2 = <<id2, n2>> /\ log[id2][n2].eventHash = e.eventHash
  BY <1>4
<1> QED
  BY <1>3, <1>5 DEF HashAnchoredOnce

\* For every set of receipts, hashes and keys and whoever calls the contract, a
\* browser accepts a transaction as the anchor of one of its events exactly when
\* that transaction logged it, and discovery finds no other
\* (verifySubmissionReceiptAnchor, findSubmissionReceiptAnchorTransaction).
THEOREM VerdictsAreExact == Spec => []VerifierIsExact
<1>1. TypeOK /\ StateMatchesLog /\ HashAnchoredOnce /\ LogIsEventChain => VerifierIsExact
  <2> SUFFICES ASSUME TypeOK, StateMatchesLog, HashAnchoredOnce, LogIsEventChain, NEW e \in LocalEvent
               PROVE  /\ \A tx \in Transactions : Verified(e, tx) <=> LogOf(tx) = e
                      /\ \A tx \in Transactions : Verified(e, tx) => Discovered(e) = {tx}
                      /\ \A tx1, tx2 \in Discovered(e) : tx1 = tx2
    BY DEF VerifierIsExact
  <2>1. ASSUME NEW tx \in Transactions PROVE Verified(e, tx) <=> LogOf(tx) = e
    <3>1. PICK id \in ReceiptIds : tx \in {id} \X DOMAIN log[id]
      BY <2>1 DEF Transactions
    <3>2. PICK n \in DOMAIN log[id] : tx = <<id, n>>
      BY <3>1
    <3> QED
      BY <3>2, VerifiedIsLogged DEF LogOf
  <2>2. \A tx1, tx2 \in Discovered(e) : tx1 = tx2
    BY DiscoveryIsUnique
  <2>3. ASSUME NEW tx \in Transactions, Verified(e, tx) PROVE Discovered(e) = {tx}
    <3>1. tx \in Discovered(e)
      BY <2>3 DEF Discovered, Verified
    <3> QED
      BY <2>2, <3>1
  <2> QED
    BY <2>1, <2>2, <2>3
<1> QED
  BY <1>1, TypeCorrect, HistoryCorrect, PTL
=============================================================================
