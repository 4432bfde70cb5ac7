------------------------ MODULE AnchorWorkflow_proofs ------------------------
(***************************************************************************)
(* Proofs about AnchorWorkflow, for any receipts, counters, limits and     *)
(* faults.                                                                 *)
(*                                                                         *)
(* The invariant says what each place in a flight may rely on: which       *)
(* operation it is at, that a request names the blob stored before, and    *)
(* what of the relay's answer still holds when it is stored.  The steps of *)
(* the relay, the chain and other senders enter only through Grows, what   *)
(* they never take back; a step of a flight changes one operation, and     *)
(* FlightMoves says what it has to show for it.                            *)
(***************************************************************************)
EXTENDS AnchorWorkflow, FiniteSetTheorems, TLAPS

\* A row of the relay, and what its fields say of one another.
RowType ==
  [row : Relay!States, tx : {"none", "lost", "pending", "mined", "final"},
   by : {"nobody", "relay", "other"}, posting : BOOLEAN, sending : BOOLEAN,
   asking : BOOLEAN, polls : Nat]

RowFacts(w) ==
  /\ w \in RowType
  /\ w.row = "NONE" => w.tx = "none"
  /\ w.by = "relay" => w.tx \in {"mined", "final"}
  /\ w.row = "CONFIRMED" => w.tx = "final" /\ w.by = "relay"
  /\ w.row = "REVERTED" => w.tx = "final" /\ w.by # "relay"
  /\ w.row = "FAILED_FINAL" => w.tx = "none" /\ w.by = "other"

\* The relay has not anchored the event of this row and never will.
Hopeless(w) ==
  /\ w.by # "relay"
  /\ w.tx \in {"mined", "final"} \/ w.row = "FAILED_FINAL"

\* Anchors, of the row.
AnchoredBy(w, hash) ==
  \/ hash = "relay" /\ w.by = "relay" /\ w.tx = "final"
  \/ hash = "other" /\ w.by = "other"

\* What no step of the relay, the chain or another sender takes back.
Grows(w, x) ==
  /\ w.row # "NONE" => x.row # "NONE"
  /\ w.row \in Relay!Terminal => x.row = w.row
  /\ Hopeless(w) => Hopeless(x)
  /\ \A h \in Hashes : AnchoredBy(w, h) => AnchoredBy(x, h)

\* An operation o, the row w of its event, and the blobs p its POSTs named.
OpFacts(o, w, p) ==
  /\ o = NoOp \/ ValidOperation(o)
  /\ p # {} => o # NoOp /\ o.blob # NoBlob /\ p = {o.blob}
  /\ o # NoOp /\ o.token => w.row # "NONE"
  /\ o.state = "FINAL_FAILURE" => Hopeless(w)
  /\ o.state = "CHAIN_EVIDENCE_CONFIRMED" => AnchoredBy(w, o.hash)

\* A flight f of a receipt with s signed events that is at the operation o; first
\* is the operation of the first event.
FlightFacts(f, s, first, o, w, p) ==
  f # Idle =>
    /\ f \in FlightType
    /\ f.event <= f.upTo /\ f.upTo <= s
    /\ f.event = 2 => first.state = "CHAIN_EVIDENCE_CONFIRMED"
    /\ f.pc # "begin" => o.state \notin {"NONE", "CHAIN_EVIDENCE_CONFIRMED"}
    /\ f.pc = "upload" => o.blob = NoBlob /\ f.envelope # NoBlob
    /\ f.pc = "post" => p # {}
    /\ f.pc \in {"submitted", "poll", "get"} => o.token
    /\ f.pc = "get" => f.poll < PollsPerWake
    /\ f.pc = "submitted" => f.view.row # "NONE"
    /\ f.pc = "submitted" /\ f.view.row \in Relay!Terminal => w.row = f.view.row

ReceiptFacts(r) ==
  /\ flight[r] # Idle =>
       FlightFacts(flight[r], signed[r], ops[<<r, 1>>], Op(r), relay[Current(r)], posted[Current(r)])
  /\ posted[<<r, 2>>] # {} => ops[<<r, 1>>].state = "CHAIN_EVIDENCE_CONFIRMED"
  /\ r \in recovery => signed[r] > 0

IInv ==
  /\ relay \in [Events -> RowType]
  /\ signed \in [Receipts -> 0..2]
  /\ ops = [e \in Events |-> ops[e]]
  /\ flight \in [Receipts -> {Idle} \cup FlightType]
  /\ recovery \subseteq Receipts
  /\ posted \in [Events -> SUBSET (1..4)]
  /\ \A e \in Events : RowFacts(relay[e]) /\ OpFacts(ops[e], relay[e], posted[e])
  /\ \A r \in Receipts : ReceiptFacts(r)

-----------------------------------------------------------------------------
(* The relay's side *)

RowsGrow ==
  /\ relay' \in [Events -> RowType]
  /\ \A e \in Events : RowFacts(relay'[e]) /\ Grows(relay[e], relay'[e])

LEMMA Growing ==
  ASSUME NEW w \in RowType, RowFacts(w), NEW x \in RowType, RowFacts(x),
         w.row # "NONE" => x.row # "NONE",
         w.row \in Relay!Terminal => x.row = w.row,
         w.tx \in {"mined", "final"} => x.tx \in {"mined", "final"} /\ (w.by # "relay" => x.by # "relay"),
         w.by = "relay" /\ w.tx = "final" => x.by = "relay" /\ x.tx = "final",
         w.by = "other" => x.by = "other"
  PROVE  Grows(w, x)
BY DEF Grows, Hopeless, AnchoredBy, RowFacts, Relay!Terminal

LEMMA RowChange ==
  ASSUME relay \in [Events -> RowType], \A d \in Events : RowFacts(relay[d]),
         NEW e \in Events, NEW x \in RowType, relay' = [relay EXCEPT ![e] = x],
         RowFacts(x), Grows(relay[e], x)
  PROVE  RowsGrow
<1>1. \A d \in Events : relay'[d] = IF d = e THEN x ELSE relay[d]
  OBVIOUS
<1>2. \A w : Grows(w, w)
  BY DEF Grows
<1> QED
  BY <1>1, <1>2 DEF RowsGrow

\* The row a request leaves behind is n, whatever becomes of the requests.
LEMMA Closes ==
  ASSUME relay \in [Events -> RowType], \A d \in Events : RowFacts(relay[d]),
         NEW e \in Events, NEW n \in RowType, RowFacts(n), Grows(relay[e], n),
         Relay!Becomes(e, n)
  PROVE  RowsGrow
<1>1. PICK p \in {FALSE, n.posting}, s \in {FALSE, n.sending}, a \in {FALSE, n.asking} :
        relay' = [relay EXCEPT ![e] = [n EXCEPT !.posting = p, !.sending = s, !.asking = a]]
  BY DEF Relay!Becomes, Relay!Closing
<1> SUFFICES ASSUME NEW x, x = [n EXCEPT !.posting = p, !.sending = s, !.asking = a] PROVE RowsGrow
  OBVIOUS
<1>2. x \in RowType /\ x.row = n.row /\ x.tx = n.tx /\ x.by = n.by
  BY DEF RowType
<1>3. RowFacts(x)
  BY <1>2 DEF RowFacts
<1>4. Grows(relay[e], x)
  BY <1>2 DEF Grows, Hopeless, AnchoredBy
<1> QED
  BY <1>1, <1>2, <1>3, <1>4, RowChange

\* Steps that leave the row, the transaction and the author as they are.
LEMMA FlagsOnly ==
  ASSUME relay \in [Events -> RowType], \A d \in Events : RowFacts(relay[d]),
         NEW e \in Events, NEW x \in RowType, relay' = [relay EXCEPT ![e] = x],
         x.row = relay[e].row, x.tx = relay[e].tx, x.by = relay[e].by
  PROVE  RowsGrow
<1>1. RowFacts(x)
  BY DEF RowFacts
<1>2. Grows(relay[e], x)
  BY DEF Grows, Hopeless, AnchoredBy
<1> QED
  BY <1>1, <1>2, RowChange

LEMMA RequestsGrow ==
  ASSUME relay \in [Events -> RowType], \A d \in Events : RowFacts(relay[d]), NEW e \in Events,
         \/ Relay!Post(e) \/ Relay!Ask(e) \/ Drop(e) \/ UNCHANGED relay
         \/ \E b \in BOOLEAN : relay' = [relay EXCEPT ![e].posting = b]
         \/ \E b \in BOOLEAN : relay' = [relay EXCEPT ![e].asking = b]
  PROVE  RowsGrow
<1>1. CASE \E b \in BOOLEAN : relay' = [relay EXCEPT ![e].posting = b]
  <2>1. PICK b \in BOOLEAN : relay' = [relay EXCEPT ![e] = [relay[e] EXCEPT !.posting = b]]
    BY <1>1
  <2> SUFFICES ASSUME NEW x, x = [relay[e] EXCEPT !.posting = b] PROVE RowsGrow
    OBVIOUS
  <2>2. x \in RowType /\ x.row = relay[e].row /\ x.tx = relay[e].tx /\ x.by = relay[e].by
    BY DEF RowType
  <2> QED
    BY <2>1, <2>2, FlagsOnly
<1>2. CASE \E b \in BOOLEAN : relay' = [relay EXCEPT ![e].asking = b]
  <2>1. PICK b \in BOOLEAN : relay' = [relay EXCEPT ![e] = [relay[e] EXCEPT !.asking = b]]
    BY <1>2
  <2> SUFFICES ASSUME NEW x, x = [relay[e] EXCEPT !.asking = b] PROVE RowsGrow
    OBVIOUS
  <2>2. x \in RowType /\ x.row = relay[e].row /\ x.tx = relay[e].tx /\ x.by = relay[e].by
    BY DEF RowType
  <2> QED
    BY <2>1, <2>2, FlagsOnly
<1>3. CASE Relay!Post(e)
  <2>1. relay' = [relay EXCEPT ![e].posting = TRUE]
    BY <1>3 DEF Relay!Post
  <2> QED
    BY <1>1, <2>1
<1>4. CASE Relay!Ask(e)
  <2>1. PICK a, n : /\ a = (Relay!UnderCap(e) \/ relay[e].asking)
                    /\ n = IF MaxPolls = NoCap \/ relay[e].polls > MaxPolls THEN relay[e].polls
                           ELSE relay[e].polls + 1
    OBVIOUS
  <2>2. relay' = [relay EXCEPT ![e] = [relay[e] EXCEPT !.asking = a, !.polls = n]]
    BY <1>4, <2>1 DEF Relay!Ask
  <2>3. a \in BOOLEAN
    <3>1. (Relay!UnderCap(e) \/ relay[e].asking) \in BOOLEAN
      OBVIOUS
    <3> QED
      BY <2>1, <3>1
  <2>4. n \in Nat
    <3>1. relay[e].polls \in Nat
      BY DEF RowType
    <3> QED
      BY <2>1, <3>1
  <2> SUFFICES ASSUME NEW x, x = [relay[e] EXCEPT !.asking = a, !.polls = n] PROVE RowsGrow
    OBVIOUS
  <2>5. x \in RowType /\ x.row = relay[e].row /\ x.tx = relay[e].tx /\ x.by = relay[e].by
    BY <2>3, <2>4 DEF RowType
  <2> QED
    BY <2>2, <2>5, FlagsOnly
<1>5. CASE UNCHANGED relay
  BY <1>5, FlagsOnly
<1>6. CASE Drop(e)
  <2> SUFFICES ASSUME NEW x, x = [relay[e] EXCEPT !.posting = FALSE, !.sending = FALSE] PROVE RowsGrow
    OBVIOUS
  <2>1. x \in RowType /\ x.row = relay[e].row /\ x.tx = relay[e].tx /\ x.by = relay[e].by
    BY DEF RowType
  <2>2. relay' = [relay EXCEPT ![e] = x]
    BY <1>6 DEF Drop
  <2> QED
    BY <2>1, <2>2, FlagsOnly
<1> QED
  BY <1>1, <1>2, <1>3, <1>4, <1>5, <1>6

\* The work of the relay, the chain and other senders.
LEMMA WorkGrows ==
  ASSUME relay \in [Events -> RowType], \A d \in Events : RowFacts(relay[d]), NEW e \in Events,
         \/ Relay!Work(e) \/ Relay!Retry(e)
         \/ Relay!ChainStep(e) \/ Relay!Evict(e) \/ Relay!AnchorExternally(e)
  PROVE  RowsGrow
<1> USE DEF Relay!Open, Relay!Terminal
<1>w. RowFacts(relay[e]) /\ relay[e] \in RowType
  OBVIOUS
<1>1. CASE Relay!Accept(e)
  <2> SUFFICES ASSUME NEW x, x = [relay[e] EXCEPT !.row = "READY"] PROVE RowsGrow
    OBVIOUS
  <2>1. /\ x \in RowType /\ x.row = "READY" /\ x.tx = relay[e].tx /\ x.by = relay[e].by
        /\ relay[e].row = "NONE" /\ Relay!Becomes(e, x)
    BY <1>1, <1>w DEF Relay!Accept, RowType, Relay!States
  <2>2. RowFacts(x) /\ Grows(relay[e], x)
    BY <1>w, <2>1, Growing DEF RowFacts
  <2> QED
    BY <2>1, <2>2, Closes
<1>2. CASE Relay!Prepare(e)
  <2> SUFFICES ASSUME NEW x, x = [relay[e] EXCEPT !.row = "SUBMITTING", !.tx = "lost", !.sending = TRUE]
           PROVE  RowsGrow
    OBVIOUS
  <2>1. /\ x \in RowType /\ x.row = "SUBMITTING" /\ x.tx = "lost" /\ x.by = relay[e].by
        /\ relay[e].row \notin Relay!Terminal \cup {"NONE"} /\ relay[e].tx = "none" /\ Relay!Becomes(e, x)
    BY <1>2, <1>w DEF Relay!Prepare, RowType, Relay!States
  <2>2. RowFacts(x) /\ Grows(relay[e], x)
    BY <1>w, <2>1, Growing DEF RowFacts
  <2> QED
    BY <2>1, <2>2, Closes
<1>3. CASE Relay!GiveUp(e)
  <2> SUFFICES ASSUME NEW x, x = [relay[e] EXCEPT !.row = "FAILED_FINAL"] PROVE RowsGrow
    OBVIOUS
  <2>1. /\ x \in RowType /\ x.row = "FAILED_FINAL" /\ x.tx = relay[e].tx /\ x.by = relay[e].by
        /\ relay[e].row \notin Relay!Terminal \cup {"NONE"} /\ relay[e].tx = "none"
        /\ relay[e].by # "nobody" /\ Relay!Becomes(e, x)
    BY <1>3, <1>w DEF Relay!GiveUp, RowType, Relay!States
  <2>2. RowFacts(x)
    BY <1>w, <2>1 DEF RowFacts, RowType
  <2>3. Grows(relay[e], x)
    BY <1>w, <2>1, <2>2, Growing DEF RowFacts
  <2> QED
    BY <2>1, <2>2, <2>3, Closes
<1>4. CASE Relay!Broadcast(e)
  <2> SUFFICES ASSUME NEW x, x = [relay[e] EXCEPT !.tx = "pending"] PROVE RowsGrow
    OBVIOUS
  <2>1. /\ x \in RowType /\ x.row = relay[e].row /\ x.tx = "pending" /\ x.by = relay[e].by
        /\ relay[e].tx = "lost" /\ Relay!Becomes(e, x)
    BY <1>4, <1>w DEF Relay!Broadcast, RowType, Relay!States
  <2>2. RowFacts(x) /\ Grows(relay[e], x)
    BY <1>w, <2>1, Growing DEF RowFacts
  <2> QED
    BY <2>1, <2>2, Closes
<1>5. ASSUME NEW to \in {"SUBMITTING", "SUBMITTED", "FAILED_RETRYABLE"},
             relay[e].row \notin Relay!Terminal \cup {"NONE"},
             Relay!Becomes(e, [relay[e] EXCEPT !.row = to])
      PROVE  RowsGrow
  <2> SUFFICES ASSUME NEW x, x = [relay[e] EXCEPT !.row = to] PROVE RowsGrow
    OBVIOUS
  <2>1. /\ x \in RowType /\ x.row = to /\ x.tx = relay[e].tx /\ x.by = relay[e].by
        /\ Relay!Becomes(e, x)
    BY <1>5, <1>w DEF RowType, Relay!States
  <2>2. RowFacts(x) /\ Grows(relay[e], x)
    BY <1>5, <1>w, <2>1, Growing DEF RowFacts
  <2> QED
    BY <2>1, <2>2, Closes
<1>6. CASE Relay!Resubmit(e)
  <2>1. PICK to : to = IF relay[e].row = "FAILED_RETRYABLE" THEN "SUBMITTING" ELSE relay[e].row
    OBVIOUS
  <2> SUFFICES ASSUME NEW x, x = [relay[e] EXCEPT !.row = to, !.sending = TRUE] PROVE RowsGrow
    OBVIOUS
  <2>2. relay[e].row \notin Relay!Terminal \cup {"NONE"} /\ relay[e].tx # "none" /\ Relay!Becomes(e, x)
    BY <1>6, <2>1 DEF Relay!Resubmit
  <2>3. to \in Relay!States \ (Relay!Terminal \cup {"NONE"})
    BY <1>w, <2>1, <2>2 DEF RowType, Relay!States
  <2>4. x \in RowType /\ x.row = to /\ x.tx = relay[e].tx /\ x.by = relay[e].by
    BY <1>w, <2>3 DEF RowType
  <2>5. RowFacts(x) /\ Grows(relay[e], x)
    BY <1>w, <2>2, <2>3, <2>4, Growing DEF RowFacts
  <2> QED
    BY <2>2, <2>4, <2>5, Closes
<1>7. CASE Relay!Submitted(e)
  BY <1>5, <1>7 DEF Relay!Submitted
<1>8. CASE Relay!Retry(e)
  BY <1>5, <1>8 DEF Relay!Retry
<1>9. CASE Relay!Settle(e)
  <2>1. PICK to : to = IF relay[e].by = "relay" THEN "CONFIRMED" ELSE "REVERTED"
    OBVIOUS
  <2> SUFFICES ASSUME NEW x, x = [relay[e] EXCEPT !.row = to] PROVE RowsGrow
    OBVIOUS
  <2>2. /\ x \in RowType /\ x.row = to /\ x.tx = "final" /\ x.by = relay[e].by
        /\ relay[e].row \in {"SUBMITTED", "FAILED_RETRYABLE"} /\ relay[e].tx = "final"
        /\ Relay!Becomes(e, x)
    BY <1>9, <1>w, <2>1 DEF Relay!Settle, RowType, Relay!States
  <2>3. RowFacts(x)
    BY <1>w, <2>1, <2>2 DEF RowFacts
  <2>4. Grows(relay[e], x)
    BY <1>w, <2>1, <2>2, <2>3, Growing DEF RowFacts
  <2> QED
    BY <2>2, <2>3, <2>4, Closes
<1>10. CASE Relay!Mine(e)
  <2>1. PICK by \in {"nobody", "relay", "other"} :
          /\ relay' = [relay EXCEPT ![e] = [relay[e] EXCEPT !.tx = "mined", !.by = by]]
          /\ relay[e].by # "nobody" => by = relay[e].by
    BY <1>10, <1>w DEF Relay!Mine, RowType
  <2> SUFFICES ASSUME NEW x, x = [relay[e] EXCEPT !.tx = "mined", !.by = by] PROVE RowsGrow
    OBVIOUS
  <2>2. /\ x \in RowType /\ x.row = relay[e].row /\ x.tx = "mined" /\ x.by = by
        /\ relay[e].tx = "pending"
    BY <1>10, <1>w DEF Relay!Mine, RowType
  <2>3. RowFacts(x) /\ Grows(relay[e], x)
    BY <1>w, <2>1, <2>2, Growing DEF RowFacts
  <2> QED
    BY <2>1, <2>2, <2>3, RowChange
<1>11. CASE Relay!Confirm(e)
  <2> SUFFICES ASSUME NEW x, x = [relay[e] EXCEPT !.tx = "final"] PROVE RowsGrow
    OBVIOUS
  <2>1. /\ x \in RowType /\ x.row = relay[e].row /\ x.tx = "final" /\ x.by = relay[e].by
        /\ relay[e].tx = "mined" /\ relay' = [relay EXCEPT ![e] = x]
    BY <1>11, <1>w DEF Relay!Confirm, RowType
  <2>2. RowFacts(x) /\ Grows(relay[e], x)
    BY <1>w, <2>1, Growing DEF RowFacts
  <2> QED
    BY <2>1, <2>2, RowChange
<1>12. CASE Relay!Evict(e)
  <2> SUFFICES ASSUME NEW x, x = [relay[e] EXCEPT !.tx = "lost"] PROVE RowsGrow
    OBVIOUS
  <2>1. /\ x \in RowType /\ x.row = relay[e].row /\ x.tx = "lost" /\ x.by = relay[e].by
        /\ relay[e].tx = "pending" /\ relay' = [relay EXCEPT ![e] = x]
    BY <1>12, <1>w DEF Relay!Evict, RowType
  <2>2. RowFacts(x) /\ Grows(relay[e], x)
    BY <1>w, <2>1, Growing DEF RowFacts
  <2> QED
    BY <2>1, <2>2, RowChange
<1>13. CASE Relay!AnchorExternally(e)
  <2> SUFFICES ASSUME NEW x, x = [relay[e] EXCEPT !.by = "other"] PROVE RowsGrow
    OBVIOUS
  <2>1. /\ x \in RowType /\ x.row = relay[e].row /\ x.tx = relay[e].tx /\ x.by = "other"
        /\ relay[e].by = "nobody" /\ relay' = [relay EXCEPT ![e] = x]
    BY <1>13, <1>w DEF Relay!AnchorExternally, RowType
  <2>2. RowFacts(x) /\ Grows(relay[e], x)
    BY <1>w, <2>1, Growing DEF RowFacts
  <2> QED
    BY <2>1, <2>2, RowChange
<1> QED
  BY <1>1, <1>2, <1>3, <1>4, <1>6, <1>7, <1>8, <1>9, <1>10, <1>11, <1>12, <1>13
  DEF Relay!Work, Relay!ChainStep

-----------------------------------------------------------------------------
(* What a step has to show *)

LEMMA OpFactsStay ==
  ASSUME NEW o, NEW w, NEW x, NEW p, OpFacts(o, w, p), Grows(w, x)
  PROVE  OpFacts(o, x, p)
<1>1. o # NoOp /\ o.state = "CHAIN_EVIDENCE_CONFIRMED" => o.hash \in Hashes
  BY DEF OpFacts, ValidOperation
<1>2. o.state = "CHAIN_EVIDENCE_CONFIRMED" => o # NoOp
  BY DEF NoOp
<1> QED
  BY <1>1, <1>2 DEF OpFacts, Grows

LEMMA FlightFactsStay ==
  ASSUME NEW f, NEW s \in Int, NEW t \in Int, s <= t, NEW first, NEW o, NEW w, NEW x, NEW p,
         FlightFacts(f, s, first, o, w, p), Grows(w, x)
  PROVE  FlightFacts(f, t, first, o, x, p)
<1>1. f # Idle => f.upTo \in Int
  BY DEF FlightFacts, FlightType
<1> QED
  BY <1>1 DEF FlightFacts, Grows

LEMMA GrowsRefl == ASSUME NEW w PROVE Grows(w, w)
BY DEF Grows

LEMMA Here ==
  ASSUME IInv, NEW r \in Receipts, flight[r] # Idle
  PROVE  /\ flight[r] \in FlightType
         /\ flight[r].event \in {1, 2} /\ Current(r) = <<r, flight[r].event>> /\ Current(r) \in Events
         /\ <<r, 1>> \in Events /\ <<r, 2>> \in Events
         /\ Op(r) = ops[Current(r)]
         /\ signed[r] \in {1, 2} /\ flight[r].event <= flight[r].upTo /\ flight[r].upTo <= signed[r]
         /\ FlightFacts(flight[r], signed[r], ops[<<r, 1>>], Op(r), relay[Current(r)], posted[Current(r)])
         /\ OpFacts(Op(r), relay[Current(r)], posted[Current(r)])
         /\ relay[Current(r)] \in RowType /\ RowFacts(relay[Current(r)])
         /\ Op(r).state # "NONE" => ValidOperation(Op(r)) /\ Op(r) # NoOp
<1>1. flight[r] \in FlightType /\ flight[r].event \in {1, 2} /\ flight[r].upTo \in {1, 2}
  BY DEF IInv, FlightType
<1>2. FlightFacts(flight[r], signed[r], ops[<<r, 1>>], Op(r), relay[Current(r)], posted[Current(r)])
  BY DEF IInv, ReceiptFacts
<1>3. /\ Current(r) = <<r, flight[r].event>> /\ Current(r) \in Events
      /\ <<r, 1>> \in Events /\ <<r, 2>> \in Events
  BY <1>1 DEF Current, Events
<1>4. signed[r] \in 0..2
  BY DEF IInv
<1>5. flight[r].event <= flight[r].upTo /\ flight[r].upTo <= signed[r]
  BY <1>2 DEF FlightFacts
<1>6. signed[r] \in {1, 2}
  BY <1>1, <1>4, <1>5
<1>7. /\ OpFacts(Op(r), relay[Current(r)], posted[Current(r)])
      /\ relay[Current(r)] \in RowType /\ RowFacts(relay[Current(r)])
  BY <1>3 DEF IInv, Op
<1>8. Op(r).state # "NONE" => ValidOperation(Op(r)) /\ Op(r) # NoOp
  BY <1>7 DEF OpFacts, NoOp
<1> QED
  BY <1>1, <1>2, <1>3, <1>5, <1>6, <1>7, <1>8 DEF Op

\* Nothing of the extension changes.
LEMMA OutsideMoves ==
  ASSUME IInv, RowsGrow, UNCHANGED <<signed, ops, flight, recovery, posted>>
  PROVE  IInv'
<1>1. ASSUME NEW e \in Events PROVE OpFacts(ops[e], relay'[e], posted[e])
  BY OpFactsStay DEF IInv, RowsGrow
<1>2. ASSUME NEW r \in Receipts, flight[r] # Idle
      PROVE  FlightFacts(flight[r], signed[r], ops[<<r, 1>>], Op(r), relay'[Current(r)], posted[Current(r)])
  <2>0. signed[r] \in Int
    BY DEF IInv
  <2>1. /\ Current(r) \in Events
        /\ FlightFacts(flight[r], signed[r], ops[<<r, 1>>], Op(r), relay[Current(r)], posted[Current(r)])
    BY <1>2, Here
  <2>2. Grows(relay[Current(r)], relay'[Current(r)])
    BY <2>1 DEF RowsGrow
  <2> QED
    BY <2>0, <2>1, <2>2, FlightFactsStay
<1>4. \A r \in Receipts : ReceiptFacts(r)'
  BY <1>2 DEF IInv, ReceiptFacts, Op, Current
<1> QED
  BY <1>1, <1>4 DEF IInv, RowsGrow

\* Flights change, and what is signed, but no operation.
LEMMA FlightsMove ==
  ASSUME IInv, UNCHANGED <<relay, ops, posted>>,
         signed' \in [Receipts -> 0..2], \A q \in Receipts : signed[q] <= signed'[q],
         recovery' \subseteq Receipts, \A q \in recovery' : signed'[q] > 0,
         flight' \in [Receipts -> {Idle} \cup FlightType],
         \A q \in Receipts : flight'[q] # flight[q] /\ flight'[q] # Idle =>
           LET e == <<q, flight'[q].event>> IN
           FlightFacts(flight'[q], signed'[q], ops[<<q, 1>>], ops[e], relay[e], posted[e])
  PROVE  IInv'
<1>1. ASSUME NEW q \in Receipts, flight'[q] # Idle
      PROVE  FlightFacts(flight'[q], signed'[q], ops[<<q, 1>>], ops[<<q, flight'[q].event>>],
                         relay[<<q, flight'[q].event>>], posted[<<q, flight'[q].event>>])
  <2>1. CASE flight'[q] = flight[q]
    <3>1. FlightFacts(flight[q], signed[q], ops[<<q, 1>>], ops[<<q, flight[q].event>>],
                         relay[<<q, flight[q].event>>], posted[<<q, flight[q].event>>])
      BY <1>1, <2>1, Here DEF Op, Current
    <3>2. signed[q] \in Int /\ signed'[q] \in Int
      BY DEF IInv
    <3> QED
      BY <2>1, <3>1, <3>2, FlightFactsStay, GrowsRefl
  <2> QED
    BY <1>1, <2>1
<1>2. \A q \in Receipts : ReceiptFacts(q)'
  BY <1>1 DEF IInv, ReceiptFacts, Op, Current
<1> QED
  BY <1>2 DEF IInv

\* A flight that is at the event e of its receipt r becomes f, and leaves the
\* operation o and the POSTs p of the event.
LEMMA FlightMoves ==
  ASSUME IInv, RowsGrow, UNCHANGED signed, recovery' \subseteq recovery,
         NEW r \in Receipts, flight[r] # Idle,
         NEW f \in {Idle} \cup FlightType, flight' = [flight EXCEPT ![r] = f],
         NEW o, ops' = [ops EXCEPT ![Current(r)] = o],
         NEW p \in SUBSET (1..4), posted' = [posted EXCEPT ![Current(r)] = p],
         Op(r).state # "CHAIN_EVIDENCE_CONFIRMED",
         OpFacts(o, relay'[Current(r)], p),
         f # Idle => f.event = flight[r].event,
         FlightFacts(f, signed[r], IF f.event = 2 THEN ops[<<r, 1>>] ELSE o, o, relay'[Current(r)], p)
  PROVE  IInv'
<1> DEFINE e == Current(r)
<1>h. /\ flight[r].event \in {1, 2} /\ e = <<r, flight[r].event>> /\ e \in Events
      /\ <<r, 1>> \in Events /\ <<r, 2>> \in Events
      /\ signed[r] \in {1, 2} /\ flight[r].event <= signed[r]
      /\ flight[r].event = 2 => ops[<<r, 1>>].state = "CHAIN_EVIDENCE_CONFIRMED"
  <2>1. flight[r].event = 2 => ops[<<r, 1>>].state = "CHAIN_EVIDENCE_CONFIRMED"
    BY Here DEF FlightFacts
  <2>2. /\ flight[r] \in FlightType /\ flight[r].event <= flight[r].upTo /\ flight[r].upTo <= signed[r]
    BY Here
  <2> QED
    BY <2>1, <2>2, Here DEF FlightType
<1> HIDE DEF e
<1>1. /\ \A d \in Events : ops'[d] = IF d = e THEN o ELSE ops[d]
      /\ \A d \in Events : posted'[d] = IF d = e THEN p ELSE posted[d]
      /\ \A q \in Receipts : flight'[q] = IF q = r THEN f ELSE flight[q]
  BY DEF IInv, e
<1>2. ASSUME NEW d \in Events PROVE RowFacts(relay'[d]) /\ OpFacts(ops'[d], relay'[d], posted'[d])
  <2>1. CASE d = e
    BY <1>1, <2>1 DEF RowsGrow, e
  <2>2. CASE d # e
    BY <1>1, <2>2, OpFactsStay DEF IInv, RowsGrow
  <2> QED
    BY <2>1, <2>2
<1>3. /\ relay' \in [Events -> RowType] /\ signed' \in [Receipts -> 0..2] /\ ops' = [d \in Events |-> ops'[d]]
      /\ flight' \in [Receipts -> {Idle} \cup FlightType]
      /\ recovery' \subseteq Receipts /\ posted' \in [Events -> SUBSET (1..4)]
  BY <1>1 DEF IInv, RowsGrow
<1>4. ASSUME NEW q \in Receipts PROVE ReceiptFacts(q)'
  <2>1. CASE q # r
    <3>1. /\ \A i \in {1, 2} : <<q, i>> \in Events /\ <<q, i>> # e
          /\ \A i \in {1, 2} : ops'[<<q, i>>] = ops[<<q, i>>] /\ posted'[<<q, i>>] = posted[<<q, i>>]
          /\ flight'[q] = flight[q]
      BY <1>1, <1>h, <2>1 DEF Events
    <3>2. ASSUME flight[q] # Idle
          PROVE  FlightFacts(flight[q], signed[q], ops[<<q, 1>>], Op(q), relay'[Current(q)], posted[Current(q)])
      <4>0. signed[q] \in Int
        BY DEF IInv
      <4>1. /\ Current(q) \in Events
            /\ FlightFacts(flight[q], signed[q], ops[<<q, 1>>], Op(q), relay[Current(q)], posted[Current(q)])
        BY <3>2, Here
      <4>2. Grows(relay[Current(q)], relay'[Current(q)])
        BY <4>1 DEF RowsGrow
      <4> QED
        BY <4>0, <4>1, <4>2, FlightFactsStay
    <3>3. flight[q] # Idle => flight[q].event \in {1, 2}
      BY Here
    <3>4. ReceiptFacts(q)
      BY DEF IInv
    <3> QED
      BY <3>1, <3>2, <3>3, <3>4 DEF ReceiptFacts, Op, Current
  <2>2. CASE q = r
    <3>1. /\ \A i \in {1, 2} : i # flight[r].event =>
               ops'[<<r, i>>] = ops[<<r, i>>] /\ posted'[<<r, i>>] = posted[<<r, i>>]
          /\ ops'[e] = o /\ posted'[e] = p /\ flight'[r] = f
      BY <1>1, <1>h DEF Events
    <3>2. ReceiptFacts(r)
      BY DEF IInv
    <3>3. posted'[<<r, 2>>] # {} => ops'[<<r, 1>>].state = "CHAIN_EVIDENCE_CONFIRMED"
      <4>1. CASE flight[r].event = 2
        BY <1>h, <3>1, <4>1
      <4>2. CASE flight[r].event = 1
        <5>1. ops[<<r, 1>>].state # "CHAIN_EVIDENCE_CONFIRMED"
          BY <1>h, <4>2 DEF Op, e
        <5> QED
          BY <3>1, <3>2, <4>2, <5>1 DEF ReceiptFacts
      <4> QED
        BY <1>h, <4>1, <4>2
    <3>4. r \in recovery' => signed'[r] > 0
      BY <1>h
    <3>5. f # Idle =>
            FlightFacts(f, signed[r], ops'[<<r, 1>>], ops'[<<r, f.event>>], relay'[<<r, f.event>>],
                        posted'[<<r, f.event>>])
      <4>1. CASE flight[r].event = 1
        BY <1>h, <3>1, <4>1 DEF e
      <4>2. CASE flight[r].event = 2
        BY <1>h, <3>1, <4>2 DEF e
      <4> QED
        BY <1>h, <4>1, <4>2
    <3> QED
      BY <2>2, <3>1, <3>3, <3>4, <3>5 DEF ReceiptFacts, Op, Current
  <2> QED
    BY <2>1, <2>2
<1> QED
  BY <1>2, <1>3, <1>4 DEF IInv

\* A changed operation o of the event whose operation was old, when the relay's
\* row has become x; the blob stays the one that was posted.
LEMMA Changed ==
  ASSUME NEW old, NEW w, NEW x, NEW p, OpFacts(old, w, p), Grows(w, x), old.state # "NONE",
         NEW o, ValidOperation(o), o.blob = old.blob, o.state # "CHAIN_EVIDENCE_CONFIRMED",
         o.token => old.token \/ x.row # "NONE", o.state = "FINAL_FAILURE" => Hopeless(x)
  PROVE  OpFacts(o, x, p)
<1>1. o # NoOp
  BY DEF ValidOperation, NoOp, OpStates, Recoverable
<1>2. old # NoOp
  BY DEF NoOp
<1> QED
  BY <1>1, <1>2 DEF OpFacts, Grows

LEMMA OpMoves ==
  ASSUME IInv, RowsGrow, UNCHANGED <<signed, posted>>, recovery' \subseteq recovery,
         NEW r \in Receipts, flight[r] # Idle, Op(r).state \notin {"NONE", "CHAIN_EVIDENCE_CONFIRMED"},
         NEW f \in {Idle} \cup FlightType, flight' = [flight EXCEPT ![r] = f],
         NEW o, Store(r, o),
         ValidOperation(o), o.blob = Op(r).blob, o.state # "CHAIN_EVIDENCE_CONFIRMED",
         o.token => Op(r).token \/ relay'[Current(r)].row # "NONE",
         o.state = "FINAL_FAILURE" => Hopeless(relay'[Current(r)]),
         f # Idle =>
           /\ f.event = flight[r].event /\ f.upTo = flight[r].upTo
           /\ f.pc = "upload" => o.blob = NoBlob /\ f.envelope # NoBlob
           /\ f.pc = "post" => posted[Current(r)] # {}
           /\ f.pc \in {"submitted", "poll", "get"} => o.token
           /\ f.pc = "get" => f.poll < PollsPerWake
           /\ f.pc = "submitted" => f.view.row # "NONE"
           /\ f.pc = "submitted" /\ f.view.row \in Relay!Terminal =>
                relay'[Current(r)].row = f.view.row
  PROVE  IInv'
<1>1. PICK e : e = Current(r)
  OBVIOUS
<1>2. PICK p : p = posted[e]
  OBVIOUS
<1>3. /\ e \in Events /\ OpFacts(Op(r), relay[e], p) /\ flight[r].event \in {1, 2}
      /\ flight[r].event <= flight[r].upTo /\ flight[r].upTo <= signed[r]
      /\ FlightFacts(flight[r], signed[r], ops[<<r, 1>>], Op(r), relay[e], p)
  BY <1>1, <1>2, Here
<1>4. p \in SUBSET (1..4) /\ posted' = [posted EXCEPT ![Current(r)] = p]
  BY <1>1, <1>2, <1>3 DEF IInv
<1>5. Grows(relay[e], relay'[e])
  BY <1>3 DEF RowsGrow
<1>6. OpFacts(o, relay'[Current(r)], p)
  BY <1>1, <1>3, <1>5, Changed
<1>7. ops' = [ops EXCEPT ![Current(r)] = o]
  BY DEF Store
<1>8. o.state \notin {"NONE", "CHAIN_EVIDENCE_CONFIRMED"}
  BY DEF ValidOperation, OpStates, Recoverable
<1>9. FlightFacts(f, signed[r], IF f.event = 2 THEN ops[<<r, 1>>] ELSE o, o, relay'[Current(r)], p)
  BY <1>1, <1>2, <1>3, <1>8 DEF FlightFacts
<1> QED
  BY <1>4, <1>6, <1>7, <1>9, FlightMoves

LEMMA LandEffect ==
  ASSUME NEW r, NEW completed \in BOOLEAN, Land(r, completed)
  PROVE  flight' = [flight EXCEPT ![r] = Idle] /\ recovery' \subseteq recovery
BY DEF Land

\* The last save of a run.
LEMMA Returns ==
  ASSUME IInv, RowsGrow, UNCHANGED <<signed, posted>>,
         NEW r \in Receipts, flight[r] # Idle, Op(r).state \notin {"NONE", "CHAIN_EVIDENCE_CONFIRMED"},
         NEW o, SaveAndReturn(r, o),
         ValidOperation(o), o.blob = Op(r).blob, o.state # "CHAIN_EVIDENCE_CONFIRMED",
         o.token => Op(r).token \/ relay'[Current(r)].row # "NONE",
         o.state = "FINAL_FAILURE" => Hopeless(relay'[Current(r)])
  PROVE  IInv'
<1>1. flight' = [flight EXCEPT ![r] = Idle] /\ recovery' \subseteq recovery /\ Store(r, o)
  BY LandEffect DEF SaveAndReturn
<1> QED
  BY <1>1, OpMoves

LEMMA Fails ==
  ASSUME IInv, RowsGrow, UNCHANGED <<signed, posted>>,
         NEW r \in Receipts, flight[r] # Idle, Op(r).state \notin {"NONE", "CHAIN_EVIDENCE_CONFIRMED"},
         NEW state \in OpStates \ {"CHAIN_EVIDENCE_CONFIRMED"}, SaveAndReturn(r, Failed(r, state)),
         state = "FINAL_FAILURE" => Hopeless(relay'[Current(r)])
  PROVE  IInv'
<1>1. ValidOperation(Op(r))
  BY Here
<1> SUFFICES ASSUME NEW o, o = Failed(r, state) PROVE IInv'
  OBVIOUS
<1>2. ValidOperation(o) /\ o.blob = Op(r).blob /\ o.token = Op(r).token /\ o.state = state
  BY <1>1 DEF Failed, ValidOperation
<1> QED
  BY <1>2, Returns

\* A flight in the middle of an event is at an operation that is not confirmed.
LEMMA Busy ==
  ASSUME IInv, NEW r \in Receipts, flight[r].pc \notin {"idle", "begin"}
  PROVE  /\ flight[r] # Idle /\ Op(r).state \notin {"NONE", "CHAIN_EVIDENCE_CONFIRMED"}
         /\ ValidOperation(Op(r)) /\ flight[r] \in FlightType
<1>1. flight[r] # Idle
  BY DEF Idle
<1> QED
  BY <1>1, Here DEF FlightFacts

\* What is saved without being refused can be loaded again.
OpShape ==
  [state : OpStates, blob : 0..4, token : BOOLEAN, hash : Hashes, alreadyAnchored : BOOLEAN,
   count : [Counters -> Nat]]

LEMMA CountedShape ==
  ASSUME NEW o, ValidOperation(o), NEW k
  PROVE  /\ Counted(o, k) \in OpShape
         /\ Counted(o, k).blob = o.blob /\ Counted(o, k).token = o.token /\ Counted(o, k).hash = o.hash
<1>1. o \in OpShape
  BY AnchorAssumption DEF ValidOperation, OpShape
<1> SUFFICES ASSUME NEW c, c = [d \in Counters |-> IF d = k THEN o.count[d] + 1 ELSE o.count[d]]
             PROVE  /\ [o EXCEPT !.count = c] \in OpShape
                    /\ [o EXCEPT !.count = c].blob = o.blob
                    /\ [o EXCEPT !.count = c].token = o.token
                    /\ [o EXCEPT !.count = c].hash = o.hash
  BY DEF Counted
<1>2. c \in [Counters -> Nat]
  BY <1>1 DEF OpShape
<1> QED
  BY <1>1, <1>2 DEF OpShape

LEMMA Fits ==
  ASSUME NEW old, NEW o \in OpShape, ~Refused(old, o), o.state # "CHAIN_EVIDENCE_CONFIRMED"
  PROVE  ValidOperation(o)
<1>1. \A c \in Counters : o.count[c] <= MaxCount
  BY AnchorAssumption DEF Refused, OpShape
<1>2. o.count \in [Counters -> 0..MaxCount]
  BY <1>1, AnchorAssumption DEF OpShape
<1> QED
  BY <1>2 DEF OpShape, ValidOperation

-----------------------------------------------------------------------------
(* Flights start, land and go on *)

LEMMA StartFacts ==
  ASSUME IInv, NEW r \in Receipts, At(r, "idle"), Start(r), UNCHANGED <<relay, ops, posted>>,
         signed' \in [Receipts -> 0..2], \A q \in Receipts : signed[q] <= signed'[q],
         signed'[r] > 0, UNCHANGED recovery
  PROVE  IInv'
<1> SUFFICES ASSUME NEW f,
               f = [pc |-> "begin", event |-> 1, upTo |-> signed'[r], poll |-> 0, envelope |-> 0,
                    view |-> NoView, hash |-> "none"]
             PROVE  IInv'
  OBVIOUS
<1>1. signed'[r] \in {1, 2}
  OBVIOUS
<1>2. f \in FlightType /\ f.pc = "begin" /\ f.event = 1 /\ f.upTo = signed'[r]
  BY <1>1, AnchorAssumption DEF FlightType, NoView, Relay!States, Hashes
<1>3. flight' = [flight EXCEPT ![r] = f]
  BY DEF Start
<1>4. FlightFacts(f, signed'[r], ops[<<r, 1>>], ops[<<r, 1>>], relay[<<r, 1>>], posted[<<r, 1>>])
  BY <1>1, <1>2 DEF FlightFacts
<1>5. /\ flight' \in [Receipts -> {Idle} \cup FlightType]
      /\ \A q \in Receipts : flight'[q] = IF q = r THEN f ELSE flight[q]
  BY <1>2, <1>3 DEF IInv
<1>6. recovery' \subseteq Receipts /\ \A q \in recovery' : signed'[q] > 0
  <2>1. ASSUME NEW q \in recovery PROVE q \in Receipts /\ signed[q] > 0 /\ signed[q] <= signed'[q]
    BY DEF IInv, ReceiptFacts
  <2>2. ASSUME NEW q \in Receipts PROVE signed[q] \in Int /\ signed'[q] \in Int
    BY DEF IInv
  <2> QED
    BY <2>1, <2>2
<1> QED
  BY <1>2, <1>4, <1>5, <1>6, FlightsMove

LEMMA SaveEventKeeps ==
  ASSUME IInv, NEW r \in Receipts, SaveEvent(r) PROVE IInv'
<1>1. /\ signed' \in [Receipts -> 0..2] /\ \A q \in Receipts : signed[q] <= signed'[q]
      /\ signed'[r] > 0
  BY DEF IInv, SaveEvent
<1>2. CASE At(r, "idle")
  BY <1>1, <1>2, StartFacts DEF SaveEvent
<1>3. CASE ~At(r, "idle")
  <2>1. /\ flight' \in [Receipts -> {Idle} \cup FlightType]
        /\ \A q \in Receipts : flight'[q] = flight[q]
    BY <1>3 DEF SaveEvent, IInv
  <2>2. recovery' \subseteq Receipts /\ \A q \in recovery' : signed'[q] > 0
    <3>1. ASSUME NEW q \in recovery PROVE q \in Receipts /\ signed[q] > 0 /\ signed[q] <= signed'[q]
      BY <1>1 DEF IInv, ReceiptFacts
    <3>2. ASSUME NEW q \in Receipts PROVE signed[q] \in Int /\ signed'[q] \in Int
      BY <1>1 DEF IInv
    <3> QED
      BY <3>1, <3>2 DEF SaveEvent
  <2> QED
    BY <1>1, <2>1, <2>2, FlightsMove DEF SaveEvent
<1> QED
  BY <1>2, <1>3

LEMMA RecheckKeeps ==
  ASSUME IInv, NEW r \in Receipts, Recheck(r) PROVE IInv'
<1>1. /\ signed' \in [Receipts -> 0..2] /\ \A q \in Receipts : signed[q] <= signed'[q]
      /\ signed'[r] > 0
  BY DEF IInv, Recheck
<1> QED
  BY <1>1, StartFacts DEF Recheck

LEMMA RecoverKeeps ==
  ASSUME IInv, Recover PROVE IInv'
<1>1. PICK r \in recovery : At(r, "idle") /\ UNCHANGED signed /\ Start(r)
  BY DEF Recover
<1>2. r \in Receipts /\ signed[r] > 0
  BY DEF IInv, ReceiptFacts
<1>3. /\ signed' \in [Receipts -> 0..2] /\ \A q \in Receipts : signed[q] <= signed'[q]
      /\ signed'[r] > 0
  BY <1>1, <1>2 DEF IInv
<1> QED
  BY <1>1, <1>2, <1>3, StartFacts DEF Recover

LEMMA AlarmKeeps ==
  ASSUME IInv, Alarm PROVE IInv'
<1>1. ASSUME NEW r \in recovery' PROVE r \in Receipts /\ signed'[r] > 0
  <2>1. r \in Receipts /\ NeedsRecovery(r) /\ signed[r] \in 0..2
    BY DEF Alarm, IInv
  <2> QED
    BY <2>1 DEF NeedsRecovery, Alarm
<1>2. /\ signed' \in [Receipts -> 0..2] /\ \A q \in Receipts : signed[q] <= signed'[q]
      /\ flight' \in [Receipts -> {Idle} \cup FlightType]
      /\ \A q \in Receipts : flight'[q] = flight[q]
  BY DEF Alarm, IInv
<1> QED
  BY <1>1, <1>2, FlightsMove DEF Alarm

LEMMA StopKeeps ==
  ASSUME IInv, Stop PROVE IInv'
<1>1. /\ signed' \in [Receipts -> 0..2] /\ \A q \in Receipts : signed[q] <= signed'[q]
      /\ flight' \in [Receipts -> {Idle} \cup FlightType]
      /\ \A q \in Receipts : flight'[q] = Idle
  BY DEF Stop, IInv
<1>2. recovery' \subseteq Receipts /\ \A q \in recovery' : signed'[q] > 0
  BY DEF Stop
<1> QED
  BY <1>1, <1>2, FlightsMove DEF Stop

\* A flight moves and writes nothing.
LEMMA FlightGoes ==
  ASSUME IInv, UNCHANGED <<relay, signed, ops, posted>>, recovery' \subseteq recovery,
         NEW r \in Receipts, flight[r] # Idle,
         NEW f \in {Idle} \cup FlightType, flight' = [flight EXCEPT ![r] = f],
         f # Idle => LET e == <<r, f.event>> IN
                     FlightFacts(f, signed[r], ops[<<r, 1>>], ops[e], relay[e], posted[e])
  PROVE  IInv'
<1>1. /\ signed' \in [Receipts -> 0..2] /\ \A q \in Receipts : signed[q] <= signed'[q]
      /\ flight' \in [Receipts -> {Idle} \cup FlightType]
      /\ \A q \in Receipts : flight'[q] = IF q = r THEN f ELSE flight[q]
  BY DEF IInv
<1>2. recovery' \subseteq Receipts /\ \A q \in recovery' : signed'[q] > 0
  BY DEF IInv, ReceiptFacts
<1> QED
  BY <1>1, <1>2, FlightsMove

LEMMA EndEventKeeps ==
  ASSUME IInv, NEW r \in Receipts, EndEvent(r) PROVE IInv'
<1>1. flight[r] # Idle /\ flight[r].pc = "begin"
  BY DEF EndEvent, At, Idle
<1>2. CASE Land(r, TRUE)
  BY <1>1, <1>2, LandEffect, FlightGoes DEF EndEvent
<1>3. CASE /\ GoesOn(r) /\ flight[r].event < flight[r].upTo
           /\ flight' = [flight EXCEPT ![r].event = 2] /\ UNCHANGED recovery
  <2> SUFFICES ASSUME NEW f, f = [flight[r] EXCEPT !.event = 2] PROVE IInv'
    OBVIOUS
  <2>1. /\ flight[r] \in FlightType /\ flight[r].upTo <= signed[r] /\ flight[r].event \in {1, 2}
        /\ flight[r].upTo \in {1, 2}
    BY <1>1, Here DEF FlightType
  <2>2. flight[r].event = 1 /\ flight[r].upTo = 2
    BY <1>3, <2>1
  <2>3. f \in FlightType /\ f.pc = "begin" /\ f.event = 2 /\ f.upTo = 2
    BY <1>1, <2>1, <2>2 DEF FlightType
  <2>4. ops[<<r, 1>>].state = "CHAIN_EVIDENCE_CONFIRMED"
    BY <1>3, <2>2 DEF GoesOn, Op, Current
  <2>5. FlightFacts(f, signed[r], ops[<<r, 1>>], ops[<<r, 2>>], relay[<<r, 2>>], posted[<<r, 2>>])
    BY <2>1, <2>2, <2>3, <2>4 DEF FlightFacts
  <2>6. flight' = [flight EXCEPT ![r] = f]
    BY <1>3
  <2> QED
    BY <1>1, <1>3, <2>3, <2>5, <2>6, FlightGoes DEF EndEvent
<1> QED
  BY <1>2, <1>3 DEF EndEvent

\* A flight that stays at its operation and writes nothing.
LEMMA GoesTo ==
  ASSUME IInv, UNCHANGED <<relay, signed, ops, posted>>, recovery' \subseteq recovery,
         NEW r \in Receipts, flight[r] # Idle, Op(r).state \notin {"NONE", "CHAIN_EVIDENCE_CONFIRMED"},
         NEW pc \in {"poll", "discover", "verify"}, NEW hash \in Hashes,
         pc = "poll" => Op(r).token,
         flight' = [flight EXCEPT ![r] = [flight[r] EXCEPT !.pc = pc, !.hash = hash]]
  PROVE  IInv'
<1> SUFFICES ASSUME NEW f, f = [flight[r] EXCEPT !.pc = pc, !.hash = hash] PROVE IInv'
  OBVIOUS
<1>1. flight[r] \in FlightType
  BY Here
<1>2. f \in FlightType /\ f.pc = pc /\ f.event = flight[r].event /\ f.upTo = flight[r].upTo
  BY <1>1 DEF FlightType
<1>3. FlightFacts(flight[r], signed[r], ops[<<r, 1>>], Op(r), relay[Current(r)], posted[Current(r)])
  BY Here
<1>4. flight[r] # Idle /\ Current(r) = <<r, f.event>> /\ Op(r) = ops[<<r, f.event>>]
  BY <1>2 DEF Current, Op
<1>5. FlightFacts(f, signed[r], ops[<<r, 1>>], ops[<<r, f.event>>], relay[<<r, f.event>>],
                  posted[<<r, f.event>>])
  BY <1>2, <1>3, <1>4 DEF FlightFacts
<1> QED
  BY <1>2, <1>5, FlightGoes

LEMMA RunsFacts ==
  ASSUME IInv, NEW r \in Receipts, At(r, "begin"), Runs(Op(r))
  PROVE  /\ flight[r] # Idle /\ flight[r] \in FlightType
         /\ Op(r).state \notin {"NONE", "CHAIN_EVIDENCE_CONFIRMED", "FINAL_FAILURE"}
         /\ ValidOperation(Op(r)) /\ Op(r).hash \in Hashes
<1>1. flight[r] # Idle
  BY DEF At, Idle
<1> QED
  BY <1>1, Here DEF Runs, ValidOperation

LEMMA ResumeKeeps ==
  ASSUME IInv, NEW r \in Receipts, Resume(r) PROVE IInv'
<1>1. /\ flight[r] # Idle /\ flight[r] \in FlightType
      /\ Op(r).state \notin {"NONE", "CHAIN_EVIDENCE_CONFIRMED"} /\ Op(r).hash \in Hashes
  BY RunsFacts DEF Resume
<1>2. flight[r].hash \in Hashes
  BY <1>1 DEF FlightType
<1>3. CASE flight' = [flight EXCEPT ![r].pc = "verify", ![r].hash = Op(r).hash]
  <2>1. flight' = [flight EXCEPT ![r] = [flight[r] EXCEPT !.pc = "verify", !.hash = Op(r).hash]]
    BY <1>3 DEF IInv
  <2> QED
    BY <1>1, <2>1, GoesTo DEF Resume
<1>4. CASE Op(r).token /\ flight' = [flight EXCEPT ![r].pc = "poll"]
  <2>1. flight' = [flight EXCEPT ![r] = [flight[r] EXCEPT !.pc = "poll", !.hash = flight[r].hash]]
    BY <1>1, <1>4 DEF IInv, FlightType
  <2> QED
    BY <1>1, <1>2, <1>4, <2>1, GoesTo DEF Resume
<1> QED
  BY <1>3, <1>4 DEF Resume

LEMMA PollKeeps ==
  ASSUME IInv, NEW r \in Receipts, Poll(r) PROVE IInv'
<1>1. /\ flight[r] # Idle /\ Op(r).state \notin {"NONE", "CHAIN_EVIDENCE_CONFIRMED"}
      /\ ValidOperation(Op(r)) /\ flight[r] \in FlightType
  BY Busy DEF Poll, At
<1>2. flight[r].hash \in Hashes /\ Op(r).hash \in Hashes
  BY <1>1 DEF FlightType, ValidOperation
<1>3. CASE Land(r, TRUE)
  BY <1>1, <1>3, LandEffect, FlightGoes DEF Poll
<1>4. CASE Goto(r, "discover")
  <2>1. flight' = [flight EXCEPT ![r] = [flight[r] EXCEPT !.pc = "discover", !.hash = flight[r].hash]]
    BY <1>1, <1>4 DEF IInv, FlightType, Goto
  <2> QED
    BY <1>1, <1>2, <1>4, <2>1, GoesTo DEF Poll, Goto
<1>5. CASE flight' = [flight EXCEPT ![r].pc = "verify", ![r].hash = Op(r).hash] /\ UNCHANGED recovery
  <2>1. flight' = [flight EXCEPT ![r] = [flight[r] EXCEPT !.pc = "verify", !.hash = Op(r).hash]]
    BY <1>5 DEF IInv
  <2> QED
    BY <1>1, <1>2, <1>5, <2>1, GoesTo DEF Poll
<1> QED
  BY <1>3, <1>4, <1>5 DEF Poll

LEMMA DiscoverKeeps ==
  ASSUME IInv, NEW r \in Receipts, Discover(r) PROVE IInv'
<1>1. /\ flight[r] # Idle /\ Op(r).state \notin {"NONE", "CHAIN_EVIDENCE_CONFIRMED"}
  BY Busy DEF Discover, At
<1>2. PICK h \in {"relay", "other"} : flight' = [flight EXCEPT ![r].pc = "verify", ![r].hash = h]
  BY DEF Discover
<1>3. flight' = [flight EXCEPT ![r] = [flight[r] EXCEPT !.pc = "verify", !.hash = h]] /\ h \in Hashes
  BY <1>2 DEF IInv, Hashes
<1> QED
  BY <1>1, <1>3, GoesTo DEF Discover

-----------------------------------------------------------------------------
(* Flights write *)

\* The flight leaves the operation as it is.
LEMMA KeepsOp ==
  ASSUME IInv, RowsGrow, UNCHANGED <<signed, ops, posted>>, recovery' \subseteq recovery,
         NEW r \in Receipts, flight[r].pc \notin {"idle", "begin"},
         NEW f \in {Idle} \cup FlightType, flight' = [flight EXCEPT ![r] = f],
         f # Idle => f.event = flight[r].event /\ f.upTo = flight[r].upTo /\ f.pc \in {"discover", "verify"}
  PROVE  IInv'
<1>1. /\ flight[r] # Idle /\ Op(r).state \notin {"NONE", "CHAIN_EVIDENCE_CONFIRMED"}
      /\ ValidOperation(Op(r))
  BY Busy
<1>2. /\ Current(r) \in Events /\ Op(r) = ops[Current(r)]
      /\ OpFacts(Op(r), relay[Current(r)], posted[Current(r)])
  BY <1>1, Here
<1>3. Store(r, Op(r))
  BY <1>2 DEF IInv, Store
<1>4. Op(r).state = "FINAL_FAILURE" => Hopeless(relay'[Current(r)])
  BY <1>2 DEF OpFacts, RowsGrow, Grows
<1> QED
  BY <1>1, <1>3, <1>4, OpMoves

\* A save that counts.
LEMMA SaveKeeps ==
  ASSUME IInv, RowsGrow, UNCHANGED <<signed, posted>>,
         NEW r \in Receipts, flight[r].pc \notin {"idle", "begin"},
         NEW pc \in {"get", "verifying"}, NEW o \in OpShape, Save(r, o, pc),
         o.blob = Op(r).blob, o.token = Op(r).token,
         o.state \notin {"CHAIN_EVIDENCE_CONFIRMED", "FINAL_FAILURE"},
         pc = "get" => Op(r).token /\ flight[r].poll < PollsPerWake
  PROVE  IInv'
<1>1. /\ flight[r] # Idle /\ Op(r).state \notin {"NONE", "CHAIN_EVIDENCE_CONFIRMED"}
      /\ flight[r] \in FlightType
  BY Busy
<1>2. CASE Refused(Op(r), o)
  <2>1. flight' = [flight EXCEPT ![r] = Idle] /\ recovery' \subseteq recovery /\ UNCHANGED ops
    BY <1>2, LandEffect DEF Save
  <2> QED
    BY <2>1, KeepsOp
<1>3. CASE ~Refused(Op(r), o)
  <2>1. ValidOperation(o)
    BY <1>3, Fits
  <2> SUFFICES ASSUME NEW f, f = [flight[r] EXCEPT !.pc = pc] PROVE IInv'
    OBVIOUS
  <2>2. f \in FlightType /\ f.pc = pc /\ f.event = flight[r].event /\ f.upTo = flight[r].upTo
        /\ f.poll = flight[r].poll
    BY <1>1 DEF FlightType
  <2>3. flight' = [flight EXCEPT ![r] = f] /\ UNCHANGED recovery /\ Store(r, o)
    BY <1>3 DEF Save, Goto
  <2> QED
    BY <1>1, <2>1, <2>2, <2>3, OpMoves
<1> QED
  BY <1>2, <1>3

LEMMA EnsureKeeps ==
  ASSUME IInv, NEW r \in Receipts, Ensure(r) PROVE IInv'
<1>1. flight[r] # Idle /\ flight[r].pc = "begin" /\ Op(r) = NoOp
  BY DEF Ensure, At, Idle
<1>2. PICK p : p = posted[Current(r)]
  OBVIOUS
<1>3. /\ Current(r) \in Events /\ OpFacts(NoOp, relay[Current(r)], p) /\ flight[r] \in FlightType
      /\ FlightFacts(flight[r], signed[r], ops[<<r, 1>>], NoOp, relay[Current(r)], p)
      /\ Current(r) = <<r, flight[r].event>> /\ flight[r].event \in {1, 2}
  BY <1>1, <1>2, Here
<1>4. p = {} /\ posted' = [posted EXCEPT ![Current(r)] = p]
  BY <1>2, <1>3 DEF OpFacts, Ensure, IInv
<1>5. /\ ValidOperation(NewOp) /\ NewOp.state = "SAVED_LOCALLY" /\ NewOp.token = FALSE
  BY AnchorAssumption DEF NewOp, ValidOperation, OpStates, NoBlob, Hashes
<1>6. RowsGrow
  BY RequestsGrow, <1>3 DEF IInv, Ensure
<1>7. OpFacts(NewOp, relay'[Current(r)], p)
  BY <1>4, <1>5 DEF OpFacts
<1>8. FlightFacts(flight[r], signed[r], IF flight[r].event = 2 THEN ops[<<r, 1>>] ELSE NewOp, NewOp,
                  relay'[Current(r)], p)
  BY <1>1, <1>3 DEF FlightFacts
<1>9. flight' = [flight EXCEPT ![r] = flight[r]] /\ ops' = [ops EXCEPT ![Current(r)] = NewOp]
  BY DEF IInv, Ensure, Store
<1>10. NoOp.state # "CHAIN_EVIDENCE_CONFIRMED" /\ UNCHANGED signed /\ recovery' \subseteq recovery
  BY DEF NoOp, Ensure
<1> QED
  BY <1>1, <1>3, <1>4, <1>6, <1>7, <1>8, <1>9, <1>10, FlightMoves

LEMMA EnvelopeRange ==
  ASSUME NEW r, signed[r] \in {1, 2}
  PROVE  Envelope(r) \in 1..4
<1> DEFINE done == {i \in {1, 2} : ops[<<r, i>>].state = "CHAIN_EVIDENCE_CONFIRMED"}
<1>1. IsFiniteSet(1..2) /\ Cardinality(1..2) = 2
  <2>1. PICK a \in Int, b \in Int : a = 1 /\ b = 2
    OBVIOUS
  <2>2. IsFiniteSet(a..b) /\ Cardinality(a..b) = IF a > b THEN 0 ELSE b - a + 1
    BY FS_Interval
  <2> QED
    BY <2>1, <2>2
<1>2. Cardinality(done) <= 2 /\ Cardinality(done) \in Nat
  <2>1. done \subseteq 1..2
    OBVIOUS
  <2>2. IsFiniteSet(done) /\ Cardinality(done) <= Cardinality(1..2)
    BY <1>1, <2>1, FS_Subset
  <2> QED
    BY <1>1, <2>2, FS_CardinalityType
<1> QED
  BY <1>2 DEF Envelope

LEMMA SendUploadKeeps ==
  ASSUME IInv, NEW r \in Receipts, SendUpload(r) PROVE IInv'
<1>1. /\ flight[r] # Idle /\ flight[r] \in FlightType
      /\ Op(r).state \notin {"NONE", "CHAIN_EVIDENCE_CONFIRMED"} /\ ValidOperation(Op(r))
  BY RunsFacts DEF SendUpload
<1>2. Envelope(r) \in 1..4
  <2>1. signed[r] \in {1, 2}
    BY <1>1, Here
  <2> QED
    BY <2>1, EnvelopeRange
<1> SUFFICES ASSUME NEW o, o = [Counted(Op(r), "uploads") EXCEPT
                                  !.state = "UPLOADING_ENCRYPTED_PROOF", !.alreadyAnchored = FALSE]
             PROVE  IInv'
  OBVIOUS
<1>3. /\ o \in OpShape /\ o.state = "UPLOADING_ENCRYPTED_PROOF"
      /\ o.blob = Op(r).blob /\ o.token = Op(r).token
  <2>1. PICK c : c = Counted(Op(r), "uploads")
    OBVIOUS
  <2>2. c \in OpShape /\ c.blob = Op(r).blob /\ c.token = Op(r).token
    BY <1>1, <2>1, CountedShape
  <2> QED
    BY <2>1, <2>2 DEF OpShape, OpStates
<1>4. RowsGrow
  BY RequestsGrow, <1>1, Here DEF IInv, SendUpload
<1>5. CASE Refused(Op(r), o)
  BY <1>1, <1>5, LandEffect, FlightGoes DEF SendUpload
<1>6. CASE ~Refused(Op(r), o)
  <2>1. ValidOperation(o)
    BY <1>3, <1>6, Fits
  <2>0. PICK v \in 1..4 : v = Envelope(r) /\ v \in 0..4
    BY <1>2
  <2> SUFFICES ASSUME NEW f, f = [flight[r] EXCEPT !.pc = "upload", !.envelope = v] PROVE IInv'
    OBVIOUS
  <2>2. /\ f \in FlightType /\ f.pc = "upload" /\ f.event = flight[r].event /\ f.upTo = flight[r].upTo
        /\ f.envelope = v
    BY <1>1, <2>0 DEF FlightType
  <2>3. flight' = [flight EXCEPT ![r] = f] /\ UNCHANGED <<recovery, signed, posted>> /\ Store(r, o)
        /\ Op(r).blob = NoBlob
    BY <1>6, <2>0 DEF SendUpload, IInv
  <2>4. f.envelope # NoBlob /\ o.blob = NoBlob
    BY <1>3, <2>2, <2>3 DEF NoBlob
  <2> QED
    BY <1>1, <1>3, <1>4, <2>1, <2>2, <2>3, <2>4, OpMoves
<1> QED
  BY <1>5, <1>6

LEMMA UploadAnsweredKeeps ==
  ASSUME IInv, NEW r \in Receipts, UploadAnswered(r) PROVE IInv'
<1>1. /\ flight[r] # Idle /\ flight[r] \in FlightType /\ flight[r].pc = "upload"
      /\ Op(r).state \notin {"NONE", "CHAIN_EVIDENCE_CONFIRMED"} /\ ValidOperation(Op(r))
  BY Busy DEF UploadAnswered, At
<1>2. PICK p : p = posted[Current(r)]
  OBVIOUS
<1>3. /\ Current(r) \in Events /\ OpFacts(Op(r), relay[Current(r)], p)
      /\ FlightFacts(flight[r], signed[r], ops[<<r, 1>>], Op(r), relay[Current(r)], p)
  BY <1>1, <1>2, Here
<1>4. /\ Op(r).blob = NoBlob /\ flight[r].envelope # NoBlob /\ p = {}
      /\ posted' = [posted EXCEPT ![Current(r)] = p]
  <2>1. Op(r).blob = NoBlob /\ flight[r].envelope # NoBlob
    BY <1>1, <1>3 DEF FlightFacts
  <2> QED
    BY <1>2, <1>3, <2>1 DEF OpFacts, UploadAnswered, IInv
<1>5. RowsGrow
  BY RequestsGrow, <1>3 DEF IInv, UploadAnswered
<1> SUFFICES ASSUME NEW o, o = [Op(r) EXCEPT !.blob = flight[r].envelope, !.state = "ENCRYPTED_PROOF_UPLOADED"]
             PROVE  IInv'
  OBVIOUS
<1>6. TrySave(r, o, "begin") /\ UNCHANGED <<signed, posted>>
  BY DEF UploadAnswered
<1>7. ValidOperation(o) /\ o.state = "ENCRYPTED_PROOF_UPLOADED" /\ o.token = Op(r).token
  BY <1>1 DEF ValidOperation, FlightType, OpStates
<1>8. CASE Refused(Op(r), o)
  BY <1>1, <1>5, <1>6, <1>8, Fails DEF TrySave, OpStates, Recoverable
<1>9. CASE ~Refused(Op(r), o)
  <2> SUFFICES ASSUME NEW f, f = [flight[r] EXCEPT !.pc = "begin"] PROVE IInv'
    OBVIOUS
  <2>1. f \in FlightType /\ f.pc = "begin" /\ f.event = flight[r].event /\ f.upTo = flight[r].upTo
    BY <1>1 DEF FlightType
  <2>2. /\ flight' = [flight EXCEPT ![r] = f] /\ recovery' \subseteq recovery
        /\ ops' = [ops EXCEPT ![Current(r)] = o]
    BY <1>6, <1>9 DEF TrySave, Goto, Store
  <2>3. OpFacts(o, relay'[Current(r)], p)
    <3>1. Op(r) # NoOp
      BY <1>1 DEF NoOp
    <3> QED
      BY <1>3, <1>4, <1>7, <3>1 DEF OpFacts, UploadAnswered
  <2>4. FlightFacts(f, signed[r], IF f.event = 2 THEN ops[<<r, 1>>] ELSE o, o, relay'[Current(r)], p)
    BY <1>1, <1>3, <2>1 DEF FlightFacts
  <2> QED
    BY <1>1, <1>4, <1>5, <1>6, <2>1, <2>2, <2>3, <2>4, FlightMoves
<1> QED
  BY <1>8, <1>9

LEMMA SendPostKeeps ==
  ASSUME IInv, NEW r \in Receipts, SendPost(r) PROVE IInv'
<1>1. /\ flight[r] # Idle /\ flight[r] \in FlightType
      /\ Op(r).state \notin {"NONE", "CHAIN_EVIDENCE_CONFIRMED"} /\ ValidOperation(Op(r))
  BY RunsFacts DEF SendPost
<1>2. /\ Current(r) \in Events /\ OpFacts(Op(r), relay[Current(r)], posted[Current(r)])
      /\ FlightFacts(flight[r], signed[r], ops[<<r, 1>>], Op(r), relay[Current(r)], posted[Current(r)])
  BY <1>1, Here
<1> SUFFICES ASSUME NEW o, o = [Counted(Op(r), "relayRequests") EXCEPT
                                  !.state = "REQUESTING_MONAD_ANCHOR", !.alreadyAnchored = FALSE]
             PROVE  IInv'
  OBVIOUS
<1>3. /\ o \in OpShape /\ o.state = "REQUESTING_MONAD_ANCHOR"
      /\ o.blob = Op(r).blob /\ o.token = Op(r).token
  <2>1. PICK c : c = Counted(Op(r), "relayRequests")
    OBVIOUS
  <2>2. c \in OpShape /\ c.blob = Op(r).blob /\ c.token = Op(r).token
    BY <1>1, <2>1, CountedShape
  <2> QED
    BY <2>1, <2>2 DEF OpShape, OpStates
<1>4. Save(r, o, "post") /\ UNCHANGED signed
  BY DEF SendPost
<1>5. CASE Refused(Op(r), o)
  <2>1. Land(r, FALSE) /\ UNCHANGED <<relay, signed, ops, posted>>
    BY <1>4, <1>5 DEF SendPost, Save
  <2> QED
    BY <1>1, <2>1, LandEffect, FlightGoes
<1>6. CASE ~Refused(Op(r), o)
  <2>1. ValidOperation(o)
    BY <1>3, <1>6, Fits
  <2>2. PICK p : p = {o.blob}
    OBVIOUS
  <2>3. /\ Op(r).blob \in 1..4 /\ p \in SUBSET (1..4) /\ Op(r) # NoOp /\ o # NoOp /\ p # {}
    <3>1. Op(r).blob \in 0..4 /\ Op(r).blob # 0
      BY <1>1 DEF SendPost, ValidOperation, NoBlob
    <3>2. Op(r) # NoOp /\ o # NoOp
      <4>1. NoOp.state = "NONE"
        BY DEF NoOp
      <4> QED
        BY <1>1, <1>3, <4>1
    <3> QED
      BY <1>3, <2>2, <3>1, <3>2
  <2>4. posted' = [posted EXCEPT ![Current(r)] = p]
    <3>1. posted[Current(r)] \cup {PostedBlob(r)} = p
      BY <1>2, <1>3, <2>2 DEF OpFacts, PostedBlob
    <3> QED
      BY <1>6, <3>1 DEF SendPost
  <2>5. RowsGrow
    BY <1>2, <1>6, RequestsGrow DEF SendPost, IInv
  <2> SUFFICES ASSUME NEW f, f = [flight[r] EXCEPT !.pc = "post"] PROVE IInv'
    OBVIOUS
  <2>6. f \in FlightType /\ f.pc = "post" /\ f.event = flight[r].event /\ f.upTo = flight[r].upTo
    BY <1>1 DEF FlightType
  <2>7. /\ flight' = [flight EXCEPT ![r] = f] /\ recovery' \subseteq recovery
        /\ ops' = [ops EXCEPT ![Current(r)] = o]
    BY <1>4, <1>6 DEF Save, Goto, Store
  <2>8. OpFacts(o, relay'[Current(r)], p)
    <3>1. Op(r).token => relay[Current(r)].row # "NONE"
      BY <1>2, <2>3 DEF OpFacts
    <3>2. Grows(relay[Current(r)], relay'[Current(r)])
      BY <1>2, <2>5 DEF RowsGrow
    <3> QED
      BY <1>3, <2>1, <2>2, <2>3, <3>1, <3>2 DEF OpFacts, Grows, NoBlob
  <2>9. FlightFacts(f, signed[r], IF f.event = 2 THEN ops[<<r, 1>>] ELSE o, o, relay'[Current(r)], p)
    BY <1>1, <1>2, <1>3, <2>3, <2>6 DEF FlightFacts
  <2> QED
    BY <1>1, <1>4, <2>3, <2>4, <2>5, <2>6, <2>7, <2>8, <2>9, FlightMoves
<1> QED
  BY <1>5, <1>6

LEMMA ViewType ==
  ASSUME NEW e, relay[e] \in RowType
  PROVE  View(e) \in [row : Relay!States, hash : Hashes] /\ View(e).row = relay[e].row
BY DEF View, RowType, Hashes

\* The state a view of the row w gives the operation.
LEMMA ViewState ==
  ASSUME NEW v, v.row \in Relay!States, v.row # "NONE",
         NEW w, RowFacts(w), v.row \in Relay!Terminal => v.row = "CONFIRMED" \/ w.row = v.row
  PROVE  /\ LocalState(v) \in OpStates \ {"CHAIN_EVIDENCE_CONFIRMED"}
         /\ LocalState(v) = "FINAL_FAILURE" => Hopeless(w)
<1>1. v.row \in {"READY", "SUBMITTING", "SUBMITTED", "FAILED_RETRYABLE", "CONFIRMED", "REVERTED", "FAILED_FINAL"}
  BY DEF Relay!States, Relay!Terminal
<1>2. v.row \in {"REVERTED", "FAILED_FINAL"} => Hopeless(w)
  BY DEF Relay!Terminal, RowFacts, Hopeless
<1>3. LocalState(v) =
        CASE v.row \in {"READY", "SUBMITTING"} -> "WAITING_FOR_TRANSACTION"
          [] v.row = "SUBMITTED" -> "WAITING_FOR_CONFIRMATIONS"
          [] v.row = "CONFIRMED" -> "VERIFYING_CONTRACT_STATE"
          [] v.row = "FAILED_RETRYABLE" -> "RETRYABLE_FAILURE"
          [] OTHER -> "FINAL_FAILURE"
  BY DEF LocalState
<1> QED
  BY <1>1, <1>2, <1>3 DEF OpStates, Recoverable

LEMMA WithViewFits ==
  ASSUME NEW o, ValidOperation(o), NEW v \in [row : Relay!States, hash : Hashes], v.row # "NONE",
         NEW w, RowFacts(w), v.row \in Relay!Terminal => v.row = "CONFIRMED" \/ w.row = v.row
  PROVE  /\ ValidOperation(WithView(o, v)) /\ WithView(o, v).blob = o.blob
         /\ WithView(o, v).token = TRUE
         /\ WithView(o, v).state # "CHAIN_EVIDENCE_CONFIRMED"
         /\ WithView(o, v).state = "FINAL_FAILURE" => Hopeless(w)
<1>1. PICK s : s = LocalState(v)
  OBVIOUS
<1>2. PICK h : h = IF v.hash = "none" THEN o.hash ELSE v.hash
  OBVIOUS
<1>3. PICK a \in BOOLEAN : a = (v.row = "FAILED_FINAL")
  OBVIOUS
<1>4. s \in OpStates \ {"CHAIN_EVIDENCE_CONFIRMED"} /\ (s = "FINAL_FAILURE" => Hopeless(w))
  BY <1>1, ViewState
<1>5. h \in Hashes
  BY <1>2 DEF ValidOperation
<1> SUFFICES ASSUME NEW n, n = [o EXCEPT !.state = s, !.token = TRUE, !.hash = h, !.alreadyAnchored = a]
             PROVE  /\ ValidOperation(n) /\ n.blob = o.blob /\ n.token = TRUE
                    /\ n.state # "CHAIN_EVIDENCE_CONFIRMED"
                    /\ n.state = "FINAL_FAILURE" => Hopeless(w)
  BY <1>1, <1>2, <1>3 DEF WithView
<1> QED
  BY <1>4, <1>5 DEF ValidOperation

LEMMA PostAnsweredKeeps ==
  ASSUME IInv, NEW r \in Receipts, PostAnswered(r) PROVE IInv'
<1>1. /\ flight[r] # Idle /\ flight[r] \in FlightType
      /\ Op(r).state \notin {"NONE", "CHAIN_EVIDENCE_CONFIRMED"} /\ ValidOperation(Op(r))
  BY Busy DEF PostAnswered, At
<1>2. PICK v : v = View(Current(r))
  OBVIOUS
<1>3. /\ Current(r) \in Events /\ v \in [row : Relay!States, hash : Hashes]
      /\ v.row = relay[Current(r)].row /\ v.row # "NONE"
  BY <1>1, <1>2, Here, ViewType DEF PostAnswered
<1>4. RowsGrow /\ relay' = relay /\ UNCHANGED <<signed, posted>>
  BY RequestsGrow, <1>3 DEF IInv, PostAnswered
<1> SUFFICES ASSUME NEW o, o = [Op(r) EXCEPT !.state = "SUBMITTED_TO_RELAY", !.token = TRUE, !.hash = v.hash]
             PROVE  IInv'
  OBVIOUS
<1>5. /\ ValidOperation(o) /\ o.blob = Op(r).blob /\ o.token = TRUE
      /\ o.state = "SUBMITTED_TO_RELAY"
  BY <1>1, <1>3 DEF ValidOperation, OpStates
<1>6. CASE Refused(Op(r), o)
  <2>1. SaveAndReturn(r, Failed(r, "RELAY_UNAVAILABLE"))
    BY <1>2, <1>6 DEF PostAnswered
  <2> QED
    BY <1>1, <1>4, <2>1, Fails DEF OpStates, Recoverable
<1>7. CASE ~Refused(Op(r), o)
  <2> SUFFICES ASSUME NEW f, f = [flight[r] EXCEPT !.pc = "submitted", !.view = v] PROVE IInv'
    OBVIOUS
  <2>1. f \in FlightType /\ f.pc = "submitted" /\ f.event = flight[r].event /\ f.upTo = flight[r].upTo
        /\ f.view = v
    BY <1>1, <1>3 DEF FlightType
  <2>2. Store(r, o) /\ flight' = [flight EXCEPT ![r] = f] /\ recovery' \subseteq recovery
    BY <1>2, <1>7 DEF PostAnswered, IInv
  <2>3. f.view.row # "NONE" /\ relay'[Current(r)].row = f.view.row
    BY <1>3, <1>4, <2>1
  <2>4. UNCHANGED signed /\ UNCHANGED posted
    BY <1>4
  <2> QED
    BY <1>1, <1>4, <1>5, <2>1, <2>2, <2>3, <2>4, OpMoves
<1> QED
  BY <1>6, <1>7

LEMMA SaveViewKeeps ==
  ASSUME IInv, NEW r \in Receipts, SaveView(r) PROVE IInv'
<1>1. /\ flight[r] # Idle /\ flight[r] \in FlightType /\ flight[r].pc = "submitted"
      /\ Op(r).state \notin {"NONE", "CHAIN_EVIDENCE_CONFIRMED"} /\ ValidOperation(Op(r))
  BY Busy DEF SaveView, At
<1>2. PICK v : v = flight[r].view
  OBVIOUS
<1>3. /\ Current(r) \in Events /\ v \in [row : Relay!States, hash : Hashes]
      /\ RowFacts(relay[Current(r)]) /\ Op(r).token
      /\ v.row # "NONE" /\ (v.row \in Relay!Terminal => relay[Current(r)].row = v.row)
  BY <1>1, <1>2, Here DEF FlightFacts, FlightType
<1>4. RowsGrow /\ relay' = relay /\ UNCHANGED <<signed, posted>>
  BY RequestsGrow, <1>3 DEF IInv, SaveView
<1> SUFFICES ASSUME NEW o, o = WithView(Op(r), v) PROVE IInv'
  OBVIOUS
<1>5. /\ ValidOperation(o) /\ o.blob = Op(r).blob /\ o.token = TRUE
      /\ o.state # "CHAIN_EVIDENCE_CONFIRMED"
      /\ o.state = "FINAL_FAILURE" => Hopeless(relay[Current(r)])
  BY <1>1, <1>3, WithViewFits
<1>6. TrySave(r, o, "poll")
  BY <1>2 DEF SaveView
<1>7. CASE Refused(Op(r), o)
  BY <1>1, <1>4, <1>6, <1>7, Fails DEF TrySave, OpStates, Recoverable
<1>8. CASE ~Refused(Op(r), o)
  <2> SUFFICES ASSUME NEW f, f = [flight[r] EXCEPT !.pc = "poll"] PROVE IInv'
    OBVIOUS
  <2>1. f \in FlightType /\ f.pc = "poll" /\ f.event = flight[r].event /\ f.upTo = flight[r].upTo
    BY <1>1 DEF FlightType
  <2>2. Store(r, o) /\ flight' = [flight EXCEPT ![r] = f] /\ recovery' \subseteq recovery
    BY <1>6, <1>8 DEF TrySave, Goto, IInv
  <2> QED
    BY <1>1, <1>3, <1>4, <1>5, <2>1, <2>2, OpMoves
<1> QED
  BY <1>7, <1>8

\* The relay refuses nothing the workflow sends it for a reason of its own: only an
\* event that somebody else has anchored.
LEMMA NeverRefused ==
  ASSUME IInv, NEW r \in Receipts, At(r, "post")
  PROVE  /\ ~Conflicts(r)
         /\ Current(r)[2] = 2 => relay[<<r, 1>>].by # "nobody"
<1>1. flight[r] # Idle /\ flight[r].pc = "post"
  BY DEF At, Idle
<1>2. /\ OpFacts(Op(r), relay[Current(r)], posted[Current(r)])
      /\ FlightFacts(flight[r], signed[r], ops[<<r, 1>>], Op(r), relay[Current(r)], posted[Current(r)])
      /\ <<r, 1>> \in Events /\ Current(r) = <<r, flight[r].event>> /\ flight[r].event \in {1, 2}
  BY <1>1, Here
<1>3. ~Conflicts(r)
  <2>1. posted[Current(r)] # {}
    BY <1>1, <1>2 DEF FlightFacts
  <2> QED
    BY <1>2, <2>1 DEF OpFacts, Conflicts, PostedBlob
<1>4. ASSUME Current(r)[2] = 2 PROVE relay[<<r, 1>>].by # "nobody"
  <2>1. flight[r].event = 2
    BY <1>2, <1>4
  <2>2. ops[<<r, 1>>].state = "CHAIN_EVIDENCE_CONFIRMED"
    BY <1>1, <1>2, <2>1 DEF FlightFacts
  <2>3. OpFacts(ops[<<r, 1>>], relay[<<r, 1>>], posted[<<r, 1>>])
    BY <1>2 DEF IInv
  <2> QED
    BY <2>2, <2>3 DEF OpFacts, AnchoredBy
<1> QED
  BY <1>3, <1>4

LEMMA PostRefusedKeeps ==
  ASSUME IInv, NEW r \in Receipts, PostRefused(r) PROVE IInv'
<1>1. /\ flight[r] # Idle /\ flight[r] \in FlightType /\ flight[r].pc = "post"
  BY Busy DEF PostRefused, At
<1>2. Current(r) \in Events /\ Current(r) = <<r, flight[r].event>>
  BY <1>1, Here
<1>3. RowsGrow /\ UNCHANGED <<signed, posted>>
  <2>1. relay[Current(r)].sending \in BOOLEAN
    BY <1>2 DEF IInv, RowType
  <2>2. \E b \in BOOLEAN : relay' = [relay EXCEPT ![Current(r)].posting = b]
    BY <2>1 DEF PostRefused
  <2> QED
    BY <1>2, <2>2, RequestsGrow DEF IInv, PostRefused
<1>4. Goto(r, "discover") /\ UNCHANGED ops
  <2>1. ~Conflicts(r) /\ (Current(r)[2] = 2 => relay[<<r, 1>>].by # "nobody")
    BY NeverRefused DEF PostRefused
  <2> QED
    BY <2>1 DEF PostRefused
<1> SUFFICES ASSUME NEW f, f = [flight[r] EXCEPT !.pc = "discover"] PROVE IInv'
  OBVIOUS
<1>5. f \in FlightType /\ f.pc = "discover" /\ f.event = flight[r].event /\ f.upTo = flight[r].upTo
  BY <1>1 DEF FlightType
<1>6. flight' = [flight EXCEPT ![r] = f] /\ recovery' \subseteq recovery
  BY <1>4 DEF Goto, IInv
<1> QED
  BY <1>1, <1>3, <1>4, <1>5, <1>6, KeepsOp

LEMMA RelayFailsKeeps ==
  ASSUME IInv, NEW r \in Receipts, RelayFails(r) PROVE IInv'
<1>1. /\ flight[r] # Idle /\ Op(r).state \notin {"NONE", "CHAIN_EVIDENCE_CONFIRMED"}
  BY Busy DEF RelayFails
<1>2. Current(r) \in Events
  BY <1>1, Here
<1>3. RowsGrow /\ UNCHANGED <<signed, posted>>
  BY RequestsGrow, <1>2 DEF IInv, RelayFails
<1>4. PICK state \in Recoverable : SaveAndReturn(r, Failed(r, state))
  BY DEF RelayFails
<1> QED
  BY <1>1, <1>3, <1>4, Fails DEF OpStates, Recoverable

LEMMA SendGetKeeps ==
  ASSUME IInv, NEW r \in Receipts, SendGet(r) PROVE IInv'
<1>1. /\ flight[r] # Idle /\ flight[r].pc = "poll" /\ ValidOperation(Op(r))
  BY Busy DEF SendGet, At
<1>2. /\ Current(r) \in Events
      /\ FlightFacts(flight[r], signed[r], ops[<<r, 1>>], Op(r), relay[Current(r)], posted[Current(r)])
  BY <1>1, Here
<1>3. Op(r).token /\ flight[r].poll < PollsPerWake
  BY <1>1, <1>2 DEF FlightFacts, SendGet
<1>4. PICK s \in {"WAITING_FOR_TRANSACTION", "WAITING_FOR_CONFIRMATIONS"} :
        s = IF Op(r).hash = "none" THEN "WAITING_FOR_TRANSACTION" ELSE "WAITING_FOR_CONFIRMATIONS"
  OBVIOUS
<1>5. PICK c : c = Counted(Op(r), "polls")
  OBVIOUS
<1>6. c \in OpShape /\ c.blob = Op(r).blob /\ c.token = Op(r).token
  BY <1>1, <1>5, CountedShape
<1> SUFFICES ASSUME NEW o, o = [c EXCEPT !.state = s] PROVE IInv'
  OBVIOUS
<1>7. o \in OpShape /\ o.blob = Op(r).blob /\ o.token = Op(r).token /\ o.state = s
  BY <1>4, <1>6 DEF OpShape, OpStates
<1>8. Save(r, o, "get") /\ UNCHANGED <<signed, posted>>
  BY <1>4, <1>5 DEF SendGet
<1>9. RowsGrow
  <2>1. Relay!Ask(Current(r)) \/ UNCHANGED relay
    BY DEF SendGet
  <2> QED
    BY <1>2, <2>1, RequestsGrow DEF IInv
<1> QED
  BY <1>1, <1>3, <1>4, <1>7, <1>8, <1>9, SaveKeeps

LEMMA GetAnsweredKeeps ==
  ASSUME IInv, NEW r \in Receipts, GetAnswered(r) PROVE IInv'
<1>1. /\ flight[r] # Idle /\ flight[r] \in FlightType /\ flight[r].pc = "get"
      /\ Op(r).state \notin {"NONE", "CHAIN_EVIDENCE_CONFIRMED"} /\ ValidOperation(Op(r))
  BY Busy DEF GetAnswered, At
<1>2. /\ Current(r) \in Events /\ relay[Current(r)] \in RowType /\ RowFacts(relay[Current(r)])
      /\ OpFacts(Op(r), relay[Current(r)], posted[Current(r)])
      /\ FlightFacts(flight[r], signed[r], ops[<<r, 1>>], Op(r), relay[Current(r)], posted[Current(r)])
  BY <1>1, Here
<1>3. Op(r).token /\ flight[r].poll < PollsPerWake /\ relay[Current(r)].row # "NONE"
  <2>1. Op(r).token /\ flight[r].poll < PollsPerWake /\ Op(r) # NoOp
    BY <1>1, <1>2, Here DEF FlightFacts
  <2> QED
    BY <1>2, <2>1 DEF OpFacts
<1>4. RowsGrow /\ UNCHANGED <<signed, posted>>
  BY RequestsGrow, <1>2 DEF IInv, GetAnswered
<1>5. PICK v \in {View(Current(r)), [View(Current(r)) EXCEPT !.row = "CONFIRMED"]} :
        LET o == WithView(Op(r), v) IN
        IF Refused(Op(r), o) THEN SaveAndReturn(r, Failed(r, "RELAY_UNAVAILABLE"))
        ELSE IF v.row = "REVERTED" THEN SaveAndReturn(r, o)
        ELSE /\ Store(r, o)
             /\ flight' = [flight EXCEPT
                  ![r].pc = CASE v.row = "CONFIRMED" -> "verify"
                              [] v.row = "FAILED_FINAL" -> "discover"
                              [] OTHER -> "poll",
                  ![r].poll = flight[r].poll + 1, ![r].hash = o.hash]
             /\ UNCHANGED recovery
  BY DEF GetAnswered
<1>6. /\ v \in [row : Relay!States, hash : Hashes] /\ v.row # "NONE"
      /\ v.row \in Relay!Terminal => v.row = "CONFIRMED" \/ relay[Current(r)].row = v.row
  <2>1. /\ View(Current(r)) \in [row : Relay!States, hash : Hashes]
        /\ View(Current(r)).row = relay[Current(r)].row
    BY <1>2, ViewType
  <2> QED
    BY <1>3, <2>1 DEF Relay!States, Relay!Terminal
<1> SUFFICES ASSUME NEW o, o = WithView(Op(r), v) PROVE IInv'
  OBVIOUS
<1>7. /\ ValidOperation(o) /\ o.blob = Op(r).blob /\ o.token = TRUE
      /\ o.state # "CHAIN_EVIDENCE_CONFIRMED"
      /\ o.state = "FINAL_FAILURE" => Hopeless(relay[Current(r)])
  <2>1. PICK w : w = relay[Current(r)]
    OBVIOUS
  <2>2. PICK u : u = v
    OBVIOUS
  <2>3. PICK n : n = Op(r)
    OBVIOUS
  <2>4. ValidOperation(n) /\ RowFacts(w)
    BY <1>1, <1>2, <2>1, <2>3
  <2>5. u \in [row : Relay!States, hash : Hashes] /\ u.row # "NONE"
    BY <1>6, <2>2
  <2>6. u.row \in Relay!Terminal => u.row = "CONFIRMED" \/ w.row = u.row
    BY <1>6, <2>1, <2>2
  <2>7. /\ ValidOperation(WithView(n, u)) /\ WithView(n, u).blob = n.blob
        /\ WithView(n, u).token = TRUE
        /\ WithView(n, u).state # "CHAIN_EVIDENCE_CONFIRMED"
        /\ WithView(n, u).state = "FINAL_FAILURE" => Hopeless(w)
    BY <2>4, <2>5, <2>6, WithViewFits
  <2> QED
    BY <2>1, <2>2, <2>3, <2>7
<1>8. o.state = "FINAL_FAILURE" => Hopeless(relay'[Current(r)])
  BY <1>2, <1>4, <1>7 DEF RowsGrow, Grows
<1>9. CASE Refused(Op(r), o)
  BY <1>1, <1>4, <1>5, <1>9, Fails DEF OpStates, Recoverable
<1>10. CASE ~Refused(Op(r), o) /\ v.row = "REVERTED"
  BY <1>1, <1>3, <1>4, <1>5, <1>7, <1>8, <1>10, Returns
<1>11. CASE ~Refused(Op(r), o) /\ v.row # "REVERTED"
  <2>1. PICK pc \in {"verify", "discover", "poll"} :
          pc = CASE v.row = "CONFIRMED" -> "verify"
                 [] v.row = "FAILED_FINAL" -> "discover"
                 [] OTHER -> "poll"
    OBVIOUS
  <2>2. PICK n \in 0..PollsPerWake : n = flight[r].poll + 1
    BY <1>1, <1>3, AnchorAssumption DEF FlightType
  <2>3. PICK h \in Hashes : h = o.hash
    BY <1>7 DEF ValidOperation
  <2> SUFFICES ASSUME NEW f, f = [flight[r] EXCEPT !.pc = pc, !.poll = n, !.hash = h] PROVE IInv'
    OBVIOUS
  <2>4. f \in FlightType /\ f.pc = pc /\ f.event = flight[r].event /\ f.upTo = flight[r].upTo
    BY <1>1 DEF FlightType
  <2>5. Store(r, o) /\ flight' = [flight EXCEPT ![r] = f] /\ recovery' \subseteq recovery
    BY <1>5, <1>11, <2>1, <2>2, <2>3 DEF IInv
  <2>6. f.pc \notin {"upload", "post", "get", "submitted"} /\ f \in {Idle} \cup FlightType
    BY <2>4
  <2> QED
    BY <1>1, <1>3, <1>4, <1>7, <1>8, <2>4, <2>5, <2>6, OpMoves
<1> QED
  BY <1>9, <1>10, <1>11

LEMMA PausePollingKeeps ==
  ASSUME IInv, NEW r \in Receipts, PausePolling(r) PROVE IInv'
<1>1. /\ flight[r] # Idle /\ Op(r).state \notin {"NONE", "CHAIN_EVIDENCE_CONFIRMED"}
  BY Busy DEF PausePolling, At
<1>2. RowsGrow /\ UNCHANGED <<signed, posted>>
  BY RequestsGrow, <1>1, Here DEF IInv, PausePolling
<1> QED
  BY <1>1, <1>2, Fails DEF PausePolling, OpStates

LEMMA DiscoverNothingKeeps ==
  ASSUME IInv, NEW r \in Receipts, DiscoverNothing(r) PROVE IInv'
<1>1. /\ flight[r] # Idle /\ Op(r).state \notin {"NONE", "CHAIN_EVIDENCE_CONFIRMED"}
  BY Busy DEF DiscoverNothing, At
<1>2. RowsGrow /\ UNCHANGED <<signed, posted>>
  BY RequestsGrow, <1>1, Here DEF IInv, DiscoverNothing
<1>3. PICK state \in {"RECONCILIATION_REQUIRED", "RPC_UNAVAILABLE"} : SaveAndReturn(r, Failed(r, state))
  BY DEF DiscoverNothing
<1> QED
  BY <1>1, <1>2, <1>3, Fails DEF OpStates

LEMMA VerifyKeeps ==
  ASSUME IInv, NEW r \in Receipts, Verify(r) PROVE IInv'
<1>1. /\ flight[r] # Idle /\ flight[r].pc = "verify" /\ flight[r] \in FlightType
      /\ ValidOperation(Op(r))
  BY Busy DEF Verify, At
<1>2. RowsGrow /\ UNCHANGED <<signed, posted>>
  BY RequestsGrow, <1>1, Here DEF IInv, Verify
<1>3. PICK c : c = Counted(Op(r), "verifications")
  OBVIOUS
<1>4. PICK h \in Hashes : h = flight[r].hash
  BY <1>1 DEF FlightType
<1>5. c \in OpShape /\ c.blob = Op(r).blob /\ c.token = Op(r).token
  BY <1>1, <1>3, CountedShape
<1> SUFFICES ASSUME NEW o, o = [c EXCEPT !.state = "VERIFYING_CONTRACT_STATE", !.hash = h,
                                         !.alreadyAnchored = FALSE]
             PROVE  IInv'
  OBVIOUS
<1>6. o \in OpShape /\ o.blob = Op(r).blob /\ o.token = Op(r).token /\ o.state = "VERIFYING_CONTRACT_STATE"
  BY <1>5 DEF OpShape, OpStates
<1>7. Save(r, o, "verifying")
  BY <1>3, <1>4 DEF Verify
<1> QED
  BY <1>1, <1>2, <1>6, <1>7, SaveKeeps

LEMMA VerifiedKeeps ==
  ASSUME IInv, NEW r \in Receipts, Verified(r) PROVE IInv'
<1>1. /\ flight[r] # Idle /\ flight[r] \in FlightType /\ flight[r].pc = "verifying"
      /\ Op(r).state \notin {"NONE", "CHAIN_EVIDENCE_CONFIRMED"} /\ ValidOperation(Op(r))
  BY Busy DEF Verified, At
<1>2. PICK p : p = posted[Current(r)]
  OBVIOUS
<1>3. /\ Current(r) \in Events /\ OpFacts(Op(r), relay[Current(r)], p)
      /\ FlightFacts(flight[r], signed[r], ops[<<r, 1>>], Op(r), relay[Current(r)], p)
  BY <1>1, <1>2, Here
<1>4. p \in SUBSET (1..4) /\ posted' = [posted EXCEPT ![Current(r)] = p]
  BY <1>2, <1>3 DEF IInv, Verified
<1>5. RowsGrow /\ relay' = relay /\ UNCHANGED signed
  BY RequestsGrow, <1>3 DEF IInv, Verified
<1> SUFFICES ASSUME NEW o, o = [Op(r) EXCEPT !.state = "CHAIN_EVIDENCE_CONFIRMED",
                                             !.alreadyAnchored = FALSE]
             PROVE  IInv'
  OBVIOUS
<1>6. AnchoredBy(relay[Current(r)], Op(r).hash) /\ Op(r).hash \in Hashes
  BY <1>1 DEF Verified, Verifies, Anchors, AnchoredBy, ValidOperation
<1>7. /\ ValidOperation(o) /\ o.state = "CHAIN_EVIDENCE_CONFIRMED" /\ o.hash = Op(r).hash
      /\ o.blob = Op(r).blob /\ o.token = Op(r).token
  <2>1. Op(r).hash # "none"
    BY <1>6 DEF AnchoredBy
  <2> QED
    BY <1>1, <2>1 DEF ValidOperation, OpStates
<1>8. OpFacts(o, relay'[Current(r)], p)
  <2>1. o # NoOp /\ Op(r) # NoOp
    <3>1. NoOp.state = "NONE"
      BY DEF NoOp
    <3> QED
      BY <1>1, <1>7, <3>1
  <2> QED
    BY <1>3, <1>5, <1>6, <1>7, <2>1 DEF OpFacts
<1> SUFFICES ASSUME NEW f, f = [flight[r] EXCEPT !.pc = "begin"] PROVE IInv'
  OBVIOUS
<1>9. f \in FlightType /\ f.pc = "begin" /\ f.event = flight[r].event /\ f.upTo = flight[r].upTo
  BY <1>1 DEF FlightType
<1>10. /\ flight' = [flight EXCEPT ![r] = f] /\ recovery' \subseteq recovery
       /\ ops' = [ops EXCEPT ![Current(r)] = o]
  BY DEF Verified, Goto, Store, IInv
<1>11. FlightFacts(f, signed[r], IF f.event = 2 THEN ops[<<r, 1>>] ELSE o, o, relay'[Current(r)], p)
  BY <1>1, <1>3, <1>9 DEF FlightFacts
<1> QED
  BY <1>1, <1>4, <1>5, <1>8, <1>9, <1>10, <1>11, FlightMoves

LEMMA NotVerifiedKeeps ==
  ASSUME IInv, NEW r \in Receipts, NotVerified(r) PROVE IInv'
<1>1. /\ flight[r] # Idle /\ Op(r).state \notin {"NONE", "CHAIN_EVIDENCE_CONFIRMED"}
  BY Busy DEF NotVerified, At
<1>2. Current(r) \in Events
  BY <1>1, Here
<1>3. RowsGrow /\ relay' = relay /\ UNCHANGED <<signed, posted>>
  BY RequestsGrow, <1>2 DEF IInv, NotVerified
<1>4. CASE \E state \in {"RECONCILIATION_REQUIRED", "RPC_UNAVAILABLE"} :
             SaveAndReturn(r, Failed(r, state))
  <2>1. PICK state \in {"RECONCILIATION_REQUIRED", "RPC_UNAVAILABLE"} : SaveAndReturn(r, Failed(r, state))
    BY <1>4
  <2> QED
    BY <1>1, <1>3, <2>1, Fails DEF OpStates
<1>5. CASE SaveAndReturn(r, Failed(r, IF relay[Current(r)].tx \notin {"mined", "final"} THEN "RPC_UNAVAILABLE"
                                      ELSE IF relay[Current(r)].by = "relay" THEN "RECONCILIATION_REQUIRED"
                                      ELSE "FINAL_FAILURE"))
  <2>1. PICK state : state = IF relay[Current(r)].tx \notin {"mined", "final"} THEN "RPC_UNAVAILABLE"
                             ELSE IF relay[Current(r)].by = "relay" THEN "RECONCILIATION_REQUIRED"
                             ELSE "FINAL_FAILURE"
    OBVIOUS
  <2>2. /\ state \in OpStates \ {"CHAIN_EVIDENCE_CONFIRMED"}
        /\ state = "FINAL_FAILURE" => Hopeless(relay'[Current(r)])
    BY <1>3, <2>1 DEF OpStates, Hopeless
  <2>3. SaveAndReturn(r, Failed(r, state))
    BY <1>5, <2>1
  <2> QED
    BY <1>1, <1>3, <2>2, <2>3, Fails
<1> QED
  BY <1>4, <1>5 DEF NotVerified

-----------------------------------------------------------------------------
(* The relay, the chain and other senders *)

LEMMA EnvironmentKeeps ==
  ASSUME IInv, NEW e \in Events,
         \/ RelayWork(e) \/ RelayRetries(e) \/ PostEnds(e) \/ PostDropped(e) \/ GetEnds(e)
         \/ ChainStep(e) \/ Evict(e) \/ AnchorExternally(e)
  PROVE  IInv'
<1>1. relay \in [Events -> RowType] /\ \A d \in Events : RowFacts(relay[d])
  BY DEF IInv
<1>2. UNCHANGED <<signed, ops, flight, recovery, posted>>
  BY DEF RelayWork, RelayRetries, Undisturbed, PostEnds, PostDropped, GetEnds, ChainStep, Evict,
     AnchorExternally
<1>3. CASE PostEnds(e) \/ PostDropped(e)
  <2>1. Drop(e)
    BY <1>3 DEF PostEnds, PostDropped
  <2>2. RowsGrow
    BY <1>1, <2>1, RequestsGrow
  <2> QED
    BY <1>2, <2>2, OutsideMoves
<1>4. CASE GetEnds(e)
  <2>1. relay' = [relay EXCEPT ![e].asking = FALSE]
    BY <1>4 DEF GetEnds
  <2>2. RowsGrow
    BY <1>1, <2>1, RequestsGrow
  <2> QED
    BY <1>2, <2>2, OutsideMoves
<1>5. CASE ~PostEnds(e) /\ ~PostDropped(e) /\ ~GetEnds(e)
  <2>1. \/ Relay!Work(e) \/ Relay!Retry(e)
        \/ Relay!ChainStep(e) \/ Relay!Evict(e) \/ Relay!AnchorExternally(e)
    BY <1>5 DEF RelayWork, RelayRetries, ChainStep, Evict, AnchorExternally
  <2>2. RowsGrow
    BY <1>1, <2>1, WorkGrows
  <2> QED
    BY <1>2, <2>2, OutsideMoves
<1> QED
  BY <1>3, <1>4, <1>5

-----------------------------------------------------------------------------
(* The invariant *)

LEMMA InitInv == Init => IInv
<1> SUFFICES ASSUME Init PROVE IInv
  OBVIOUS
<1>1. /\ Relay!New \in RowType /\ RowFacts(Relay!New)
  BY DEF Relay!New, RowType, RowFacts, Relay!States, Relay!Terminal
<1>2. relay \in [Events -> RowType] /\ \A e \in Events : RowFacts(relay[e])
  BY <1>1 DEF Init, Relay!Init
<1>3. NoOp.state = "NONE"
  BY DEF NoOp
<1>4. \A e \in Events : ops[e] = NoOp /\ posted[e] = {} /\ OpFacts(ops[e], relay[e], posted[e])
  BY <1>3 DEF Init, OpFacts
<1>5. \A r \in Receipts : ReceiptFacts(r)
  <2>1. \A r \in Receipts : <<r, 2>> \in Events
    BY DEF Events
  <2> QED
    BY <1>4, <2>1 DEF Init, ReceiptFacts
<1>6. /\ ops = [e \in Events |-> ops[e]] /\ signed \in [Receipts -> 0..2]
      /\ flight \in [Receipts -> {Idle} \cup FlightType]
      /\ recovery \subseteq Receipts /\ posted \in [Events -> SUBSET (1..4)]
  BY DEF Init
<1> QED
  BY <1>2, <1>4, <1>5, <1>6 DEF IInv

LEMMA NextKeeps == IInv /\ [Next]_vars => IInv'
<1> SUFFICES ASSUME IInv, [Next]_vars PROVE IInv'
  OBVIOUS
<1>1. CASE UNCHANGED vars
  BY <1>1 DEF vars, IInv, ReceiptFacts, Op, Current
<1>2. ASSUME NEW r \in Receipts, SaveEvent(r) \/ Recheck(r) PROVE IInv'
  BY <1>2, SaveEventKeeps, RecheckKeeps
<1>3. ASSUME NEW r \in Receipts, RelayFails(r) PROVE IInv'
  BY <1>3, RelayFailsKeeps
<1>4. ASSUME NEW r \in Receipts, Step(r) PROVE IInv'
  BY <1>4, EndEventKeeps, EnsureKeeps, ResumeKeeps, SendUploadKeeps, UploadAnsweredKeeps, SendPostKeeps,
     PostAnsweredKeeps, SaveViewKeeps, PostRefusedKeeps, PollKeeps, SendGetKeeps, GetAnsweredKeeps,
     PausePollingKeeps, DiscoverKeeps, DiscoverNothingKeeps, VerifyKeeps, VerifiedKeeps, NotVerifiedKeeps
  DEF Step
<1>5. ASSUME Alarm \/ Recover \/ Stop PROVE IInv'
  BY <1>5, AlarmKeeps, RecoverKeeps, StopKeeps
<1>6. ASSUME NEW e \in Events,
             \/ RelayWork(e) \/ RelayRetries(e) \/ PostEnds(e) \/ PostDropped(e) \/ GetEnds(e)
             \/ ChainStep(e) \/ Evict(e) \/ AnchorExternally(e)
      PROVE  IInv'
  BY <1>6, EnvironmentKeeps
<1> QED
  BY <1>1, <1>2, <1>3, <1>4, <1>5, <1>6 DEF Next

LEMMA Invariance == Spec => []IInv
BY InitInv, NextKeeps, PTL DEF Spec

-----------------------------------------------------------------------------
(* What it gives *)

\* For any receipts, limits and faults every variable keeps its type, every stored
\* operation can be loaded again, and a flight polls only with a token
\* (parseAnchorOperation, runAnchorWorkflow).
THEOREM TypeCorrect == Spec => []TypeOK
<1>1. ASSUME IInv PROVE TypeOK
  <2>1. \A e \in Events : ops[e] = NoOp \/ ValidOperation(ops[e])
    BY <1>1 DEF IInv, OpFacts
  <2>2. DOMAIN ops = Events
    BY <1>1 DEF IInv
  <2>3. ASSUME NEW r \in Receipts, flight[r].pc \in {"submitted", "poll", "get"} PROVE Op(r).token
    <3>1. flight[r] # Idle
      BY <2>3 DEF Idle
    <3> QED
      BY <1>1, <2>3, <3>1, Here DEF FlightFacts
  <2> QED
    BY <1>1, <2>1, <2>2, <2>3 DEF IInv, TypeOK
<1> QED
  BY <1>1, Invariance, PTL

\* However many answers are lost and workers stopped, all POSTs of an event name
\* the blob that was stored for it first (runAnchorWorkflow, saveAnchorOperation).
THEOREM RetriesAreExact == Spec => []ExactRetries
<1>1. ASSUME IInv, NEW e \in Events PROVE Cardinality(posted[e]) <= 1
  <2>1. posted[e] = {} \/ posted[e] = {ops[e].blob}
    BY <1>1 DEF IInv, OpFacts
  <2>2. CASE posted[e] = {}
    BY <2>2, FS_EmptySet
  <2>3. CASE posted[e] = {ops[e].blob}
    <3>1. PICK b : b = ops[e].blob
      OBVIOUS
    <3>2. Cardinality({b}) = 1
      BY FS_Singleton
    <3> QED
      BY <2>3, <3>1, <3>2
  <2> QED
    BY <2>1, <2>2, <2>3
<1>2. IInv => ExactRetries
  BY <1>1 DEF ExactRetries
<1> QED
  BY <1>2, Invariance, PTL

\* The second event of a receipt reaches the relay only when the chain holds the
\* first (runReceiptAnchorLifecycle).
THEOREM EventsSentInOrder == Spec => []SentInOrder
<1>1. ASSUME IInv, NEW r \in Receipts, posted[<<r, 2>>] # {}
      PROVE  ops[<<r, 1>>].state = "CHAIN_EVIDENCE_CONFIRMED" /\ relay[<<r, 1>>].by # "nobody"
  <2>1. ops[<<r, 1>>].state = "CHAIN_EVIDENCE_CONFIRMED"
    BY <1>1 DEF IInv, ReceiptFacts
  <2>2. <<r, 1>> \in Events
    BY DEF Events
  <2> QED
    BY <1>1, <2>1, <2>2 DEF IInv, OpFacts, AnchoredBy
<1>2. IInv => SentInOrder
  BY <1>1 DEF SentInOrder
<1> QED
  BY <1>2, Invariance, PTL

\* No answer of the relay, late, stale or premature, makes the extension give up an
\* event that the relay has anchored or can still anchor (failForRelayError,
\* failForVerificationError, withRelayView).
THEOREM GivingUpIsRight == Spec => []GivesUpWithReason
<1>1. ASSUME IInv, NEW e \in Events, ops[e].state = "FINAL_FAILURE"
      PROVE  relay[e].by # "relay" /\ relay[e].tx \notin {"lost", "pending"}
  BY <1>1 DEF IInv, OpFacts, Hopeless, RowFacts
<1>2. IInv => GivesUpWithReason
  BY <1>1 DEF GivesUpWithReason
<1> QED
  BY <1>2, Invariance, PTL

\* What the extension shows as confirmed is the final transaction that anchored the
\* event, and stays so (verifyAndConfirm, storeVerifiedChainAnchor).
THEOREM ConfirmationsAreTrue == Spec => []ConfirmedIsTrue
<1>1. ASSUME IInv, NEW e \in Events, ops[e].state = "CHAIN_EVIDENCE_CONFIRMED"
      PROVE  Anchors(e, ops[e].hash)
  BY <1>1 DEF IInv, OpFacts, AnchoredBy, Anchors
<1>2. IInv => ConfirmedIsTrue
  BY <1>1 DEF ConfirmedIsTrue
<1> QED
  BY <1>2, Invariance, PTL

\* The relay never answers a POST of the workflow with a conflict: the branch of
\* failForRelayError that gives the event up for it is never taken.
THEOREM NoConflicts == Spec => [](\A r \in Receipts : At(r, "post") => ~Conflicts(r))
<1>1. IInv => \A r \in Receipts : At(r, "post") => ~Conflicts(r)
  BY NeverRefused
<1> QED
  BY <1>1, Invariance, PTL
=============================================================================
