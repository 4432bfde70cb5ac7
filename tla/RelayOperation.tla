---------------------------- MODULE RelayOperation ----------------------------
(***************************************************************************)
(* What the relay promises about the operation of one event: the states of *)
(* docs/RELAY.md (Durable transaction model) and which request, or which   *)
(* outside event, may change them.  Only a POST accepts an event, prepares *)
(* its transaction or hands it to the node, and only the POST that does    *)
(* makes the row SUBMITTED; a GET records a result or a failure, and none  *)
(* any more after the poll cap.                                            *)
(*                                                                         *)
(* RelayService implements this module (its property Implements), and      *)
(* AnchorWorkflow, the client, relies on it.                               *)
(***************************************************************************)
EXTENDS Integers

CONSTANTS
  Events,
  MaxPolls,   \* maxConfirmationPolls, a number, or NoCap
  NoCap,      \* no client gets to the cap
  Outside     \* whether other senders call the contract

\* By event: the row, its transaction, who anchored the event, whether a POST and a
\* GET are in flight and a POST has the transaction in hand to send it, and the polls.
VARIABLE relay

Terminal == {"CONFIRMED", "REVERTED", "FAILED_FINAL"}
States == {"NONE", "READY", "SUBMITTING", "SUBMITTED", "FAILED_RETRYABLE"} \cup Terminal

New == [row |-> "NONE", tx |-> "none", by |-> "nobody", posting |-> FALSE, sending |-> FALSE,
        asking |-> FALSE, polls |-> 0]

Open(e) == relay[e].row \notin Terminal \cup {"NONE"}

\* A request may end in the step that changes the row, and any time.
Closing(r) ==
  {[r EXCEPT !.posting = p, !.sending = s, !.asking = a] :
     p \in {FALSE, r.posting}, s \in {FALSE, r.sending}, a \in {FALSE, r.asking}}
Becomes(e, r) == relay' \in {[relay EXCEPT ![e] = n] : n \in Closing(r)}

Post(e) ==
  /\ relay[e].row \notin Terminal
  /\ relay' = [relay EXCEPT ![e].posting = TRUE]

\* A GET is counted, and reconciles until the cap.
UnderCap(e) == MaxPolls = NoCap \/ relay[e].polls < MaxPolls
Ask(e) ==
  /\ Open(e)
  /\ relay' = [relay EXCEPT
       ![e].asking = UnderCap(e) \/ relay[e].asking,
       ![e].polls = IF MaxPolls = NoCap \/ relay[e].polls > MaxPolls THEN relay[e].polls
                    ELSE relay[e].polls + 1]

End(e) == Becomes(e, relay[e])

Accept(e) ==
  /\ relay[e].posting /\ relay[e].row = "NONE"
  /\ Becomes(e, [relay[e] EXCEPT !.row = "READY"])

Prepare(e) ==
  /\ relay[e].posting /\ relay[e].tx = "none" /\ Open(e)
  /\ Becomes(e, [relay[e] EXCEPT !.row = "SUBMITTING", !.tx = "lost", !.sending = TRUE])

GiveUp(e) ==
  /\ relay[e].posting /\ relay[e].tx = "none" /\ Open(e) /\ relay[e].by # "nobody"
  /\ Becomes(e, [relay[e] EXCEPT !.row = "FAILED_FINAL"])

\* The node holds the transaction from a broadcast on.
Broadcast(e) ==
  /\ relay[e].sending /\ relay[e].tx = "lost"
  /\ Becomes(e, [relay[e] EXCEPT !.tx = "pending"])

\* A repeated POST sends the transaction again.
Resubmit(e) ==
  /\ relay[e].posting /\ relay[e].tx # "none" /\ Open(e)
  /\ Becomes(e, [relay[e] EXCEPT !.row = IF @ = "FAILED_RETRYABLE" THEN "SUBMITTING" ELSE @,
                                  !.sending = TRUE])

Submitted(e) ==
  /\ relay[e].sending /\ relay[e].row = "SUBMITTING"
  /\ Becomes(e, [relay[e] EXCEPT !.row = "SUBMITTED"])

Retry(e) ==
  /\ relay[e].posting \/ (relay[e].asking /\ relay[e].tx # "none")
  /\ Open(e)
  /\ Becomes(e, [relay[e] EXCEPT !.row = "FAILED_RETRYABLE"])

\* A final transaction settles the operation, but not while it is SUBMITTING.
Settle(e) ==
  /\ relay[e].posting \/ relay[e].asking
  /\ relay[e].tx = "final" /\ relay[e].row \in {"SUBMITTED", "FAILED_RETRYABLE"}
  /\ Becomes(e, [relay[e] EXCEPT !.row = IF relay[e].by = "relay" THEN "CONFIRMED" ELSE "REVERTED"])

\* The transaction is mined: it anchors the event unless somebody else did, or
\* somebody else's call made the contract refuse it.
Mine(e) ==
  /\ relay[e].tx = "pending"
  /\ \E by \in IF relay[e].by # "nobody" THEN {relay[e].by}
               ELSE {"relay"} \cup (IF Outside THEN {"nobody"} ELSE {}) :
       relay' = [relay EXCEPT ![e] = [@ EXCEPT !.tx = "mined", !.by = by]]

Confirm(e) == relay[e].tx = "mined" /\ relay' = [relay EXCEPT ![e].tx = "final"]

Evict(e) == relay[e].tx = "pending" /\ relay' = [relay EXCEPT ![e].tx = "lost"]

AnchorExternally(e) ==
  /\ Outside /\ relay[e].by = "nobody"
  /\ relay' = [relay EXCEPT ![e].by = "other"]

Init == relay = [e \in Events |-> New]

\* What a request in flight does that does not fail, and what the chain does.
Work(e) ==
  \/ Accept(e) \/ Prepare(e) \/ GiveUp(e) \/ Broadcast(e) \/ Resubmit(e) \/ Submitted(e)
  \/ Settle(e)
ChainStep(e) == Mine(e) \/ Confirm(e)

Next ==
  /\ relay' # relay  \* a request that changes nothing stutters
  /\ \E e \in Events :
       \/ Post(e) \/ Ask(e) \/ End(e) \/ Work(e) \/ Retry(e)
       \/ ChainStep(e) \/ Evict(e) \/ AnchorExternally(e)

Spec == Init /\ [][Next]_relay
=============================================================================
