---------------------------- MODULE RelayService ----------------------------
(***************************************************************************)
(* apps/web/lib/relay/relay-service.ts: the relay that pays for anchoring. *)
(* A request runs on a worker (one HTTP request on one of the application  *)
(* instances); workers share the PostgreSQL rows and the chain and nothing *)
(* else.  One step of a worker is the code between two awaits: a database  *)
(* statement, a database transaction, or a call of the RPC node.  Between  *)
(* two steps every other worker, the chain and the clock may move, and the *)
(* instance may die.                                                       *)
(*                                                                         *)
(* The chain is the mempool and blocks of the relayer's own account, in    *)
(* nonce order, in front of the registry contract (module Registry).       *)
(*                                                                         *)
(* Left out: wording and logging of responses, the HTTP layer, signature   *)
(* and blob checks of a request (the requests of the model are valid), the *)
(* rate limiter (it may only turn a request away before it changes         *)
(* anything), wrong chain ids and missing bytecode (likewise), the         *)
(* transaction_count column and the history table.                         *)
(***************************************************************************)
EXTENDS Integers, Sequences, FiniteSets, FiniteSetsExt

CONSTANTS
  Events,             \* the event hashes clients present
  Core,               \* Core[e]: the contract arguments event e stands for
  ReceiptIds, Keys, Zero,
  Requests,           \* POST bodies: [event, body, key]
  NoKey,              \* the idempotency key of a request that carries none, the body of a GET
  Polled,             \* the events whose client asks for the status (GET)
  Workers,            \* requests in flight at the same time
  Fee,                \* Fee[e]: gasLimit * maxFeePerGas of the event's transaction
  DailyBudget,        \* dailyBudgetWei
  InitialBalance, MinimumBalance,
  MaxAttempts,        \* maxAttemptsPerEvent
  MaxPolls,           \* maxConfirmationPolls
  Faults,             \* the kinds of fault the environment may commit
  MaxFaults,          \* bound: how many it commits
  Days                \* bound: how many UTC days pass

ASSUME RelayAssumption ==
  /\ Zero \notin ReceiptIds \cup Events \cup Keys
  /\ Core \in [Events -> [receiptId         : ReceiptIds,
                          eventHash         : Events,
                          previousEventHash : Events \cup {Zero},
                          extensionKeyHash  : Keys,
                          authorityKeyHash  : {Zero},
                          stage             : {"ATTEMPTED", "SITE_CONFIRMED"}]]
  /\ \A e \in Events : Core[e].eventHash = e
  /\ \A r \in Requests : r.event \in Events /\ r.body # NoKey
  /\ Polled \subseteq Events
  /\ Fee \in [Events -> Nat \ {0}]
  /\ {DailyBudget, InitialBalance, MinimumBalance, MaxFaults} \subseteq Nat
  /\ {MaxAttempts, MaxPolls, Days} \subseteq Nat \ {0}
  /\ Faults \subseteq {"rpc", "crash", "evict", "external"}

VARIABLES
  op,         \* relay_operations, by event hash
  budget,     \* relay_daily_budgets, by day
  nextNonce,  \* relay_signer_nonces.next_nonce (0 while there is no row)
  job,        \* what each worker is doing
  pool,       \* the relayer's transactions the node holds, not yet mined
  mined,      \* the relayer's mined transactions: nonce n is mined[n + 1]
  final,      \* how many of them have confirmationTarget confirmations
  balance,    \* the relayer's balance on chain
  today,      \* the UTC day
  faults,     \* faults so far
  receipts, anchoredEvents, log   \* the registry contract

dbVars == <<op, budget, nextNonce>>
registryVars == <<receipts, anchoredEvents, log>>
chainVars == <<pool, mined, final, balance, registryVars>>
envVars == <<today, faults>>
vars == <<dbVars, job, chainVars, envVars>>

Contract == INSTANCE Registry WITH Hashes <- Events

Terminal == {"CONFIRMED", "REVERTED", "FAILED_FINAL"}
State == {"READY", "SUBMITTING", "SUBMITTED", "FAILED_RETRYABLE"} \cup Terminal

NoNonce == -1

\* An event without a row.  A row is inserted as VALIDATING and becomes READY
\* in the same database transaction, so VALIDATING is never seen.
NoRow ==
  [state |-> "NONE", body |-> NoKey, key |-> NoKey, nonce |-> NoNonce, attempts |-> 0, polls |-> 0,
   reserved |-> 0, charged |-> 0, day |-> 1, due |-> TRUE]

NoSnapshot == [state |-> "NONE", attempts |-> 0]

\* What a worker remembers: where it is, its request, whether it may broadcast
\* (allowBroadcast), the row #reconcile read, and the pending nonce it read.
Idle == [pc |-> "idle", req |-> NoKey, allow |-> FALSE, row |-> NoSnapshot, pending |-> NoNonce]

Rows == {e \in Events : op[e].state # "NONE"}
Open(e) == op[e].state \notin Terminal \cup {"NONE"}
HasTx(e) == op[e].nonce # NoNonce

\* The signed transaction of a row: prepareAnchor is deterministic in the
\* event's arguments, the stored fee and the nonce, so these name its hash.
Tx(e) == [event |-> e, nonce |-> op[e].nonce]

IsMined(tx) == tx.nonce \in 0..(Len(mined) - 1) /\ mined[tx.nonce + 1].event = tx.event
IsFinal(tx) == IsMined(tx) /\ tx.nonce < final
Visible(tx) == tx \in pool \/ IsMined(tx)

\* getTransactionCount(pending): the first nonce above the mined ones that no
\* transaction of the mempool uses.
IsPendingNonce(n) ==
  /\ \A tx \in pool : tx.nonce # n
  /\ \A m \in Len(mined)..(n - 1) : \E tx \in pool : tx.nonce = m

Fault(kind) ==
  /\ kind \in Faults
  /\ faults < MaxFaults
  /\ faults' = faults + 1

At(w, pc) == job[w].pc = pc
Event(w) == job[w].req.event
Return(w) == job' = [job EXCEPT ![w] = Idle]
Goto(w, pc) == job' = [job EXCEPT ![w] = [Idle EXCEPT !.pc = pc, !.req = job[w].req]]
\* Broken: a GET may broadcast as well.
ReconcileAllowing(w, r, allow) ==
  job' = [job EXCEPT ![w] = [Idle EXCEPT !.pc = "reconcile", !.req = r, !.allow = TRUE]]
Reconcile(w, r, allow) ==
  job' = [job EXCEPT ![w] = [Idle EXCEPT !.pc = "reconcile", !.req = r, !.allow = allow]]

-----------------------------------------------------------------------------
(* POST: relay() up to #reconcile *)

\* #assertExistingBinding: the content of the event, and the caller's key, are
\* bound to this row.
SameBinding(r) ==
  /\ op[r.event].body = r.body
  /\ r.key # NoKey => \A e \in Rows : op[e].key = r.key => e = r.event

\* #validateStaticTransition: a first event links to nothing, a second to something.
ValidStaticTransition(e) ==
  (Core[e].stage = "ATTEMPTED") <=> (Core[e].previousEventHash = Zero)

\* relay() finds the row, if any.  A binding conflict and a terminal row answer
\* at once; a row with a transaction goes straight to reconciliation.
StartRelay(w, r) ==
  /\ At(w, "idle")
  /\ ValidStaticTransition(r.event)
  /\ r.event \in Rows => SameBinding(r)
  /\ op[r.event].state \notin Terminal
  /\ job' = [job EXCEPT ![w] = [Idle EXCEPT !.pc = IF HasTx(r.event) THEN "recheck" ELSE "precheck",
                                           !.req = r]]
  /\ UNCHANGED <<dbVars, chainVars, envVars>>

\* relay() for a row with a transaction: #precheckRuntime, then #reconcile,
\* which may broadcast only if the event is not anchored yet.
Recheck(w) ==
  /\ At(w, "recheck")
  /\ Reconcile(w, job[w].req, Event(w) \notin anchoredEvents)
  /\ UNCHANGED <<dbVars, chainVars, envVars>>

\* #validateTransition: the contract's receipt is ready for the event.
ValidTransition(e) ==
  LET s == receipts[Core[e].receiptId] IN
  IF Core[e].stage = "ATTEMPTED"
  THEN s.currentStage = "NONE" /\ s.eventCount = 0 /\ s.latestEventHash = Zero
  ELSE /\ s.latestEventHash = Core[e].previousEventHash
       /\ s.currentStage = "ATTEMPTED" /\ s.eventCount = 1
       /\ s.extensionKeyHash = Core[e].extensionKeyHash

\* The checks of the reservation against the budget and the balance.
Affordable(e) == Fee[e] <= DailyBudget /\ balance >= Fee[e] + MinimumBalance

\* relay() for a new event or a row without a transaction: #precheckRuntime and,
\* unless the event is anchored already, the checks that need only the chain.
Precheck(w) ==
  /\ At(w, "precheck")
  /\ IF Event(w) \in anchoredEvents THEN Goto(w, "external")
     ELSE IF ValidTransition(Event(w)) /\ Affordable(Event(w)) THEN Goto(w, "acquire")
     ELSE Return(w)
  /\ UNCHANGED <<dbVars, chainVars, envVars>>

\* An RPC error before anything is written is answered with 503.
RequestFails(w) ==
  /\ job[w].pc \in {"recheck", "precheck"}
  /\ Fault("rpc")
  /\ Return(w)
  /\ UNCHANGED <<dbVars, chainVars, today>>

\* relay() for an event found anchored: the row is read again.
FindAnchored(w) ==
  /\ At(w, "external")
  /\ IF Event(w) \notin Rows \/ ~SameBinding(job[w].req) THEN Return(w)
     ELSE IF HasTx(Event(w)) THEN Reconcile(w, job[w].req, FALSE)
     ELSE Goto(w, "markExternal")
  /\ UNCHANGED <<dbVars, chainVars, envVars>>

\* What is left of a reservation of e's day after e's is taken back:
\* GREATEST(0, reserved_fee_wei - reserved).
Unreserved(e) ==
  LET r == budget[op[e].day].reserved IN IF r >= op[e].reserved THEN r - op[e].reserved ELSE 0

\* What #markExternallyAnchored and #prepareNewTransaction check of the row they
\* have locked: it has no transaction and no final result.
UnpreparedUnchecked(e) == op[e].state \notin Terminal   \* broken: another request prepared it
Unprepared(e) == ~HasTx(e) /\ op[e].state \notin Terminal

\* #markExternallyAnchored: under the row lock, an operation that never got a
\* transaction fails for good and gives its reservation back.
MarkExternallyAnchored(w) ==
  LET e == Event(w) IN
  /\ At(w, "markExternal")
  /\ IF Unprepared(e)
     THEN /\ op' = [op EXCEPT ![e] = [@ EXCEPT !.state = "FAILED_FINAL", !.reserved = 0, !.due = TRUE]]
          /\ budget' = [budget EXCEPT ![op[e].day].reserved = Unreserved(e)]
     ELSE UNCHANGED <<op, budget>>
  /\ Return(w)
  /\ UNCHANGED <<nextNonce, chainVars, envVars>>

\* Another event of the same receipt and stage has a row already.
StageNeverTaken(e) == FALSE   \* broken: no UNIQUE (receipt_id, contract_stage)
StageTaken(e) ==
  \E f \in Rows \ {e} : /\ Core[f].receiptId = Core[e].receiptId
                        /\ Core[f].stage = Core[e].stage

\* An idempotency key bound to another request.
KeyConflict(r) ==
  /\ r.key # NoKey
  /\ \E f \in Rows : op[f].key = r.key /\ (f # r.event \/ op[f].body # r.body)

\* The day's row, read under its lock, still covers the reservation.
WithinSpentBudget(e) == budget[today].spent + Fee[e] <= DailyBudget   \* broken: ignores reservations
WithinBudget(e) == budget[today].reserved + budget[today].spent + Fee[e] <= DailyBudget

\* #acquireOperation, one database transaction under the advisory locks of the
\* receipt and the event: find the row, or reserve the fee and insert it.
AcquireOperation(w) ==
  LET e == Event(w)
      r == job[w].req IN
  /\ At(w, "acquire")
  /\ \/ /\ ~KeyConflict(r) /\ e \in Rows /\ op[e].body = r.body
        /\ Reconcile(w, r, TRUE)
        /\ UNCHANGED dbVars
     \/ /\ ~KeyConflict(r) /\ e \notin Rows /\ ~StageTaken(e) /\ WithinBudget(e)
        /\ budget' = [budget EXCEPT ![today].reserved = @ + Fee[e]]
        /\ op' = [op EXCEPT ![e] = [NoRow EXCEPT !.state = "READY", !.body = r.body, !.key = r.key,
                                                 !.reserved = Fee[e], !.day = today]]
        /\ Reconcile(w, r, TRUE)
        /\ UNCHANGED nextNonce
     \/ /\ \/ KeyConflict(r)
           \/ IF e \in Rows THEN op[e].body # r.body ELSE StageTaken(e) \/ ~WithinBudget(e)
        /\ Return(w)
        /\ UNCHANGED dbVars
  /\ UNCHANGED <<chainVars, envVars>>

-----------------------------------------------------------------------------
(* GET: getOperation() *)

\* Counts the poll and reconciles without broadcasting, until the poll cap.
GetOperation(w, e) ==
  /\ At(w, "idle")
  /\ Open(e)
  /\ op[e].polls <= MaxPolls
  /\ op' = [op EXCEPT ![e] = [@ EXCEPT !.polls = op[e].polls + 1]]
  /\ IF op[e].polls + 1 > MaxPolls
     THEN UNCHANGED job
     ELSE Reconcile(w, [event |-> e, body |-> NoKey, key |-> NoKey], FALSE)
  /\ UNCHANGED <<budget, nextNonce, chainVars, envVars>>

-----------------------------------------------------------------------------
(* #reconcile *)

\* The row is read; a terminal or not yet due row is returned as it is.
ReadRow(w) ==
  LET e == Event(w) IN
  /\ At(w, "reconcile")
  /\ IF op[e].state \in Terminal THEN Return(w)
     ELSE IF HasTx(e) /\ op[e].due
     THEN job' = [job EXCEPT ![w].pc = "receipt",
                             ![w].row = [state |-> op[e].state, attempts |-> op[e].attempts]]
     ELSE IF HasTx(e) \/ ~job[w].allow THEN Return(w)
     ELSE Goto(w, IF op[e].attempts >= MaxAttempts THEN "abandon" ELSE "nonce")
  /\ UNCHANGED <<dbVars, chainVars, envVars>>

\* readTransactionReceipt, and what #reconcile does with its answer.
ReadReceipt(w) ==
  LET tx == Tx(Event(w))
      row == job[w].row IN
  /\ At(w, "receipt")
  /\ IF IsFinal(tx) THEN Goto(w, "cost")
     ELSE IF IsMined(tx) THEN Goto(w, "defer")
     ELSE IF job[w].allow /\ row.attempts < MaxAttempts THEN Goto(w, "rebroadcast")
     ELSE IF row.attempts >= MaxAttempts /\ row.state # "FAILED_RETRYABLE" THEN Goto(w, "retryable")
     ELSE IF job[w].allow THEN Return(w)
     ELSE Goto(w, "defer")
  /\ UNCHANGED <<dbVars, chainVars, envVars>>

\* getPendingNonce, before the database transaction that uses its answer.
ReadPendingNonce(w) ==
  /\ At(w, "nonce")
  /\ \E n \in Len(mined)..(Len(mined) + Cardinality(pool)) :
       /\ IsPendingNonce(n)
       /\ job' = [job EXCEPT ![w].pc = "prepare", ![w].pending = n]
  /\ UNCHANGED <<dbVars, chainVars, envVars>>

\* The nonce #prepareNewTransaction allocates: the durable counter, unless the
\* pending nonce read earlier is above it.
NextNonceSkipping(w) == IF nextNonce >= job[w].pending THEN nextNonce + 1 ELSE job[w].pending  \* broken
NextNonce(w) == IF nextNonce > job[w].pending THEN nextNonce ELSE job[w].pending

\* #prepareNewTransaction: under the row lock and the lock of the signer's nonce
\* row, the operation gets its nonce and its transaction, once and durably,
\* before the transaction is broadcast.
PrepareNewTransaction(w) ==
  LET e == Event(w)
      nonce == NextNonce(w) IN
  /\ At(w, "prepare")
  /\ IF Unprepared(e)
     THEN /\ nextNonce' = nonce + 1
          /\ op' = [op EXCEPT ![e] = [@ EXCEPT !.state = "SUBMITTING", !.nonce = nonce,
                                              !.attempts = op[e].attempts + 1, !.due = FALSE]]
          /\ Goto(w, "broadcast")
     ELSE Return(w) /\ UNCHANGED <<op, nextNonce>>
  /\ UNCHANGED <<budget, chainVars, envVars>>

\* The WHERE clause of #rebroadcast.
MayRebroadcast(e) ==
  /\ op[e].state \in {"SUBMITTING", "SUBMITTED", "FAILED_RETRYABLE"}
  /\ op[e].attempts < MaxAttempts

\* The row #rebroadcast leaves.
Rebroadcasting(row) ==
  [row EXCEPT !.state = IF @ = "FAILED_RETRYABLE" THEN "SUBMITTING" ELSE @,
              !.attempts = @ + 1, !.due = FALSE]

\* #rebroadcast: one conditional UPDATE counts the attempt.
Rebroadcast(w) ==
  LET e == Event(w) IN
  /\ At(w, "rebroadcast")
  /\ IF MayRebroadcast(e)
     THEN /\ op' = [op EXCEPT ![e] = Rebroadcasting(@)]
          /\ Goto(w, "broadcast")
     ELSE Return(w) /\ UNCHANGED op
  /\ UNCHANGED <<budget, nextNonce, chainVars, envVars>>

\* broadcastTransaction: the node takes the transaction, or shows that it has it
\* already.  A transaction whose nonce is used up is refused.
Broadcast(w) ==
  LET tx == Tx(Event(w)) IN
  /\ At(w, "broadcast")
  /\ pool' = IF Visible(tx) \/ tx.nonce < Len(mined) THEN pool ELSE pool \cup {tx}
  /\ Goto(w, IF Visible(tx) \/ tx.nonce >= Len(mined) THEN "submitted" ELSE "retryable")
  /\ UNCHANGED <<dbVars, mined, final, balance, registryVars, envVars>>

\* The broadcast is not acknowledged, whether or not the node took it.
BroadcastFails(w) ==
  LET tx == Tx(Event(w)) IN
  /\ At(w, "broadcast")
  /\ Fault("rpc")
  /\ pool' \in {pool, IF IsMined(tx) THEN pool ELSE pool \cup {tx}}
  /\ Goto(w, "retryable")
  /\ UNCHANGED <<dbVars, mined, final, balance, registryVars, today>>

\* #broadcastPrepared after the broadcast: SUBMITTED, but only from SUBMITTING.
MarkSubmitted(w) ==
  LET e == Event(w) IN
  /\ At(w, "submitted")
  /\ op' = IF op[e].state = "SUBMITTING"
           THEN [op EXCEPT ![e] = [@ EXCEPT !.state = "SUBMITTED", !.due = FALSE]]
           ELSE op
  /\ Goto(w, "wait")
  /\ UNCHANGED <<budget, nextNonce, chainVars, envVars>>

\* Broken: takes the receipt as soon as there is one.
WaitForAnyReceipt(w) ==
  /\ At(w, "wait")
  /\ IsMined(Tx(Event(w))) /\ Goto(w, "cost")
  /\ UNCHANGED <<dbVars, chainVars, envVars>>

\* waitForReceipt: until the confirmation target, or not.
WaitForReceipt(w) ==
  /\ At(w, "wait")
  /\ \/ IsFinal(Tx(Event(w))) /\ Goto(w, "cost")
     \/ Goto(w, "retryable")
  /\ UNCHANGED <<dbVars, chainVars, envVars>>

\* An RPC error of #reconcile (receipt, nonce or contract state), or a failure to
\* sign or to commit the prepared transaction, which rolls back.
ReconcileFails(w) ==
  /\ job[w].pc \in {"receipt", "nonce", "prepare", "settle"}
  /\ At(w, "settle") => mined[op[Event(w)].nonce + 1].ok
  /\ Fault("rpc")
  /\ Goto(w, "retryable")
  /\ UNCHANGED <<dbVars, chainVars, today>>

\* Broken: without the WHERE clause.
RetryableUnchecked(row) == [row EXCEPT !.state = "FAILED_RETRYABLE", !.due = FALSE]

\* The row after #markRetryable's conditional UPDATE.
Retryable(row) ==
  IF row.state \in Terminal THEN row
  ELSE [row EXCEPT !.state = "FAILED_RETRYABLE", !.due = FALSE]

\* #markRetryable
MarkRetryable(w) ==
  /\ At(w, "retryable")
  /\ op' = [op EXCEPT ![Event(w)] = Retryable(@)]
  /\ Return(w)
  /\ UNCHANGED <<budget, nextNonce, chainVars, envVars>>

\* #deferReconciliation
DeferReconciliation(w) ==
  LET e == Event(w) IN
  /\ At(w, "defer")
  /\ op' = IF op[e].state \in Terminal THEN op ELSE [op EXCEPT ![e] = [@ EXCEPT !.due = FALSE]]
  /\ Return(w)
  /\ UNCHANGED <<budget, nextNonce, chainVars, envVars>>

\* Broken: a second receipt of the same transaction is charged again.
RecordCostAgain(w) ==
  LET e == Event(w) IN
  /\ At(w, "cost")
  /\ budget' = [budget EXCEPT ![op[e].day] = [reserved |-> @.reserved - Fee[e], spent |-> @.spent + Fee[e]]]
  /\ op' = [op EXCEPT ![e] = [@ EXCEPT !.reserved = 0, !.charged = op[e].charged + Fee[e]]]
  /\ Goto(w, "settle")
  /\ UNCHANGED <<nextNonce, chainVars, envVars>>

\* #recordMinedCost: under the row lock, the reservation becomes spent once.
RecordMinedCost(w) ==
  LET e == Event(w) IN
  /\ At(w, "cost")
  /\ IF op[e].charged > 0 THEN UNCHANGED <<op, budget>>
     ELSE /\ budget' = [budget EXCEPT ![op[e].day] =
                          [reserved |-> Unreserved(e), spent |-> @.spent + op[e].reserved]]
          /\ op' = [op EXCEPT ![e] = [@ EXCEPT !.reserved = 0, !.charged = op[e].reserved]]
  /\ Goto(w, "settle")
  /\ UNCHANGED <<nextNonce, chainVars, envVars>>

\* The registry shows the event, its stage and its key.
RegistryMatches(e) ==
  LET s == receipts[Core[e].receiptId] IN
  /\ e \in anchoredEvents
  /\ s.currentStage \notin {"NONE"} \cup (IF Core[e].stage = "SITE_CONFIRMED" THEN {"ATTEMPTED"} ELSE {})
  /\ s.extensionKeyHash = Core[e].extensionKeyHash

\* The outcome #finalizeReceipt records for a row, by the mined receipt: its
\* UPDATEs name the states they start from, and the database trigger
\* enforce_relay_operation_update aborts SUBMITTING -> REVERTED.
Outcome(e) ==
  IF ~mined[op[e].nonce + 1].ok
  THEN IF op[e].state \in {"SUBMITTED", "FAILED_RETRYABLE"} THEN "REVERTED" ELSE op[e].state
  ELSE IF op[e].state \notin {"SUBMITTED", "FAILED_RETRYABLE"} THEN op[e].state
  ELSE IF RegistryMatches(e) THEN "CONFIRMED" ELSE "FAILED_FINAL"

\* #finalizeReceipt after the cost is recorded.
FinalizeReceipt(w) ==
  LET e == Event(w) IN
  /\ At(w, "settle")
  /\ op' = IF Outcome(e) = op[e].state THEN op
           ELSE [op EXCEPT ![e] = [@ EXCEPT !.state = Outcome(e), !.due = TRUE]]
  /\ Return(w)
  /\ UNCHANGED <<budget, nextNonce, chainVars, envVars>>

-----------------------------------------------------------------------------
(* The chain, the clock and the faults of the environment *)

\* The relayer's transaction with the next nonce is mined; the contract accepts
\* the call or reverts it, and the fee is charged either way.
Mine(tx) ==
  /\ tx \in pool
  /\ tx.nonce = Len(mined)
  /\ mined' = Append(mined, [event |-> tx.event, ok |-> Contract!Accepts(Core[tx.event])])
  /\ pool' = {t \in pool : t.nonce # tx.nonce}
  /\ balance' = balance - Fee[tx.event]
  /\ IF Contract!Accepts(Core[tx.event]) THEN Contract!AnchorEvent(Core[tx.event])
                                         ELSE UNCHANGED registryVars
  /\ UNCHANGED <<dbVars, job, final, envVars>>

\* The oldest mined transaction short of the confirmation target reaches it.
Confirm ==
  /\ final < Len(mined)
  /\ final' = final + 1
  /\ UNCHANGED <<dbVars, job, pool, mined, balance, registryVars, envVars>>

\* The node drops a transaction from its mempool.
Evict(tx) ==
  /\ tx \in pool
  /\ Fault("evict")
  /\ pool' = pool \ {tx}
  /\ UNCHANGED <<dbVars, job, mined, final, balance, registryVars, today>>

\* Another sender anchors an event: the contract takes calls from any address.
AnchorExternally(e) ==
  /\ Fault("external")
  /\ Contract!AnchorEvent(Core[e])
  /\ UNCHANGED <<dbVars, job, pool, mined, final, balance, today>>

\* The instance that runs a request dies.
Crash(w) ==
  /\ ~At(w, "idle")
  /\ Fault("crash")
  /\ Return(w)
  /\ UNCHANGED <<dbVars, chainVars, today>>

\* next_reconcile_at passes; it is read only once the row has a transaction.
BecomeDue(e) ==
  /\ Open(e) /\ HasTx(e) /\ ~op[e].due
  /\ op' = [op EXCEPT ![e] = [@ EXCEPT !.due = TRUE]]
  /\ UNCHANGED <<budget, nextNonce, job, chainVars, envVars>>

\* The UTC day ends.
NextDay ==
  /\ today < Days
  /\ today' = today + 1
  /\ UNCHANGED <<dbVars, job, chainVars, faults>>

-----------------------------------------------------------------------------

Init ==
  /\ op = [e \in Events |-> NoRow]
  /\ budget = [d \in 1..Days |-> [reserved |-> 0, spent |-> 0]]
  /\ nextNonce = 0
  /\ job = [w \in Workers |-> Idle]
  /\ pool = {}
  /\ mined = <<>>
  /\ final = 0
  /\ balance = InitialBalance
  /\ today = 1
  /\ faults = 0
  /\ Contract!Init

\* The steps of a request that is running, other than its faults.
Step(w) ==
  \/ Recheck(w) \/ Precheck(w) \/ FindAnchored(w) \/ MarkExternallyAnchored(w)
  \/ AcquireOperation(w) \/ ReadRow(w) \/ ReadReceipt(w) \/ ReadPendingNonce(w)
  \/ PrepareNewTransaction(w) \/ Rebroadcast(w) \/ Broadcast(w) \/ MarkSubmitted(w)
  \/ WaitForReceipt(w) \/ MarkRetryable(w) \/ DeferReconciliation(w) \/ RecordMinedCost(w)
  \/ FinalizeReceipt(w)

Fail(w) == RequestFails(w) \/ BroadcastFails(w) \/ ReconcileFails(w) \/ Crash(w)

ChainStep == (\E tx \in pool : Mine(tx)) \/ Confirm

Next ==
  \/ \E w \in Workers : \/ \E r \in Requests : StartRelay(w, r)
                        \/ \E e \in Polled : GetOperation(w, e)
                        \/ Step(w)
                        \/ Fail(w)
  \/ ChainStep
  \/ \E tx \in pool : Evict(tx)
  \/ \E e \in Events : AnchorExternally(e) \/ BecomeDue(e)
  \/ NextDay

Spec == Init /\ [][Next]_vars

-----------------------------------------------------------------------------
(* Properties *)

Row ==
  [state    : State \cup {"NONE"},
   body     : {r.body : r \in Requests} \cup {NoKey},
   key      : {r.key : r \in Requests} \cup {NoKey},
   nonce    : Nat \cup {NoNonce},
   attempts : Nat, polls : Nat, reserved : Nat, charged : Nat,
   day      : 1..Days,
   due      : BOOLEAN]

PcLabel == {"idle", "recheck", "precheck", "external", "markExternal", "acquire", "reconcile", "receipt",
            "nonce", "prepare", "rebroadcast", "broadcast", "submitted", "wait", "cost", "settle",
            "retryable", "defer", "abandon"}

JobRequest == Requests \cup [event : Events, body : {NoKey}, key : {NoKey}]

TypeOK ==
  /\ op \in [Events -> Row]
  /\ budget \in [1..Days -> [reserved : Nat, spent : Nat]]
  /\ nextNonce \in Nat
  /\ job \in [Workers -> [pc : PcLabel, req : JobRequest \cup {NoKey}, allow : BOOLEAN,
                         row : [state : State \cup {"NONE"}, attempts : Nat],
                         pending : Nat \cup {NoNonce}]]
  /\ \A w \in Workers : ~At(w, "idle") => job[w].req \in JobRequest
  /\ pool \in SUBSET [event : Events, nonce : Nat]
  /\ mined \in Seq([event : Events, ok : BOOLEAN])
  /\ final \in 0..Len(mined)
  /\ balance \in Int
  /\ today \in 1..Days
  /\ faults \in Nat
  /\ Contract!TypeOK

\* Two instances never allocate one nonce: the nonces of the rows differ, and the
\* durable counter is above all of them (#prepareNewTransaction reads the
\* pending nonce outside its transaction and may use a stale one).
NoncesDistinct ==
  /\ \A e, f \in Events : HasTx(e) /\ HasTx(f) /\ op[e].nonce = op[f].nonce => e = f
  /\ \A e \in Events : op[e].nonce < nextNonce

\* A transaction is durable before it is broadcast: whatever the node holds or
\* has mined is the one transaction a row names, so that a restart can find it.
OnlyDurableBroadcast ==
  /\ \A tx \in pool : tx = Tx(tx.event)
  /\ \A i \in DOMAIN mined : op[mined[i].event].nonce = i - 1

\* The relayer pays for an event at most once, and an event the relay gave up
\* on has no transaction that could still be mined.
PaidOnce ==
  /\ \A i, j \in DOMAIN mined : mined[i].event = mined[j].event => i = j
  /\ \A e \in Events : op[e].state = "FAILED_FINAL" =>
       /\ \A tx \in pool : tx.event # e
       /\ \A i \in DOMAIN mined : mined[i].event # e

\* No nonce below the counter is lost: every one belongs to a row that can still
\* be rebroadcast, so a failed preparation leaves no hole before later ones.
NoLostNonce ==
  \A n \in 0..(nextNonce - 1) : \E e \in Events : op[e].nonce = n

\* Every nonce below the durable counter belongs to exactly one row, and no row
\* has another (what relay_signer_state and its row lock are for).
NoncesExact == NoncesDistinct /\ NoLostNonce

\* CONFIRMED is claimed only for the relay's own, final, successful transaction
\* whose event the registry holds under the right key; REVERTED only for a final
\* revert (the promise of docs/RELAY.md on #finalizeReceipt).
OutcomeIsTrue ==
  \A e \in Events :
    /\ op[e].state = "CONFIRMED" => /\ IsFinal(Tx(e)) /\ mined[op[e].nonce + 1].ok
                                    /\ RegistryMatches(e)
    /\ op[e].state = "REVERTED" => IsFinal(Tx(e)) /\ ~mined[op[e].nonce + 1].ok

\* The sum of f over S, and what each operation holds or was charged of day d.
Total(f, S) == MapThenSumSet(LAMBDA e : f[e], S)
ReservedOn(d) == [e \in Events |-> IF op[e].day = d THEN op[e].reserved ELSE 0]
ChargedOn(d) == [e \in Events |-> IF op[e].day = d THEN op[e].charged ELSE 0]

\* The day's row adds up: what is reserved and spent is what its operations hold
\* and were charged, and the two never pass the daily budget, in whatever order
\* instances reserve, charge and release (#acquireOperation, #recordMinedCost).
BudgetAccounts ==
  \A d \in 1..Days :
    /\ budget[d].reserved = Total(ReservedOn(d), Events)
    /\ budget[d].spent = Total(ChargedOn(d), Events)
    /\ budget[d].reserved + budget[d].spent <= DailyBudget

\* The fee of an operation is in one place: reserved until its transaction is
\* final or the operation is given up, charged once, then or never.
FeeInOnePlace ==
  \A e \in Rows :
    /\ op[e].reserved + op[e].charged = (IF op[e].state = "FAILED_FINAL" THEN 0 ELSE Fee[e])
    /\ op[e].reserved = 0 \/ op[e].charged = 0
    /\ op[e].charged > 0 => IsFinal(Tx(e))
    /\ op[e].state \in Terminal => op[e].reserved = 0

\* The relay wastes no fee: as long as nobody else calls the contract, none of
\* its transactions reverts, although the transition is checked against a state
\* of the chain that is old when the transaction is mined (#validateTransition).
NoWastedFee == \A i \in DOMAIN mined : mined[i].ok

\* "Balance checks preserve the configured operating reserve" (docs/RELAY.md).
\* False as the code stands: MCRelayReserve.cfg.
ReserveKept == balance >= MinimumBalance

\* No event is broadcast more often than maxAttemptsPerEvent, although several
\* requests decide to rebroadcast from rows they read earlier.
AttemptsBounded == \A e \in Events : op[e].attempts <= MaxAttempts

\* #markFinalWithoutTransaction is never reached: attempts are counted only with
\* a transaction, so a row without one never has any.
NeverAbandons == \A w \in Workers : ~At(w, "abandon")

\* What enforce_relay_operation_update lets an UPDATE do to a row.
TriggerAllows(old, new) ==
  /\ old.state \in Terminal => new = old
  /\ old.nonce # NoNonce => new.nonce = old.nonce
  /\ <<new.body, new.key, new.day>> = <<old.body, old.key, old.day>>
  /\ \/ new.state = old.state
     \/ old.state = "READY" /\ new.state \in {"SUBMITTING", "FAILED_RETRYABLE", "FAILED_FINAL"}
     \/ old.state = "SUBMITTING" /\ new.state \in {"SUBMITTED", "FAILED_RETRYABLE", "FAILED_FINAL"}
     \/ old.state = "SUBMITTED" /\ new.state \in {"CONFIRMED", "REVERTED", "FAILED_RETRYABLE", "FAILED_FINAL"}
     \/ old.state = "FAILED_RETRYABLE" /\ new.state \in State

\* The rows the service writes are rows the database trigger accepts, whatever
\* happened to the row since the request read it: a WHERE clause never lets an
\* old request touch a final result or replace a transaction.  (The UPDATE the
\* trigger does have to abort, REVERTED on SUBMITTING, is part of Outcome.)
UpdatesObeyTrigger ==
  [][\A e \in Rows : TriggerAllows(op[e], op'[e])]_vars

\* Requests of the event in flight; a GET carries no body.
InFlight(e, isPost) ==
  \E w \in Workers : ~At(w, "idle") /\ Event(w) = e /\ (job[w].req.body # NoKey) = isPost

\* A request has the transaction in hand: from #prepareNewTransaction or #rebroadcast
\* to the UPDATE that makes the row SUBMITTED.
Sending(e) == \E w \in Workers : job[w].pc \in {"broadcast", "submitted"} /\ Event(w) = e

\* How an operation and the chain look to the clients of the relay.
Shown(e) ==
  LET tx == Tx(e) IN
  [row     |-> op[e].state,
   tx      |-> IF ~HasTx(e) THEN "none" ELSE IF IsFinal(tx) THEN "final"
               ELSE IF IsMined(tx) THEN "mined" ELSE IF tx \in pool THEN "pending" ELSE "lost",
   by      |-> IF e \notin anchoredEvents THEN "nobody"
               ELSE IF IsMined(tx) /\ mined[tx.nonce + 1].ok THEN "relay" ELSE "other",
   posting |-> InFlight(e, TRUE),
   sending |-> Sending(e),
   asking  |-> InFlight(e, FALSE),
   polls   |-> op[e].polls]

\* The service implements the states docs/RELAY.md describes: which requests may
\* change a row and when, that a transaction is handed to the node by POSTs only,
\* and that a result follows the chain.
Operation == INSTANCE RelayOperation
  WITH relay <- [e \in Events |-> Shown(e)], NoCap <- -1, Outside <- "external" \in Faults
Implements == Operation!Spec

-----------------------------------------------------------------------------
(* Liveness *)

\* A client repeats its POST until it is answered with a final result, requests
\* run to their end, the chain mines what it holds and time passes.
Fairness ==
  /\ \A r \in Requests : SF_vars(\E w \in Workers : StartRelay(w, r))
  /\ \A w \in Workers : WF_vars(Step(w))
  /\ WF_vars(ChainStep)
  /\ \A e \in Events : WF_vars(BecomeDue(e))

FairSpec == Spec /\ Fairness

\* Every operation that is accepted comes to a final result, whatever requests
\* race for it and whichever nonce is in front of its own.  It holds while no
\* instance dies, nobody else anchors the event, the node keeps what it accepted
\* and fewer broadcasts are lost than maxAttemptsPerEvent; the next two
\* properties are about the first two of these.
OperationsSettle == \A e \in Events : e \in Rows ~> op[e].state \in Terminal

\* "An exact signed POST retry can still reconcile the same operation and
\* transaction hash" (docs/RELAY.md): once the transaction of an operation has
\* its confirmations, the retries of the client record the result.
\* False as the code stands: MCRelayCrash.cfg.
MinedOperationsSettle ==
  \A e \in Events : (HasTx(e) /\ IsFinal(Tx(e))) ~> op[e].state \in Terminal
=============================================================================
