---------------------------- MODULE AnchorWorkflow ----------------------------
(***************************************************************************)
(* apps/extension/lib/anchor-workflow.ts and its callers in background.ts: *)
(* the extension has the events of its receipts anchored through the relay *)
(* (module RelayOperation) and confirms only what it verified itself.      *)
(*                                                                         *)
(* A flight is one runReceiptAnchorLifecycle; an action of it is the code  *)
(* from one await to the next.  Storage writes are queued, one after the   *)
(* other, and only the flight of a receipt writes the operations of its    *)
(* events, so the stored operation stands for the flight's own copy.  The  *)
(* service worker may stop between any two actions; the relay, the chain   *)
(* and other senders go on by themselves.                                  *)
(*                                                                         *)
(* A blob identifier stands for the envelope it was given for (BlobStore). *)
(* A transaction hash is "relay", for the relay's own transaction of the   *)
(* event, or "other".  WRONG_NETWORK and CONTRACT_MISMATCH are treated by  *)
(* the code as RPC_UNAVAILABLE is, and stand behind it.  Left out: block   *)
(* numbers, times and texts, deletion and import of receipts, rival events *)
(* of the same receipt, and the limit of 100 operations.                   *)
(***************************************************************************)
EXTENDS Integers, FiniteSets

CONSTANTS
  Order,          \* the receipts in the order of the receipt index
  PollsPerWake,   \* MAX_POLLS_PER_WAKE
  Counters,       \* the counters kept; no other comes near its limit
  MaxCount,       \* the limit isCount sets, 10 000 in the code
  MaxPolls, NoCap, Outside,   \* of the relay
  Faults, MaxFaults           \* the faults of the environment, and how many

Receipts == {Order[k] : k \in DOMAIN Order}
Events == Receipts \X {1, 2}    \* ATTEMPTED, SITE_CONFIRMED

ASSUME AnchorAssumption ==
  /\ PollsPerWake \in Nat \ {0} /\ MaxCount \in Nat /\ MaxFaults \in Nat
  /\ MaxPolls \in Nat \cup {NoCap} /\ Outside \in BOOLEAN
  /\ Counters \subseteq {"uploads", "relayRequests", "polls", "verifications"}
  /\ Faults \subseteq {"timeout", "stop", "node", "rpc", "premature", "evict", "external", "crash"}

VARIABLES
  relay,      \* RelayOperation
  signed,     \* by receipt: how many events are signed and saved
  ops,        \* anchorOperations, by event
  flight,     \* anchorReceiptFlights, by receipt
  recovery,   \* recoverAnchorLifecycles: the receipts it has not done yet, taken in order
  posted,     \* history: the blobs POSTs named, by event
  faults      \* faults so far

vars == <<relay, signed, ops, flight, recovery, posted, faults>>

Relay == INSTANCE RelayOperation

NoBlob == 0
NoOp == [state |-> "NONE"]
NewOp ==
  [state |-> "SAVED_LOCALLY", blob |-> NoBlob, token |-> FALSE, hash |-> "none",
   alreadyAnchored |-> FALSE, count |-> [c \in Counters |-> 0]]

Hashes == {"none", "relay", "other"}
Recoverable == {"RELAY_UNAVAILABLE", "RETRYABLE_FAILURE"}

\* ANCHOR_OPERATION_STATES
OpStates ==
  {"SAVED_LOCALLY", "UPLOADING_ENCRYPTED_PROOF", "ENCRYPTED_PROOF_UPLOADED",
   "REQUESTING_MONAD_ANCHOR", "SUBMITTED_TO_RELAY", "WAITING_FOR_TRANSACTION",
   "WAITING_FOR_CONFIRMATIONS", "VERIFYING_CONTRACT_STATE", "CHAIN_EVIDENCE_CONFIRMED",
   "FINAL_FAILURE", "RPC_UNAVAILABLE", "RECONCILIATION_REQUIRED"} \cup Recoverable

\* parseAnchorOperation, which every load applies to what an update has written.
ValidOperation(o) ==
  /\ o \in [state : OpStates, blob : 0..4, token : BOOLEAN, hash : Hashes,
            alreadyAnchored : BOOLEAN, count : [Counters -> 0..MaxCount]]
  /\ o.state = "CHAIN_EVIDENCE_CONFIRMED" => o.hash # "none"

NoView == [row |-> "NONE", hash |-> "none"]
Idle == [pc |-> "idle"]

At(r, pc) == flight[r].pc = pc
Current(r) == <<r, flight[r].event>>
Op(r) == ops[Current(r)]

\* The receipt is encrypted anew, under another blob identifier, when an event is
\* added and when a verified anchor is attached.
Envelope(r) ==
  signed[r] + Cardinality({i \in {1, 2} : ops[<<r, i>>].state = "CHAIN_EVIDENCE_CONFIRMED"})

Fault(kind) == kind \in Faults /\ faults < MaxFaults /\ faults' = faults + 1

-----------------------------------------------------------------------------
(* Flights and storage *)

Goto(r, pc) == flight' = [flight EXCEPT ![r].pc = pc] /\ UNCHANGED recovery

\* The receipt recoverAnchorLifecycles is at.
Turn(r) ==
  /\ r \in recovery
  /\ \A j, k \in DOMAIN Order : Order[j] = r /\ Order[k] \in recovery => j <= k

\* The flight ends; recoverAnchorLifecycles awaits it if it is there, and is
\* aborted by a flight that throws.
Land(r, completed) ==
  /\ flight' = [flight EXCEPT ![r] = Idle]
  /\ recovery' = IF ~Turn(r) THEN recovery ELSE IF completed THEN recovery \ {r} ELSE {}

Start(r) ==
  flight' = [flight EXCEPT ![r] =
    [pc |-> "begin", event |-> 1, upTo |-> signed'[r], poll |-> 0, envelope |-> 0, view |-> NoView,
     hash |-> "none"]]

\* saveAnchorOperation and updateAnchorOperation refuse to rewrite evidence and to
\* count past the limit.
Rewrites(old, new) ==
  \/ old.state = "CHAIN_EVIDENCE_CONFIRMED"
  \/ old.blob # NoBlob /\ new.blob # old.blob
  \/ old.token /\ ~new.token
  \/ old.hash # "none" /\ new.hash # old.hash
\* Broken: one count too many.
RefusedLate(old, new) == Rewrites(old, new) \/ \E c \in Counters : new.count[c] > MaxCount + 1
Refused(old, new) == Rewrites(old, new) \/ \E c \in Counters : new.count[c] > MaxCount

Counted(o, counter) ==
  [o EXCEPT !.count = [c \in Counters |-> IF c = counter THEN o.count[c] + 1 ELSE o.count[c]]]

Store(r, o) == ops' = [ops EXCEPT ![Current(r)] = o]

\* A save outside of every try block: the flight throws if it is refused.
Save(r, o, pc) ==
  IF Refused(Op(r), o) THEN Land(r, FALSE) /\ UNCHANGED ops
  ELSE Store(r, o) /\ Goto(r, pc)

\* The last save of a run that did not confirm the event.
SaveAndReturn(r, o) == Store(r, o) /\ Land(r, TRUE)

Failed(r, state) == [Op(r) EXCEPT !.state = state, !.alreadyAnchored = FALSE]

\* A save in a try block, which failForRelayError follows if it is refused.
TrySave(r, o, pc) ==
  IF Refused(Op(r), o) THEN SaveAndReturn(r, Failed(r, "RELAY_UNAVAILABLE"))
  ELSE Store(r, o) /\ Goto(r, pc)

-----------------------------------------------------------------------------
(* What starts a flight *)

\* An event is saved, and its receipt's lifecycle triggered unless it runs.
SaveEvent(r) ==
  /\ signed[r] < 2
  /\ signed' = [signed EXCEPT ![r] = signed[r] + 1]
  /\ IF At(r, "idle") THEN Start(r) ELSE UNCHANGED flight
  /\ UNCHANGED <<relay, ops, recovery, posted, faults>>

\* The user asks for a recheck.
Recheck(r) ==
  /\ signed[r] > 0 /\ At(r, "idle")
  /\ UNCHANGED signed /\ Start(r)
  /\ UNCHANGED <<relay, ops, recovery, posted, faults>>

\* Broken: as if nothing came after a relay that did not answer.
Waiting(r) ==
  \E i \in 1..signed[r] :
    ops[<<r, i>>].state \notin {"CHAIN_EVIDENCE_CONFIRMED", "FINAL_FAILURE", "RELAY_UNAVAILABLE"}

\* anchorEventsNeedRecovery
NeedsRecovery(r) ==
  \E i \in 1..signed[r] : ops[<<r, i>>].state \notin {"CHAIN_EVIDENCE_CONFIRMED", "FINAL_FAILURE"}

\* The alarm of each minute, or the start of the worker.
Alarm ==
  /\ recovery = {}
  /\ recovery' = {r \in Receipts : NeedsRecovery(r)}
  /\ recovery' # {}
  /\ UNCHANGED <<relay, signed, ops, flight, posted, faults>>

Recover ==
  /\ \E r \in recovery : Turn(r) /\ At(r, "idle") /\ UNCHANGED signed /\ Start(r)
  /\ UNCHANGED <<relay, ops, recovery, posted, faults>>

-----------------------------------------------------------------------------
(* runAnchorWorkflow up to the POST *)

DirectReverifyStates == {"VERIFYING_CONTRACT_STATE", "RPC_UNAVAILABLE"}
Reverifies(o) == o.hash # "none" /\ o.state \in DirectReverifyStates
Runs(o) == o.state \notin {"NONE", "CHAIN_EVIDENCE_CONFIRMED", "FINAL_FAILURE"}

\* The next event of the receipt comes only after a confirmed one.
GoesOnAnyway(r) == Op(r).state \in {"CHAIN_EVIDENCE_CONFIRMED", "RELAY_UNAVAILABLE"}  \* broken
GoesOn(r) == Op(r).state = "CHAIN_EVIDENCE_CONFIRMED"

EndEvent(r) ==
  /\ At(r, "begin")
  /\ \/ GoesOn(r) /\ flight[r].event < flight[r].upTo
        /\ flight' = [flight EXCEPT ![r].event = 2]
        /\ UNCHANGED recovery
     \/ /\ \/ GoesOn(r) /\ flight[r].event = flight[r].upTo
           \/ Op(r).state = "FINAL_FAILURE"
        /\ Land(r, TRUE)
  /\ UNCHANGED <<relay, signed, ops, posted, faults>>

\* ensureAnchorOperation
Ensure(r) ==
  /\ At(r, "begin") /\ Op(r) = NoOp
  /\ Store(r, NewOp)
  /\ UNCHANGED <<relay, signed, flight, recovery, posted, faults>>

\* A known transaction is verified again, or polling goes on for a known token.
Resume(r) ==
  /\ At(r, "begin") /\ Runs(Op(r))
  /\ \/ Reverifies(Op(r))
        /\ flight' = [flight EXCEPT ![r].pc = "verify", ![r].hash = Op(r).hash]
     \/ ~Reverifies(Op(r)) /\ Op(r).token
        /\ flight' = [flight EXCEPT ![r].pc = "poll"]
  /\ UNCHANGED <<relay, signed, ops, recovery, posted, faults>>

\* The envelope is read with the artifacts, before the upload.
SendUpload(r) ==
  /\ At(r, "begin") /\ Runs(Op(r)) /\ ~Reverifies(Op(r)) /\ ~Op(r).token /\ Op(r).blob = NoBlob
  /\ LET o == [Counted(Op(r), "uploads") EXCEPT !.state = "UPLOADING_ENCRYPTED_PROOF",
                                                !.alreadyAnchored = FALSE] IN
     IF Refused(Op(r), o) THEN Land(r, FALSE) /\ UNCHANGED ops
     ELSE /\ Store(r, o)
          /\ flight' = [flight EXCEPT ![r].pc = "upload", ![r].envelope = Envelope(r)]
          /\ UNCHANGED recovery
  /\ UNCHANGED <<relay, signed, posted, faults>>

UploadAnswered(r) ==
  /\ At(r, "upload")
  /\ TrySave(r, [Op(r) EXCEPT !.blob = flight[r].envelope, !.state = "ENCRYPTED_PROOF_UPLOADED"],
             "begin")
  /\ UNCHANGED <<relay, signed, posted, faults>>

\* The blob a POST names.
CurrentBlob(r) == Envelope(r)   \* broken: the local blob instead of the uploaded one
PostedBlob(r) == Op(r).blob

SendPost(r) ==
  /\ At(r, "begin") /\ Runs(Op(r)) /\ ~Reverifies(Op(r)) /\ ~Op(r).token /\ Op(r).blob # NoBlob
  /\ LET o == [Counted(Op(r), "relayRequests") EXCEPT !.state = "REQUESTING_MONAD_ANCHOR",
                                                      !.alreadyAnchored = FALSE] IN
     /\ Save(r, o, "post")
     /\ IF Refused(Op(r), o) THEN UNCHANGED <<relay, posted>>
        ELSE /\ posted' = [posted EXCEPT ![Current(r)] = @ \cup {PostedBlob(r)}]
             /\ IF relay[Current(r)].row \in Relay!Terminal THEN UNCHANGED relay
                ELSE Relay!Post(Current(r))
  /\ UNCHANGED <<signed, faults>>

-----------------------------------------------------------------------------
(* The answers of the relay *)

View(e) ==
  [row |-> relay[e].row, hash |-> IF relay[e].tx = "none" THEN "none" ELSE "relay"]

\* Broken: no failure is taken for one to retry.
FinalState(v) ==
  CASE v.row \in {"READY", "SUBMITTING"} -> "WAITING_FOR_TRANSACTION"
    [] v.row = "SUBMITTED" -> "WAITING_FOR_CONFIRMATIONS"
    [] v.row = "CONFIRMED" -> "VERIFYING_CONTRACT_STATE"
    [] OTHER -> "FINAL_FAILURE"

\* localStateForRelay
LocalState(v) ==
  CASE v.row \in {"READY", "SUBMITTING"} -> "WAITING_FOR_TRANSACTION"
    [] v.row = "SUBMITTED" -> "WAITING_FOR_CONFIRMATIONS"
    [] v.row = "CONFIRMED" -> "VERIFYING_CONTRACT_STATE"
    [] v.row = "FAILED_RETRYABLE" -> "RETRYABLE_FAILURE"
    [] OTHER -> "FINAL_FAILURE"

\* withRelayView.  The relay fails an operation for good only with the code
\* EVENT_ALREADY_ANCHORED.
WithView(o, v) ==
  [o EXCEPT !.state = LocalState(v), !.token = TRUE,
            !.hash = IF v.hash = "none" THEN o.hash ELSE v.hash,
            !.alreadyAnchored = v.row = "FAILED_FINAL"]

\* Bytes other than those the operation is bound to.
Conflicts(r) == relay[Current(r)].row # "NONE" /\ posted[Current(r)] # {PostedBlob(r)}

\* The first of the two saves that follow a POST.  The relay answers with the row
\* as it is, also while another POST of the event is at work on it.
PostAnswered(r) ==
  LET e == Current(r)
      v == View(e) IN
  /\ At(r, "post")
  /\ v.row # "NONE" /\ ~Conflicts(r)
  /\ LET o == [Op(r) EXCEPT !.state = "SUBMITTED_TO_RELAY", !.token = TRUE, !.hash = v.hash] IN
     IF Refused(Op(r), o) THEN SaveAndReturn(r, Failed(r, "RELAY_UNAVAILABLE"))
     ELSE /\ Store(r, o)
          /\ flight' = [flight EXCEPT ![r].pc = "submitted", ![r].view = v]
          /\ UNCHANGED recovery
  /\ UNCHANGED <<relay, signed, posted, faults>>

\* The second one.
SaveView(r) ==
  /\ At(r, "submitted")
  /\ TrySave(r, WithView(Op(r), flight[r].view), "poll")
  /\ UNCHANGED <<relay, signed, posted, faults>>

\* A refusal: an event that others have anchored is looked up on the chain; other
\* content under the event's hash and an event without its predecessor are final.
PostRefused(r) ==
  LET e == Current(r)
      alreadyAnchored == relay[e].row = "NONE" /\ relay[e].by # "nobody"
      orphan == relay[e].row = "NONE" /\ e[2] = 2 /\ relay[<<r, 1>>].by = "nobody" IN
  /\ At(r, "post")
  /\ \/ alreadyAnchored /\ Goto(r, "discover") /\ UNCHANGED ops
     \/ (Conflicts(r) \/ orphan) /\ SaveAndReturn(r, Failed(r, "FINAL_FAILURE"))
  /\ relay' = [relay EXCEPT ![e].posting = relay[e].sending]   \* another POST may be at it
  /\ UNCHANGED <<signed, posted, faults>>

\* The instance that runs the POSTs of an event dies.
Drop(e) == relay' = [relay EXCEPT ![e].posting = FALSE, ![e].sending = FALSE]

\* No answer, or one to try again: the request never arrived, or the relay goes on
\* with it, or its instance dies.
RelayFails(r) ==
  LET e == Current(r) IN
  /\ flight[r].pc \in {"upload", "post", "get"}
  /\ \E state \in Recoverable : SaveAndReturn(r, Failed(r, state))
  /\ \/ Fault("timeout")
        /\ \/ UNCHANGED relay
           \/ At(r, "post") /\ ~relay[e].sending /\ relay' = [relay EXCEPT ![e].posting = FALSE]
           \/ At(r, "get") /\ relay' = [relay EXCEPT ![e].asking = FALSE]
     \/ Fault("crash") /\ At(r, "post") /\ Drop(e)
  /\ UNCHANGED <<signed, posted>>

-----------------------------------------------------------------------------
(* The poll loop *)

\* What the head of the loop does with an operation before it asks.
Poll(r) ==
  LET o == Op(r) IN
  /\ At(r, "poll") /\ flight[r].poll < PollsPerWake
  /\ \/ /\ o.state = "FINAL_FAILURE" /\ ~o.alreadyAnchored
        /\ Land(r, TRUE)
     \/ /\ o.alreadyAnchored
        /\ Goto(r, "discover")
     \/ /\ o.state = "VERIFYING_CONTRACT_STATE" /\ ~o.alreadyAnchored /\ o.hash # "none"
        /\ flight' = [flight EXCEPT ![r].pc = "verify", ![r].hash = o.hash]
        /\ UNCHANGED recovery
  /\ UNCHANGED <<relay, signed, ops, posted, faults>>

SendGet(r) ==
  LET o == Op(r)
      next == [Counted(o, "polls") EXCEPT
                 !.state = IF o.hash = "none" THEN "WAITING_FOR_TRANSACTION"
                                              ELSE "WAITING_FOR_CONFIRMATIONS"] IN
  /\ At(r, "poll") /\ flight[r].poll < PollsPerWake
  /\ o.state # "FINAL_FAILURE" /\ ~o.alreadyAnchored
  /\ o.state # "VERIFYING_CONTRACT_STATE" \/ o.hash = "none"
  /\ Save(r, next, "get")
  /\ IF Relay!Open(Current(r)) /\ ~Refused(o, next) THEN Relay!Ask(Current(r))
     ELSE UNCHANGED relay
  /\ UNCHANGED <<signed, posted, faults>>

\* The relay may also report a transaction as CONFIRMED that is not final, or no
\* longer mined, for the node of the extension.
GetAnswered(r) ==
  LET e == Current(r) IN
  /\ At(r, "get")
  /\ \E v \in {View(e), [View(e) EXCEPT !.row = "CONFIRMED"]} :
       LET o == WithView(Op(r), v) IN
       /\ IF v = View(e) THEN UNCHANGED faults
          ELSE relay[e].tx \notin {"none", "final"} /\ Fault("premature")
       /\ IF Refused(Op(r), o) THEN SaveAndReturn(r, Failed(r, "RELAY_UNAVAILABLE"))
          ELSE IF v.row = "REVERTED" THEN SaveAndReturn(r, o)
          ELSE /\ Store(r, o)
               /\ flight' = [flight EXCEPT
                    ![r].pc = CASE v.row = "CONFIRMED" -> "verify"
                                [] v.row = "FAILED_FINAL" -> "discover"
                                [] OTHER -> "poll",
                    ![r].poll = flight[r].poll + 1, ![r].hash = o.hash]
               /\ UNCHANGED recovery
  /\ relay' = [relay EXCEPT ![e].asking = FALSE]
  /\ UNCHANGED <<signed, posted>>

\* BOUNDED_POLLING_PAUSED
PausePolling(r) ==
  /\ At(r, "poll") /\ flight[r].poll = PollsPerWake
  /\ SaveAndReturn(r, Failed(r, "RECONCILIATION_REQUIRED"))
  /\ UNCHANGED <<relay, signed, posted, faults>>

-----------------------------------------------------------------------------
(* Independent verification *)

\* The hash whose final transaction anchored the event, by the chain.
Anchors(e, hash) ==
  \/ hash = "relay" /\ relay[e].by = "relay" /\ relay[e].tx = "final"
  \/ hash = "other" /\ relay[e].by = "other"

\* discoverAndVerify: the event's log is looked for in the final blocks.
Discover(r) ==
  LET e == Current(r) IN
  /\ At(r, "discover")
  /\ \E h \in {"relay", "other"} :
       Anchors(e, h) /\ flight' = [flight EXCEPT ![r].pc = "verify", ![r].hash = h]
  /\ UNCHANGED <<relay, signed, ops, recovery, posted, faults>>

\* It is not in a final block yet, or the node fails.
DiscoverNothing(r) ==
  /\ At(r, "discover")
  /\ Fault("node")
  /\ \E state \in {"RECONCILIATION_REQUIRED", "RPC_UNAVAILABLE"} :
       SaveAndReturn(r, Failed(r, state))
  /\ UNCHANGED <<relay, signed, posted>>

\* verifyAndConfirm up to the verification.
Verify(r) ==
  /\ At(r, "verify")
  /\ Save(r, [Counted(Op(r), "verifications") EXCEPT
                !.state = "VERIFYING_CONTRACT_STATE", !.hash = flight[r].hash,
                !.alreadyAnchored = FALSE],
          "verifying")
  /\ UNCHANGED <<relay, signed, posted, faults>>

\* verifyExtensionEventAnchor finds the event in the transaction's log.
Mined(r) == relay[Current(r)].by # "nobody"      \* broken: of no matter which transaction
Verifies(r) == Anchors(Current(r), Op(r).hash)

\* storeVerifiedChainAnchor: the evidence is attached and the operation confirmed.
Verified(r) ==
  /\ At(r, "verifying") /\ Verifies(r)
  /\ Store(r, [Op(r) EXCEPT !.state = "CHAIN_EVIDENCE_CONFIRMED", !.alreadyAnchored = FALSE])
  /\ Goto(r, "begin")
  /\ UNCHANGED <<relay, signed, posted, faults>>

\* failForVerificationError: not final, reverted, not found, or a failing node.
NotVerified(r) ==
  LET e == Current(r) IN
  /\ At(r, "verifying")
  /\ \/ /\ Op(r).hash = "relay" /\ ~Verifies(r)
        /\ SaveAndReturn(r, Failed(r, IF relay[e].tx \notin {"mined", "final"} THEN "RPC_UNAVAILABLE"
                                      ELSE IF relay[e].by = "relay" THEN "RECONCILIATION_REQUIRED"
                                      ELSE "FINAL_FAILURE"))
        /\ UNCHANGED faults
     \/ /\ Fault("node")
        /\ \E state \in {"RECONCILIATION_REQUIRED", "RPC_UNAVAILABLE"} :
             SaveAndReturn(r, Failed(r, state))
  /\ UNCHANGED <<relay, signed, posted>>

-----------------------------------------------------------------------------
(* The environment *)

\* The browser stops the service worker.
Stop ==
  /\ Fault("stop")
  /\ \E r \in Receipts : ~At(r, "idle")
  /\ flight' = [r \in Receipts |-> Idle]
  /\ recovery' = {}
  /\ UNCHANGED <<relay, signed, ops, posted>>

\* The relay works at its requests; an event is accepted after its predecessor, is
\* SUBMITTED when the node has its transaction, and is SUBMITTING while a POST has
\* the transaction in hand.
Undisturbed(e) ==
  /\ relay[e].row = "NONE" /\ e[2] = 2 => relay[<<e[1], 1>>].by # "nobody"
  /\ relay'[e].row = "SUBMITTED" => relay'[e].tx # "lost"
  /\ relay'[e].row = "SUBMITTING" => relay'[e].sending
  /\ relay'[e].posting = relay[e].posting /\ relay'[e].asking = relay[e].asking
  /\ UNCHANGED <<signed, ops, flight, recovery, posted>>
RelayWork(e) == Relay!Work(e) /\ Undisturbed(e) /\ UNCHANGED faults

\* FAILED_RETRYABLE: the confirmations are late, or the relay's node fails.
RelayRetries(e) ==
  /\ IF relay[e].tx \in {"none", "lost"} THEN Fault("rpc") ELSE UNCHANGED faults
  /\ Relay!Retry(e) /\ Undisturbed(e)

\* A POST accepts the event and prepares its transaction, or has it in hand.
AtWork(e) ==
  relay[e].row \in {"NONE", "READY"} \/ (relay[e].sending /\ relay[e].row = "SUBMITTING")

\* A POST ends: it has done its work, or it is a repeated one and the row has a
\* transaction already, which it leaves in the state it is in, SUBMITTING included.
PostEnds(e) ==
  /\ relay[e].posting /\ ~AtWork(e)
  /\ Drop(e)
  /\ UNCHANGED <<signed, ops, flight, recovery, posted, faults>>

\* The instance dies while nobody waits for the POST.
PostDropped(e) ==
  /\ relay[e].posting /\ (At(e[1], "post") => Current(e[1]) # e)
  /\ Fault("crash") /\ Drop(e)
  /\ UNCHANGED <<signed, ops, flight, recovery, posted>>

\* A GET nobody waits for ends.
GetEnds(e) ==
  /\ relay[e].asking /\ (At(e[1], "get") => Current(e[1]) # e)
  /\ relay' = [relay EXCEPT ![e].asking = FALSE]
  /\ UNCHANGED <<signed, ops, flight, recovery, posted, faults>>

ChainStep(e) == Relay!ChainStep(e) /\ UNCHANGED <<signed, ops, flight, recovery, posted, faults>>
Evict(e) == Relay!Evict(e) /\ Fault("evict") /\ UNCHANGED <<signed, ops, flight, recovery, posted>>
AnchorExternally(e) ==
  /\ e[2] = 2 => relay[<<e[1], 1>>].by # "nobody"
  /\ signed[e[1]] >= e[2]
  /\ Relay!AnchorExternally(e)
  /\ Fault("external")
  /\ UNCHANGED <<signed, ops, flight, recovery, posted>>

-----------------------------------------------------------------------------

Init ==
  /\ Relay!Init
  /\ signed = [r \in Receipts |-> 0]
  /\ ops = [e \in Events |-> NoOp]
  /\ flight = [r \in Receipts |-> Idle]
  /\ recovery = {}
  /\ posted = [e \in Events |-> {}]
  /\ faults = 0

\* The steps of a flight other than its faults.
Step(r) ==
  \/ EndEvent(r) \/ Ensure(r) \/ Resume(r) \/ SendUpload(r) \/ UploadAnswered(r) \/ SendPost(r)
  \/ PostAnswered(r) \/ SaveView(r) \/ PostRefused(r)
  \/ Poll(r) \/ SendGet(r) \/ GetAnswered(r) \/ PausePolling(r)
  \/ Discover(r) \/ DiscoverNothing(r) \/ Verify(r) \/ Verified(r) \/ NotVerified(r)

Next ==
  \/ \E r \in Receipts : SaveEvent(r) \/ Recheck(r) \/ Step(r) \/ RelayFails(r)
  \/ Alarm \/ Recover \/ Stop
  \/ \E e \in Events :
       RelayWork(e) \/ RelayRetries(e) \/ PostEnds(e) \/ PostDropped(e) \/ GetEnds(e)
       \/ ChainStep(e) \/ Evict(e) \/ AnchorExternally(e)

Spec == Init /\ [][Next]_vars

-----------------------------------------------------------------------------
(* Properties *)

FlightType ==
  [pc : {"begin", "upload", "post", "submitted", "poll", "get", "discover", "verify", "verifying"},
   event : {1, 2}, upTo : {1, 2}, poll : 0..PollsPerWake, envelope : 0..4,
   view : [row : Relay!States, hash : Hashes], hash : Hashes]

\* Every variable has its type; a flight that polls has a status token, and what
\* is stored can be loaded again: parseAnchorOperation accepts it.
TypeOK ==
  /\ signed \in [Receipts -> 0..2]
  /\ DOMAIN ops = Events
  /\ \A e \in Events : ops[e] = NoOp \/ ValidOperation(ops[e])
  /\ flight \in [Receipts -> {Idle} \cup FlightType]
  /\ recovery \subseteq Receipts
  /\ posted \in [Events -> SUBSET (1..4)]
  /\ \A r \in Receipts : flight[r].pc \in {"submitted", "poll", "get"} => Op(r).token

\* However often a POST is repeated, after lost answers and stopped workers and
\* although the receipt was encrypted anew in between, it names the same blob, so
\* that the relay takes it for the same request.
ExactRetries == \A e \in Events : Cardinality(posted[e]) <= 1

\* The second event of a receipt is sent to the relay only when the first is
\* confirmed on the chain, where the relay wants to find it.
SentInOrder ==
  \A r \in Receipts : posted[<<r, 2>>] # {} =>
    ops[<<r, 1>>].state = "CHAIN_EVIDENCE_CONFIRMED" /\ relay[<<r, 1>>].by # "nobody"

\* The extension gives an event up, for which it has no way back, only if no
\* transaction of the relay has anchored it or can still be mined to do so.
GivesUpWithReason ==
  \A e \in Events : ops[e].state = "FINAL_FAILURE" =>
    relay[e].by # "relay" /\ relay[e].tx \notin {"lost", "pending"}

\* Confirmed evidence is the final transaction that anchored the event, whoever
\* sent it and whatever the relay said about its own.
ConfirmedIsTrue ==
  \A e \in Events : ops[e].state = "CHAIN_EVIDENCE_CONFIRMED" => Anchors(e, ops[e].hash)

\* A recovery goes from receipt to receipt until the worker stops: whatever keeps
\* one receipt from being anchored, the next one has its turn.
\* False as the code stands: MCAnchorCounters.cfg.
RecoveryReachesAll ==
  [][~Stop => \A r \in recovery : Turn(r) \/ r \in recovery']_vars

-----------------------------------------------------------------------------
(* Liveness *)

\* Flights go on, the alarm rings, the chain mines and confirms, and a POST goes on
\* until it has done its work.  Nobody comes to the help of a row that no POST is
\* at work on, whichever request is repeated: a GET, and a POST of a row that has
\* a transaction, need not change it (Resubmit is not fair).  But a row that is
\* SUBMITTED or FAILED_RETRYABLE gets its result while it is asked for again and
\* again: next_reconcile_at passes between two wakes.
Fairness ==
  /\ \A r \in Receipts : WF_vars(Step(r))
  /\ WF_vars(Alarm) /\ WF_vars(Recover)
  /\ \A e \in Events :
       /\ WF_vars(Relay!Accept(e) /\ Undisturbed(e) /\ UNCHANGED faults)
       /\ WF_vars(Relay!Prepare(e) /\ Undisturbed(e) /\ UNCHANGED faults)
       /\ WF_vars(Relay!Broadcast(e) /\ Undisturbed(e) /\ UNCHANGED faults)
       /\ WF_vars(Relay!Submitted(e) /\ Undisturbed(e) /\ UNCHANGED faults)
       /\ SF_vars(Relay!Settle(e) /\ Undisturbed(e) /\ UNCHANGED faults)
       /\ WF_vars(PostEnds(e)) /\ WF_vars(ChainStep(e))

FairSpec == Spec /\ Fairness

\* "A once-per-minute alarm [resumes] incomplete durable operations after worker
\* suspension or browser restart" (docs/EXTENSION.md): every event the extension
\* has saved ends with verified evidence, also one saved while a flight that does
\* not know it is under way.  It holds while no instance of the relay dies and its
\* node does not fail; false as the code stands: MCAnchorRebroadcast.cfg.
SavedEventsConfirm ==
  \A e \in Events : signed[e[1]] >= e[2] ~> ops[e].state = "CHAIN_EVIDENCE_CONFIRMED"

\* The relay left the event unfinished and no POST is at it: its row waits for one
\* that sends the transaction or says that it was sent.
Stranded(e) ==
  /\ Relay!Open(e) /\ ~relay[e].posting
  /\ relay[e].row \in {"READY", "SUBMITTING"} \/ relay[e].tx \in {"none", "lost"}

\* Every event the extension has saved ends with verified evidence, through lost
\* answers, stopped workers, failing nodes and a relay that dies at any step,
\* unless the relay has left it, or its predecessor, stranded for good: only a POST
\* would help then, and a client that has its status token sends none (the states
\* MCRelayCrash.cfg and MCAnchorRebroadcast.cfg show).  The extension itself never
\* stops trying.
ConfirmedOrStranded ==
  \A e \in Events :
    signed[e[1]] >= e[2] ~> \/ ops[e].state = "CHAIN_EVIDENCE_CONFIRMED"
                            \/ [](\E i \in 1..e[2] : Stranded(<<e[1], i>>))
=============================================================================
