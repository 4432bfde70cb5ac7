------------------------- MODULE RelayService_proofs -------------------------
(***************************************************************************)
(* Theorems about the relay for any events, requests and number of         *)
(* concurrent requests, and for any budget, attempt cap and fault bound.   *)
(***************************************************************************)
EXTENDS RelayService, FiniteSetTheorems, TLAPS

JobType ==
  [pc : PcLabel, req : JobRequest \cup {NoKey}, allow : BOOLEAN,
   row : [state : State \cup {"NONE"}, attempts : Nat], pending : Nat \cup {NoNonce}]

\* The part of TypeOK a worker's own steps change.
JobsOK ==
  /\ job \in [Workers -> JobType]
  /\ \A w \in Workers : ~At(w, "idle") => job[w].req \in JobRequest

LEMMA RequestsHaveEvents == \A r \in JobRequest : r.event \in Events
BY RelayAssumption DEF JobRequest

LEMMA IdleType == Idle \in JobType
BY DEF Idle, JobType, PcLabel, NoSnapshot, State, NoNonce

\* The three ways a step moves a worker keep its local state well typed.
LEMMA MovesKeepJobs ==
  ASSUME JobsOK, NEW w \in Workers
  PROVE  /\ Return(w) => JobsOK'
         /\ \A pc \in PcLabel : ~At(w, "idle") /\ Goto(w, pc) => JobsOK'
         /\ \A r \in JobRequest : \A allow \in BOOLEAN : Reconcile(w, r, allow) => JobsOK'
<1>1. Return(w) => JobsOK'
  BY IdleType DEF JobsOK, Return, At, Idle
<1>2. ASSUME NEW pc \in PcLabel, ~At(w, "idle"), Goto(w, pc) PROVE JobsOK'
  <2>1. [Idle EXCEPT !.pc = pc, !.req = job[w].req] \in JobType
    BY <1>2 DEF JobsOK, JobType, Idle, NoSnapshot, State, NoNonce
  <2> QED
    BY <1>2, <2>1 DEF JobsOK, Goto, At, Idle
<1>3. ASSUME NEW r \in JobRequest, NEW allow \in BOOLEAN, Reconcile(w, r, allow) PROVE JobsOK'
  <2>1. [Idle EXCEPT !.pc = "reconcile", !.req = r, !.allow = allow] \in JobType
    BY <1>3 DEF JobType, Idle, NoSnapshot, State, NoNonce, PcLabel
  <2> QED
    BY <1>3, <2>1 DEF JobsOK, Reconcile, At, Idle
<1> QED
  BY <1>1, <1>2, <1>3

\* A worker that keeps its request may change the rest of its local state.
LEMMA SetJobType ==
  ASSUME JobsOK, NEW w \in Workers, ~At(w, "idle"), NEW j \in JobType,
         j.req = job[w].req, job' = [job EXCEPT ![w] = j]
  PROVE  JobsOK'
<1>1. job[w].req \in JobRequest
  BY DEF JobsOK
<1>2. job' \in [Workers -> JobType]
  BY DEF JobsOK
<1>3. ASSUME NEW v \in Workers, ~At(v, "idle")' PROVE job'[v].req \in JobRequest
  BY <1>1, <1>3 DEF JobsOK, At
<1> QED
  BY <1>2, <1>3 DEF JobsOK

RegistryFacts == INSTANCE Registry_proofs WITH Hashes <- Events

\* The same formulas, whether the contract is seen from its specification or
\* from its theorems.
LEMMA SameContract ==
  /\ RegistryFacts!TypeOK <=> Contract!TypeOK
  /\ RegistryFacts!TypeOK' <=> Contract!TypeOK'
  /\ \A e \in Events : RegistryFacts!AnchorEvent(Core[e]) <=> Contract!AnchorEvent(Core[e])
  /\ \A e \in Events : Core[e] \in RegistryFacts!Request
<1>1. RegistryFacts!TypeOK <=> Contract!TypeOK
  BY DEF Contract!TypeOK, RegistryFacts!TypeOK, Contract!ReceiptState, RegistryFacts!ReceiptState,
         Contract!ReceiptStage, RegistryFacts!ReceiptStage, Contract!Request, RegistryFacts!Request
<1>2. RegistryFacts!TypeOK' <=> Contract!TypeOK'
  BY DEF Contract!TypeOK, RegistryFacts!TypeOK, Contract!ReceiptState, RegistryFacts!ReceiptState,
         Contract!ReceiptStage, RegistryFacts!ReceiptStage, Contract!Request, RegistryFacts!Request
<1>3. \A e \in Events : RegistryFacts!AnchorEvent(Core[e]) <=> Contract!AnchorEvent(Core[e])
  BY DEF Contract!AnchorEvent, RegistryFacts!AnchorEvent, Contract!Accepts, RegistryFacts!Accepts,
         Contract!ValidForReceipt, RegistryFacts!ValidForReceipt, Contract!ValidFirst,
         RegistryFacts!ValidFirst, Contract!ValidNext, RegistryFacts!ValidNext,
         Contract!IsTerminal, RegistryFacts!IsTerminal, Contract!IsValidTransition,
         RegistryFacts!IsValidTransition, Contract!ValidAuthorityKey, RegistryFacts!ValidAuthorityKey
<1>4. \A e \in Events : Core[e] \in RegistryFacts!Request
  BY RelayAssumption DEF RegistryFacts!Request, RegistryFacts!ReceiptStage
<1> QED
  BY <1>1, <1>2, <1>3, <1>4

\* The contract's state keeps its types when the relay or another sender calls it.
LEMMA ContractTypes ==
  ASSUME Contract!TypeOK, NEW e \in Events, Contract!AnchorEvent(Core[e])
  PROVE  Contract!TypeOK'
BY SameContract, RelayAssumption, RegistryFacts!CallKeepsTypes

-----------------------------------------------------------------------------
(* Type correctness *)

\* The parts of TypeOK, by who changes them.
RowsOK ==
  /\ op \in [Events -> Row]
  /\ budget \in [1..Days -> [reserved : Nat, spent : Nat]]
  /\ nextNonce \in Nat

ChainOK ==
  /\ pool \in SUBSET [event : Events, nonce : Nat]
  /\ mined \in Seq([event : Events, ok : BOOLEAN])
  /\ final \in 0..Len(mined)
  /\ balance \in Int
  /\ Contract!TypeOK

EnvOK == today \in 1..Days /\ faults \in Nat

LEMMA TypeParts ==
  /\ TypeOK <=> JobsOK /\ RowsOK /\ ChainOK /\ EnvOK
  /\ TypeOK' <=> JobsOK' /\ RowsOK' /\ ChainOK' /\ EnvOK'
BY DEF TypeOK, JobsOK, JobType, RowsOK, ChainOK, EnvOK

\* Parts a step leaves alone stay well typed.
LEMMA PartsUnchanged ==
  /\ JobsOK /\ UNCHANGED job => JobsOK'
  /\ RowsOK /\ UNCHANGED dbVars => RowsOK'
  /\ ChainOK /\ UNCHANGED chainVars => ChainOK'
  /\ EnvOK /\ UNCHANGED envVars => EnvOK'
<1>1. JobsOK /\ UNCHANGED job => JobsOK'
  BY DEF JobsOK, At
<1>2. RowsOK /\ UNCHANGED dbVars => RowsOK'
  BY DEF RowsOK, dbVars
<1>3. ChainOK /\ UNCHANGED chainVars => ChainOK'
  BY DEF ChainOK, chainVars, registryVars, Contract!TypeOK
<1>4. EnvOK /\ UNCHANGED envVars => EnvOK'
  BY DEF EnvOK, envVars
<1> QED
  BY <1>1, <1>2, <1>3, <1>4

\* A fault is counted and nothing else about the environment changes.
LEMMA FaultsCounted ==
  ASSUME EnvOK, NEW kind, Fault(kind), UNCHANGED today
  PROVE  EnvOK'
BY DEF EnvOK, Fault

\* The request of a running worker is about one of the events.
LEMMA RunningEvent ==
  ASSUME JobsOK, NEW w \in Workers, ~At(w, "idle")
  PROVE  Event(w) \in Events /\ job[w].req \in JobRequest
BY RequestsHaveEvents DEF JobsOK, Event

\* A job that remembers a row is well typed.
LEMMA JobSnapshot ==
  ASSUME NEW j \in JobType, NEW s \in [state : State \cup {"NONE"}, attempts : Nat]
  PROVE  [j EXCEPT !.pc = "receipt", !.row = s] \in JobType
<1> DEFINE Snapshots == [state : State \cup {"NONE"}, attempts : Nat]
<1>1. /\ "receipt" \in PcLabel
      /\ s \in Snapshots
      /\ j \in [pc : PcLabel, req : JobRequest \cup {NoKey}, allow : BOOLEAN,
                row : Snapshots, pending : Nat \cup {NoNonce}]
  BY DEF PcLabel, JobType
<1> HIDE DEF Snapshots
<1>2. [j EXCEPT !.pc = "receipt", !.row = s]
        \in [pc : PcLabel, req : JobRequest \cup {NoKey}, allow : BOOLEAN,
             row : Snapshots, pending : Nat \cup {NoNonce}]
  BY <1>1
<1> QED
  BY <1>2 DEF JobType, Snapshots

\* Steps of a request that change nothing but the request itself.
LEMMA MovesKeepTypes ==
  ASSUME TypeOK, NEW w \in Workers,
         \/ \E r \in Requests : StartRelay(w, r)
         \/ Recheck(w) \/ Precheck(w) \/ FindAnchored(w) \/ ReadRow(w) \/ ReadReceipt(w)
         \/ ReadPendingNonce(w) \/ WaitForReceipt(w)
  PROVE  TypeOK'
<1> USE TypeParts
<1>1. UNCHANGED <<dbVars, chainVars, envVars>>
  BY DEF StartRelay, Recheck, Precheck, FindAnchored, ReadRow, ReadReceipt, ReadPendingNonce,
         WaitForReceipt
<1>2. RowsOK' /\ ChainOK' /\ EnvOK'
  BY <1>1, PartsUnchanged
<1>3. ASSUME NEW r \in Requests, StartRelay(w, r) PROVE JobsOK'
  <2>1. [Idle EXCEPT !.pc = IF HasTx(r.event) THEN "recheck" ELSE "precheck", !.req = r] \in JobType
    BY DEF JobType, JobRequest, Idle, NoSnapshot, State, NoNonce, PcLabel
  <2>2. r \in JobRequest
    BY DEF JobRequest
  <2> QED
    BY <1>3, <2>1, <2>2 DEF JobsOK, StartRelay, At, Idle
<1>4. CASE Recheck(w)
  BY <1>2, <1>4, MovesKeepJobs, RunningEvent DEF Recheck, At
<1>5. CASE Precheck(w)
  BY <1>2, <1>5, MovesKeepJobs DEF Precheck, At, PcLabel
<1>6. CASE FindAnchored(w)
  BY <1>2, <1>6, MovesKeepJobs, RunningEvent DEF FindAnchored, At, PcLabel
<1>7. CASE WaitForReceipt(w)
  BY <1>2, <1>7, MovesKeepJobs DEF WaitForReceipt, At, PcLabel
<1>8. CASE ReadReceipt(w)
  BY <1>2, <1>8, MovesKeepJobs DEF ReadReceipt, At, PcLabel
<1>9. CASE ReadPendingNonce(w)
  <2>1. PICK n \in Len(mined)..(Len(mined) + Cardinality(pool)) :
          job' = [job EXCEPT ![w].pc = "prepare", ![w].pending = n]
    BY <1>9 DEF ReadPendingNonce
  <2>2. n \in Nat
    BY DEF ChainOK
  <2>3. [job[w] EXCEPT !.pc = "prepare", !.pending = n] \in JobType
    BY <2>2 DEF JobsOK, JobType, PcLabel
  <2>4. job' = [job EXCEPT ![w] = [job[w] EXCEPT !.pc = "prepare", !.pending = n]]
    BY <2>1 DEF JobsOK
  <2>5. [job[w] EXCEPT !.pc = "prepare", !.pending = n].req = job[w].req
    BY DEF JobsOK, JobType
  <2>6. ~At(w, "idle")
    BY <1>9 DEF ReadPendingNonce, At
  <2> QED
    BY <1>2, <2>3, <2>4, <2>5, <2>6, SetJobType
<1>10. CASE ReadRow(w)
  <2> DEFINE e == Event(w)
             snapshot == [state |-> op[e].state, attempts |-> op[e].attempts]
  <2>1. snapshot \in [state : State \cup {"NONE"}, attempts : Nat]
    BY <1>10, RunningEvent DEF ReadRow, At, RowsOK, Row
  <2>2. CASE job' = [job EXCEPT ![w].pc = "receipt", ![w].row = snapshot]
    <3>1. [job[w] EXCEPT !.pc = "receipt", !.row = snapshot] \in JobType
      BY <2>1, JobSnapshot DEF JobsOK
    <3>2. job' = [job EXCEPT ![w] = [job[w] EXCEPT !.pc = "receipt", !.row = snapshot]]
      BY <2>2 DEF JobsOK
    <3>3. [job[w] EXCEPT !.pc = "receipt", !.row = snapshot].req = job[w].req
      BY DEF JobsOK, JobType
    <3>4. ~At(w, "idle")
      BY <1>10 DEF ReadRow, At
    <3> QED
      BY <1>2, <3>1, <3>2, <3>3, <3>4, SetJobType
  <2>3. CASE Return(w) \/ Goto(w, "abandon") \/ Goto(w, "nonce")
    BY <1>2, <1>10, <2>3, MovesKeepJobs DEF ReadRow, At, PcLabel
  <2> QED
    BY <1>10, <2>2, <2>3 DEF ReadRow
<1> QED
  BY <1>2, <1>3, <1>4, <1>5, <1>6, <1>7, <1>8, <1>9, <1>10

\* A step that changes the row of one event keeps the rows well typed if the new
\* row is.
LEMMA SetRow ==
  ASSUME RowsOK, NEW e \in Events, NEW row \in Row, op' = [op EXCEPT ![e] = row],
         budget' \in [1..Days -> [reserved : Nat, spent : Nat]], nextNonce' \in Nat
  PROVE  RowsOK'
BY DEF RowsOK

\* What #markRetryable, #deferReconciliation, #broadcastPrepared and
\* #finalizeReceipt may do to a row.
LEMMA RowTypes ==
  ASSUME NEW row \in Row, NEW s \in State, NEW due \in BOOLEAN
  PROVE  /\ [row EXCEPT !.state = s, !.due = due] \in Row
         /\ [row EXCEPT !.due = due] \in Row
         /\ [row EXCEPT !.state = s, !.reserved = 0, !.due = due] \in Row
         /\ \A n \in Nat : [row EXCEPT !.reserved = 0, !.charged = n] \in Row
         /\ \A n \in Nat : [row EXCEPT !.state = s, !.nonce = n, !.attempts = @ + 1, !.due = due] \in Row
         /\ [row EXCEPT !.state = s, !.attempts = @ + 1, !.due = due] \in Row
         /\ [row EXCEPT !.polls = row.polls + 1] \in Row
<1>1. State \subseteq State \cup {"NONE"}
  OBVIOUS
<1>2. row.attempts + 1 \in Nat /\ row.polls + 1 \in Nat
  BY DEF Row
<1>3. /\ [row EXCEPT !.state = s, !.due = due] \in Row
      /\ [row EXCEPT !.due = due] \in Row
      /\ [row EXCEPT !.state = s, !.reserved = 0, !.due = due] \in Row
  BY DEF Row
<1>4. \A n \in Nat : [row EXCEPT !.reserved = 0, !.charged = n] \in Row
  BY DEF Row
<1>5. \A n \in Nat : [row EXCEPT !.state = s, !.nonce = n, !.attempts = @ + 1, !.due = due] \in Row
  BY <1>2 DEF Row
<1>6. /\ [row EXCEPT !.state = s, !.attempts = @ + 1, !.due = due] \in Row
      /\ [row EXCEPT !.polls = row.polls + 1] \in Row
  BY <1>2 DEF Row
<1> QED
  BY <1>3, <1>4, <1>5, <1>6

\* Steps of a request that write its row.
LEMMA WritesKeepTypes ==
  ASSUME TypeOK, NEW w \in Workers,
         \/ MarkSubmitted(w) \/ MarkRetryable(w) \/ DeferReconciliation(w) \/ FinalizeReceipt(w)
         \/ Rebroadcast(w) \/ PrepareNewTransaction(w) \/ MarkExternallyAnchored(w)
         \/ RecordMinedCost(w)
  PROVE  TypeOK'
<1> DEFINE e == Event(w)
<1> USE TypeParts
<1>1. ~At(w, "idle")
  BY DEF MarkSubmitted, MarkRetryable, DeferReconciliation, FinalizeReceipt, Rebroadcast,
         PrepareNewTransaction, MarkExternallyAnchored, RecordMinedCost, At
<1>2. e \in Events /\ op[e] \in Row
  BY <1>1, RunningEvent DEF RowsOK
<1>3. ChainOK' /\ EnvOK'
  BY PartsUnchanged DEF MarkSubmitted, MarkRetryable, DeferReconciliation, FinalizeReceipt,
         Rebroadcast, PrepareNewTransaction, MarkExternallyAnchored, RecordMinedCost
<1>4. JobsOK'
  BY <1>1, MovesKeepJobs DEF MarkSubmitted, MarkRetryable, DeferReconciliation, FinalizeReceipt,
         Rebroadcast, PrepareNewTransaction, MarkExternallyAnchored, RecordMinedCost, PcLabel
<1>5. CASE MarkSubmitted(w)
  <2>1. [op[e] EXCEPT !.state = "SUBMITTED", !.due = FALSE] \in Row
    BY <1>2, RowTypes DEF State
  <2>2. UNCHANGED op \/ op' = [op EXCEPT ![e] = [op[e] EXCEPT !.state = "SUBMITTED", !.due = FALSE]]
    BY <1>2, <1>5 DEF MarkSubmitted, RowsOK
  <2> QED
    BY <1>2, <1>3, <1>4, <1>5, <2>1, <2>2, SetRow DEF MarkSubmitted, RowsOK
<1>6. CASE MarkRetryable(w)
  <2>1. Retryable(op[e]) \in Row
    BY <1>2, RowTypes DEF Retryable, State
  <2>2. op' = [op EXCEPT ![e] = Retryable(op[e])]
    BY <1>6 DEF MarkRetryable
  <2> QED
    BY <1>2, <1>3, <1>4, <1>6, <2>1, <2>2, SetRow DEF MarkRetryable, RowsOK
<1>7. CASE DeferReconciliation(w)
  <2>1. [op[e] EXCEPT !.due = FALSE] \in Row
    BY <1>2, RowTypes DEF State
  <2>2. UNCHANGED op \/ op' = [op EXCEPT ![e] = [op[e] EXCEPT !.due = FALSE]]
    BY <1>2, <1>7 DEF DeferReconciliation, RowsOK
  <2> QED
    BY <1>2, <1>3, <1>4, <1>7, <2>1, <2>2, SetRow DEF DeferReconciliation, RowsOK
<1>8. CASE FinalizeReceipt(w)
  <2>1. Outcome(e) = op[e].state \/ Outcome(e) \in State
    BY DEF Outcome, State, Terminal
  <2>2. UNCHANGED op \/ op' = [op EXCEPT ![e] = [op[e] EXCEPT !.state = Outcome(e), !.due = TRUE]]
    BY <1>2, <1>8 DEF FinalizeReceipt, RowsOK
  <2>3. Outcome(e) \in State => [op[e] EXCEPT !.state = Outcome(e), !.due = TRUE] \in Row
    BY <1>2, RowTypes
  <2>4. CASE Outcome(e) = op[e].state
    BY <1>3, <1>4, <1>8, <2>4 DEF FinalizeReceipt, RowsOK
  <2> QED
    BY <1>2, <1>3, <1>4, <1>8, <2>1, <2>2, <2>3, <2>4, SetRow DEF FinalizeReceipt, RowsOK
<1>9. CASE Rebroadcast(w)
  <2> DEFINE s == IF op[e].state = "FAILED_RETRYABLE" THEN "SUBMITTING" ELSE op[e].state
  <2>1. MayRebroadcast(e) => s \in State
    BY DEF MayRebroadcast, State
  <2>2. MayRebroadcast(e) => Rebroadcasting(op[e]) \in Row
    BY <1>2, <2>1, RowTypes DEF Rebroadcasting
  <2>3. \/ UNCHANGED op
        \/ MayRebroadcast(e) /\ op' = [op EXCEPT ![e] = Rebroadcasting(op[e])]
    BY <1>9 DEF Rebroadcast
  <2> QED
    BY <1>2, <1>3, <1>4, <1>9, <2>2, <2>3, SetRow DEF Rebroadcast, RowsOK
<1>10. CASE PrepareNewTransaction(w)
  <2> DEFINE n == NextNonce(w)
             row == [op[e] EXCEPT !.state = "SUBMITTING", !.nonce = n, !.attempts = @ + 1, !.due = FALSE]
  <2>1. n \in Nat
    BY DEF NextNonce, JobsOK, JobType, RowsOK, NoNonce
  <2>2. row \in Row
    BY <1>2, <2>1, RowTypes DEF State
  <2>3. \/ UNCHANGED <<op, nextNonce>>
        \/ op' = [op EXCEPT ![e] = row] /\ nextNonce' = n + 1
    BY <1>10 DEF PrepareNewTransaction
  <2> HIDE DEF row, n
  <2> QED
    BY <1>2, <1>3, <1>4, <1>10, <2>1, <2>2, <2>3, SetRow DEF PrepareNewTransaction, RowsOK
<1>11. Unreserved(e) \in Nat /\ op[e].day \in 1..Days
  <2>1. op[e].day \in 1..Days /\ op[e].reserved \in Nat /\ op[e].charged \in Nat
    BY <1>2 DEF Row
  <2> QED
    BY <2>1 DEF Unreserved, RowsOK
<1>12. CASE MarkExternallyAnchored(w)
  <2> DEFINE row == [op[e] EXCEPT !.state = "FAILED_FINAL", !.reserved = 0, !.due = TRUE]
  <2>1. row \in Row
    BY <1>2, RowTypes DEF State, Terminal
  <2>2. \/ UNCHANGED <<op, budget>>
        \/ /\ op' = [op EXCEPT ![e] = row]
           /\ budget' = [budget EXCEPT ![op[e].day].reserved = Unreserved(e)]
    BY <1>12 DEF MarkExternallyAnchored
  <2>3. budget' \in [1..Days -> [reserved : Nat, spent : Nat]]
    BY <1>11, <2>2 DEF RowsOK
  <2> HIDE DEF row
  <2> QED
    BY <1>2, <1>3, <1>4, <1>12, <2>1, <2>2, <2>3, SetRow DEF MarkExternallyAnchored, RowsOK
<1>13. CASE RecordMinedCost(w)
  <2> DEFINE row == [op[e] EXCEPT !.reserved = 0, !.charged = op[e].reserved]
             held == op[e].reserved
  <2>1. held \in Nat
    BY <1>2 DEF Row
  <2>2. row \in Row
    BY <1>2, <2>1, RowTypes DEF State
  <2>3. \/ UNCHANGED <<op, budget>>
        \/ /\ op' = [op EXCEPT ![e] = row]
           /\ budget' = [budget EXCEPT ![op[e].day] = [reserved |-> Unreserved(e), spent |-> @.spent + held]]
    BY <1>13 DEF RecordMinedCost
  <2> HIDE DEF row, held
  <2>4. budget' \in [1..Days -> [reserved : Nat, spent : Nat]]
    BY <1>11, <2>1, <2>3 DEF RowsOK
  <2> QED
    BY <1>2, <1>3, <1>4, <1>13, <2>2, <2>3, <2>4, SetRow DEF RecordMinedCost, RowsOK
<1> QED
  BY <1>5, <1>6, <1>7, <1>8, <1>9, <1>10, <1>12, <1>13

\* Steps that end a request without an answer.
LEMMA FaultsKeepTypes ==
  ASSUME TypeOK, NEW w \in Workers, RequestFails(w) \/ ReconcileFails(w) \/ Crash(w)
  PROVE  TypeOK'
<1> USE TypeParts
<1>1. UNCHANGED <<dbVars, chainVars, today>> /\ (\E kind \in Faults : Fault(kind))
  BY DEF RequestFails, ReconcileFails, Crash, Fault
<1>2. RowsOK' /\ ChainOK' /\ EnvOK'
  BY <1>1, PartsUnchanged, FaultsCounted
<1>3. JobsOK'
  BY MovesKeepJobs DEF RequestFails, ReconcileFails, Crash, At, PcLabel
<1> QED
  BY <1>2, <1>3

\* The acquisition of an operation, and the poll of a client.
LEMMA AcquireKeepsTypes ==
  ASSUME TypeOK, NEW w \in Workers, AcquireOperation(w)
  PROVE  TypeOK'
<1> DEFINE e == Event(w)
           r == job[w].req
           row == [NoRow EXCEPT !.state = "READY", !.body = r.body, !.key = r.key,
                                !.reserved = Fee[e], !.day = today]
<1> USE TypeParts
<1>1. ~At(w, "idle")
  BY DEF AcquireOperation, At
<1>2. e \in Events /\ r \in JobRequest
  BY <1>1, RunningEvent
<1>3. ChainOK' /\ EnvOK'
  BY PartsUnchanged DEF AcquireOperation
<1>4. JobsOK'
  <2>1. Reconcile(w, r, TRUE) \/ Return(w)
    BY DEF AcquireOperation
  <2> QED
    BY <1>2, <2>1, MovesKeepJobs
<1>5. Fee[e] \in Nat /\ today \in 1..Days
  BY <1>2, RelayAssumption DEF EnvOK
<1>6. r.body \in {q.body : q \in Requests} \cup {NoKey} /\ r.key \in {q.key : q \in Requests} \cup {NoKey}
  BY <1>2 DEF JobRequest
<1>7. \A f \in Nat, body \in {q.body : q \in Requests} \cup {NoKey},
         key \in {q.key : q \in Requests} \cup {NoKey}, d \in 1..Days :
        [NoRow EXCEPT !.state = "READY", !.body = body, !.key = key, !.reserved = f, !.day = d] \in Row
  BY DEF NoRow, Row, State, NoNonce
<1>8. row \in Row
  BY <1>5, <1>6, <1>7
<1>9. \/ UNCHANGED dbVars
      \/ /\ budget' = [budget EXCEPT ![today].reserved = @ + Fee[e]]
         /\ op' = [op EXCEPT ![e] = row]
         /\ UNCHANGED nextNonce
  BY DEF AcquireOperation
<1> HIDE DEF row
<1>10. RowsOK'
  <2>1. CASE UNCHANGED dbVars
    BY <2>1, PartsUnchanged
  <2>2. CASE /\ budget' = [budget EXCEPT ![today].reserved = @ + Fee[e]]
             /\ op' = [op EXCEPT ![e] = row]
             /\ UNCHANGED nextNonce
    <3>1. budget' \in [1..Days -> [reserved : Nat, spent : Nat]]
      BY <1>5, <2>2 DEF RowsOK
    <3> QED
      BY <1>2, <1>8, <2>2, <3>1, SetRow DEF RowsOK
  <2> QED
    BY <1>9, <2>1, <2>2
<1> QED
  BY <1>3, <1>4, <1>10

LEMMA PollKeepsTypes ==
  ASSUME TypeOK, NEW w \in Workers, NEW e \in Events, GetOperation(w, e)
  PROVE  TypeOK'
<1> USE TypeParts
<1>1. ChainOK' /\ EnvOK'
  BY PartsUnchanged DEF GetOperation
<1>2. op[e] \in Row
  BY DEF RowsOK
<1>3. [op[e] EXCEPT !.polls = op[e].polls + 1] \in Row
  BY <1>2, RowTypes DEF State
<1>4. op' = [op EXCEPT ![e] = [op[e] EXCEPT !.polls = op[e].polls + 1]]
  BY DEF GetOperation
<1>5. RowsOK'
  BY <1>3, <1>4, SetRow DEF GetOperation, RowsOK
<1>6. [event |-> e, body |-> NoKey, key |-> NoKey] \in JobRequest
  BY DEF JobRequest
<1>7. UNCHANGED job \/ Reconcile(w, [event |-> e, body |-> NoKey, key |-> NoKey], FALSE)
  BY DEF GetOperation
<1>8. JobsOK'
  BY <1>6, <1>7, MovesKeepJobs, PartsUnchanged
<1> QED
  BY <1>1, <1>5, <1>8

\* A broadcast, acknowledged or not, of a transaction that a row names.
LEMMA BroadcastsKeepTypes ==
  ASSUME TypeOK, NEW w \in Workers, Broadcast(w) \/ BroadcastFails(w), HasTx(Event(w))
  PROVE  TypeOK'
<1> DEFINE e == Event(w)
<1> USE TypeParts
<1>1. At(w, "broadcast") /\ ~At(w, "idle") /\ e \in Events
  BY RunningEvent DEF Broadcast, BroadcastFails, At
<1>2. RowsOK' /\ EnvOK'
  BY PartsUnchanged, FaultsCounted DEF Broadcast, BroadcastFails
<1>3. JobsOK'
  BY <1>1, MovesKeepJobs DEF Broadcast, BroadcastFails, PcLabel
<1>4. op[e].nonce \in Nat
  BY <1>1 DEF RowsOK, Row, HasTx
<1>5. Tx(e) \in [event : Events, nonce : Nat]
  BY <1>1, <1>4 DEF Tx
<1>6. pool' = pool \/ pool' = pool \cup {Tx(e)}
  BY DEF Broadcast, BroadcastFails
<1>7. UNCHANGED <<mined, final, balance, registryVars>>
  BY DEF Broadcast, BroadcastFails
<1>8. pool' \in SUBSET [event : Events, nonce : Nat]
  BY <1>5, <1>6 DEF ChainOK
<1>9. ChainOK'
  BY <1>7, <1>8 DEF ChainOK, registryVars, Contract!TypeOK
<1> QED
  BY <1>2, <1>3, <1>9

\* A transaction of the relayer is mined.
LEMMA MineKeepsTypes ==
  ASSUME TypeOK, NEW tx \in pool, Mine(tx)
  PROVE  TypeOK'
<1> DEFINE entry == [event |-> tx.event, ok |-> Contract!Accepts(Core[tx.event])]
<1> USE TypeParts
<1>1. tx.event \in Events
  BY DEF ChainOK
<1>2. JobsOK' /\ RowsOK' /\ EnvOK'
  BY PartsUnchanged DEF Mine
<1>3. Contract!TypeOK'
  <2>1. CASE Contract!AnchorEvent(Core[tx.event])
    BY <1>1, <2>1, ContractTypes DEF ChainOK
  <2>2. CASE UNCHANGED registryVars
    BY <2>2 DEF ChainOK, registryVars, Contract!TypeOK
  <2> QED
    BY <2>1, <2>2 DEF Mine
<1>4. entry \in [event : Events, ok : BOOLEAN]
  <2>1. Contract!Accepts(Core[tx.event]) \in BOOLEAN
    BY DEF Contract!Accepts
  <2> QED
    BY <1>1, <2>1
<1>5. mined' = Append(mined, entry)
  BY DEF Mine
<1> HIDE DEF entry
<1>6. mined' \in Seq([event : Events, ok : BOOLEAN]) /\ Len(mined') = Len(mined) + 1
  BY <1>4, <1>5 DEF ChainOK
<1>7. final' \in 0..Len(mined')
  BY <1>6 DEF Mine, ChainOK
<1>8. balance' \in Int
  BY <1>1, RelayAssumption DEF Mine, ChainOK
<1>9. pool' \in SUBSET [event : Events, nonce : Nat]
  BY DEF Mine, ChainOK
<1> QED
  BY <1>2, <1>3, <1>6, <1>7, <1>8, <1>9 DEF ChainOK

\* The rest of the chain, the clock and the faults of the environment.
LEMMA EnvironmentKeepsTypes ==
  ASSUME TypeOK,
         \/ Confirm \/ NextDay \/ \E tx \in pool : Evict(tx)
         \/ \E e \in Events : AnchorExternally(e) \/ BecomeDue(e)
  PROVE  TypeOK'
<1> USE TypeParts
<1>1. CASE Confirm
  <2>1. JobsOK' /\ RowsOK' /\ EnvOK'
    BY <1>1, PartsUnchanged DEF Confirm
  <2>2. Len(mined) \in Nat /\ final' \in 0..Len(mined')
    BY <1>1 DEF Confirm, ChainOK
  <2>3. Contract!TypeOK'
    BY <1>1 DEF Confirm, ChainOK, registryVars, Contract!TypeOK
  <2> QED
    BY <1>1, <2>1, <2>2, <2>3 DEF Confirm, ChainOK
<1>2. CASE NextDay
  <2>1. JobsOK' /\ RowsOK' /\ ChainOK'
    BY <1>2, PartsUnchanged DEF NextDay
  <2>2. EnvOK'
    BY <1>2, RelayAssumption DEF NextDay, EnvOK
  <2> QED
    BY <2>1, <2>2
<1>3. CASE \E tx \in pool : Evict(tx)
  <2>1. JobsOK' /\ RowsOK' /\ EnvOK'
    BY <1>3, PartsUnchanged, FaultsCounted DEF Evict
  <2>2. Contract!TypeOK'
    BY <1>3 DEF Evict, ChainOK, registryVars, Contract!TypeOK
  <2> QED
    BY <1>3, <2>1, <2>2 DEF Evict, ChainOK
<1>4. CASE \E e \in Events : AnchorExternally(e)
  <2>1. JobsOK' /\ RowsOK' /\ EnvOK'
    BY <1>4, PartsUnchanged, FaultsCounted DEF AnchorExternally
  <2>2. Contract!TypeOK'
    BY <1>4, ContractTypes DEF AnchorExternally, ChainOK
  <2> QED
    BY <1>4, <2>1, <2>2 DEF AnchorExternally, ChainOK
<1>5. CASE \E e \in Events : BecomeDue(e)
  <2>1. PICK e \in Events : BecomeDue(e)
    BY <1>5
  <2>2. JobsOK' /\ ChainOK' /\ EnvOK'
    BY <2>1, PartsUnchanged DEF BecomeDue
  <2>3. [op[e] EXCEPT !.due = TRUE] \in Row
    BY RowTypes DEF RowsOK, State
  <2>4. op' = [op EXCEPT ![e] = [op[e] EXCEPT !.due = TRUE]]
    BY <2>1 DEF BecomeDue, RowsOK
  <2>5. RowsOK'
    BY <2>1, <2>3, <2>4, SetRow DEF BecomeDue, RowsOK
  <2> QED
    BY <2>2, <2>5
<1> QED
  BY <1>1, <1>2, <1>3, <1>4, <1>5

-----------------------------------------------------------------------------
(* Transactions are recorded before they are used *)

\* The places in #reconcile and #broadcastPrepared where the code uses the
\* transaction of the row.
UsesTx == {"receipt", "rebroadcast", "broadcast", "submitted", "wait", "cost", "settle"}

\* There the row has a transaction; an event without a row has none.
TxRecorded ==
  /\ \A w \in Workers : job[w].pc \in UsesTx => HasTx(Event(w))
  /\ \A e \in Events : op[e].state = "NONE" => ~HasTx(e)

\* The UPDATEs and the INSERT a step may do to the row of an event.
RowChange(e) ==
  \/ \E w \in Workers :
       /\ Event(w) = e
       /\ \/ /\ MarkSubmitted(w) /\ op[e].state = "SUBMITTING"
             /\ op'[e] = [op[e] EXCEPT !.state = "SUBMITTED", !.due = FALSE]
          \/ /\ MarkRetryable(w)
             /\ op'[e] = Retryable(op[e])
          \/ /\ DeferReconciliation(w) /\ op[e].state \notin Terminal
             /\ op'[e] = [op[e] EXCEPT !.due = FALSE]
          \/ /\ FinalizeReceipt(w) /\ Outcome(e) # op[e].state
             /\ op'[e] = [op[e] EXCEPT !.state = Outcome(e), !.due = TRUE]
          \/ /\ Rebroadcast(w) /\ MayRebroadcast(e)
             /\ op'[e] = Rebroadcasting(op[e])
          \/ /\ MarkExternallyAnchored(w) /\ Unprepared(e)
             /\ op'[e] = [op[e] EXCEPT !.state = "FAILED_FINAL", !.reserved = 0, !.due = TRUE]
          \/ /\ RecordMinedCost(w) /\ ~(op[e].charged > 0)
             /\ op'[e] = [op[e] EXCEPT !.reserved = 0, !.charged = op[e].reserved]
          \/ /\ PrepareNewTransaction(w) /\ Unprepared(e)
             /\ op'[e] = [op[e] EXCEPT !.state = "SUBMITTING", !.nonce = NextNonce(w),
                                       !.attempts = op[e].attempts + 1, !.due = FALSE]
          \/ /\ AcquireOperation(w) /\ e \notin Rows
             /\ op'[e] = [NoRow EXCEPT !.state = "READY", !.body = job[w].req.body,
                                       !.key = job[w].req.key, !.reserved = Fee[e], !.day = today]
  \/ /\ Open(e)
     /\ \/ op'[e] = [op[e] EXCEPT !.polls = op[e].polls + 1]
        \/ op'[e] = [op[e] EXCEPT !.due = TRUE]

\* A row changes in one of these ways or not at all.
LEMMA RowChanges ==
  ASSUME TypeOK, [Next]_vars, NEW e \in Events
  PROVE  op'[e] = op[e] \/ RowChange(e)
<1> USE TypeParts
<1>1. op \in [Events -> Row]
  BY DEF RowsOK
<1>2. ASSUME NEW row, NEW f \in Events, op' = [op EXCEPT ![f] = row]
      PROVE  op'[e] = op[e] \/ (e = f /\ op'[e] = row)
  BY <1>1, <1>2
<1>3. ASSUME NEW w \in Workers, Step(w) PROVE op'[e] = op[e] \/ RowChange(e)
  <2>1. CASE MarkSubmitted(w)
    BY <1>1, <1>2, <2>1, RunningEvent DEF MarkSubmitted, RowChange, At
  <2>2. CASE MarkRetryable(w)
    BY <1>1, <1>2, <2>2, RunningEvent DEF MarkRetryable, RowChange, At
  <2>3. CASE DeferReconciliation(w)
    BY <1>1, <1>2, <2>3, RunningEvent DEF DeferReconciliation, RowChange, At
  <2>4. CASE FinalizeReceipt(w)
    BY <1>1, <1>2, <2>4, RunningEvent DEF FinalizeReceipt, RowChange, At
  <2>5. CASE Rebroadcast(w)
    BY <1>1, <1>2, <2>5, RunningEvent DEF Rebroadcast, RowChange, At
  <2>6. CASE MarkExternallyAnchored(w)
    BY <1>1, <1>2, <2>6, RunningEvent DEF MarkExternallyAnchored, RowChange, At
  <2>7. CASE RecordMinedCost(w)
    BY <1>1, <1>2, <2>7, RunningEvent DEF RecordMinedCost, RowChange, At
  <2>8. CASE PrepareNewTransaction(w)
    BY <1>1, <1>2, <2>8, RunningEvent DEF PrepareNewTransaction, RowChange, At
  <2>9. CASE AcquireOperation(w)
    BY <1>1, <1>2, <2>9, RunningEvent DEF AcquireOperation, RowChange, At, dbVars
  <2>10. CASE \/ Recheck(w) \/ Precheck(w) \/ FindAnchored(w) \/ ReadRow(w) \/ ReadReceipt(w)
              \/ ReadPendingNonce(w) \/ WaitForReceipt(w) \/ Broadcast(w)
    BY <2>10 DEF Recheck, Precheck, FindAnchored, ReadRow, ReadReceipt, ReadPendingNonce,
                 WaitForReceipt, Broadcast, dbVars
  <2> QED
    BY <1>3, <2>1, <2>2, <2>3, <2>4, <2>5, <2>6, <2>7, <2>8, <2>9, <2>10 DEF Step
<1>4. ASSUME NEW w \in Workers, Fail(w) PROVE UNCHANGED op
  BY <1>4 DEF Fail, RequestFails, BroadcastFails, ReconcileFails, Crash, dbVars
<1>5. ASSUME NEW w \in Workers, NEW r \in Requests, StartRelay(w, r) PROVE UNCHANGED op
  BY <1>5 DEF StartRelay, dbVars
<1>6. ASSUME NEW w \in Workers, NEW f \in Polled, GetOperation(w, f)
      PROVE  op'[e] = op[e] \/ RowChange(e)
  <2>1. f \in Events /\ op' = [op EXCEPT ![f] = [op[f] EXCEPT !.polls = op[f].polls + 1]] /\ Open(f)
    BY <1>6, RelayAssumption DEF GetOperation
  <2> QED
    BY <1>2, <2>1 DEF RowChange
<1>7. ASSUME NEW f \in Events, BecomeDue(f) PROVE op'[e] = op[e] \/ RowChange(e)
  <2>1. op' = [op EXCEPT ![f] = [op[f] EXCEPT !.due = TRUE]] /\ Open(f)
    BY <1>7 DEF BecomeDue
  <2> QED
    BY <1>2, <2>1 DEF RowChange
<1>8. CASE ChainStep \/ NextDay \/ (\E tx \in pool : Evict(tx)) \/ (\E f \in Events : AnchorExternally(f))
  BY <1>8 DEF ChainStep, Mine, Confirm, NextDay, Evict, AnchorExternally, dbVars
<1>9. CASE UNCHANGED vars
  BY <1>9 DEF vars, dbVars
<1> QED
  BY <1>3, <1>4, <1>5, <1>6, <1>7, <1>8, <1>9 DEF Next

\* The moves of a request that matter for its transaction.
JobChange(v) ==
  \/ job'[v].pc \notin UsesTx \cup {"prepare", "abandon"}
  \/ /\ job'[v].req = job[v].req
     /\ \/ At(v, "reconcile") /\ HasTx(Event(v)) /\ job'[v].pc = "receipt"
        \/ /\ At(v, "reconcile") /\ ~HasTx(Event(v)) /\ op[Event(v)].attempts >= MaxAttempts
           /\ job'[v].pc = "abandon"
        \/ job[v].pc \in {"receipt", "wait"} /\ IsFinal(Tx(Event(v))) /\ job'[v].pc = "cost"
        \/ RecordMinedCost(v) /\ job'[v].pc = "settle"
        \/ PrepareNewTransaction(v) /\ Unprepared(Event(v)) /\ job'[v].pc = "broadcast"
        \/ job[v].pc \in UsesTx /\ job'[v].pc \in {"rebroadcast", "broadcast", "submitted", "wait"}
        \/ /\ At(v, "nonce") /\ job'[v].pc = "prepare"
           /\ job'[v].pending \in Nat /\ IsPendingNonce(job'[v].pending)

\* One request moves at a time.
LEMMA JobChanges ==
  ASSUME TypeOK, [Next]_vars, NEW v \in Workers
  PROVE  job'[v] = job[v] \/ JobChange(v)
<1> USE TypeParts
<1>1. job \in [Workers -> JobType]
  BY DEF JobsOK
<1>2. ASSUME NEW w \in Workers, NEW j, job' = [job EXCEPT ![w] = j]
      PROVE  job'[v] = job[v] \/ (v = w /\ job'[v] = j)
  BY <1>1, <1>2
<1>3. ASSUME NEW w \in Workers, NEW pc, Goto(w, pc)
      PROVE  job'[v] = job[v] \/ (v = w /\ job'[v].pc = pc /\ job'[v].req = job[v].req)
  <2>1. job' = [job EXCEPT ![w] = [Idle EXCEPT !.pc = pc, !.req = job[w].req]]
    BY <1>3 DEF Goto
  <2>2. /\ [Idle EXCEPT !.pc = pc, !.req = job[w].req].pc = pc
        /\ [Idle EXCEPT !.pc = pc, !.req = job[w].req].req = job[w].req
    BY DEF Idle
  <2> QED
    BY <1>2, <2>1, <2>2
<1>4. ASSUME NEW w \in Workers, Return(w)
      PROVE  job'[v] = job[v] \/ job'[v].pc = "idle"
  BY <1>2, <1>4 DEF Return, Idle
<1>5. ASSUME NEW w \in Workers, NEW r, NEW allow, Reconcile(w, r, allow)
      PROVE  job'[v] = job[v] \/ job'[v].pc = "reconcile"
  BY <1>2, <1>5 DEF Reconcile, Idle
<1>6. ASSUME NEW w \in Workers, Step(w) PROVE job'[v] = job[v] \/ JobChange(v)
  <2>1. CASE Recheck(w)
    BY <1>5, <2>1 DEF Recheck, JobChange, UsesTx
  <2>2. CASE Precheck(w)
    BY <1>3, <1>4, <2>2 DEF Precheck, JobChange, UsesTx
  <2>3. CASE FindAnchored(w)
    <3>1. Return(w) \/ Reconcile(w, job[w].req, FALSE) \/ Goto(w, "markExternal")
      BY <2>3 DEF FindAnchored
    <3>2. Return(w) => job'[v] = job[v] \/ JobChange(v)
      BY <1>4 DEF JobChange, UsesTx
    <3>3. Reconcile(w, job[w].req, FALSE) => job'[v] = job[v] \/ JobChange(v)
      BY <1>5 DEF JobChange, UsesTx
    <3>4. Goto(w, "markExternal") => job'[v] = job[v] \/ JobChange(v)
      BY <1>3 DEF JobChange, UsesTx
    <3> QED
      BY <3>1, <3>2, <3>3, <3>4
  <2>4. CASE MarkExternallyAnchored(w)
    BY <1>4, <2>4 DEF MarkExternallyAnchored, JobChange, UsesTx
  <2>5. CASE AcquireOperation(w)
    BY <1>4, <1>5, <2>5 DEF AcquireOperation, JobChange, UsesTx
  <2>6. CASE ReadRow(w)
    <3>1. CASE Return(w) \/ Goto(w, "nonce")
      BY <1>3, <1>4, <3>1 DEF JobChange, UsesTx
    <3>3. CASE ~HasTx(Event(w)) /\ op[Event(w)].attempts >= MaxAttempts /\ Goto(w, "abandon")
      BY <1>3, <2>6, <3>3 DEF ReadRow, JobChange
    <3>2. CASE HasTx(Event(w)) /\
               job' = [job EXCEPT ![w].pc = "receipt",
                         ![w].row = [state |-> op[Event(w)].state, attempts |-> op[Event(w)].attempts]]
      BY <1>1, <2>6, <3>2 DEF ReadRow, JobChange, UsesTx, JobType, At
    <3> QED
      BY <2>6, <3>1, <3>2, <3>3 DEF ReadRow
  <2>7. CASE ReadReceipt(w)
    BY <1>3, <1>4, <2>7 DEF ReadReceipt, JobChange, UsesTx, At
  <2>8. CASE ReadPendingNonce(w)
    <3>1. PICK n \in Len(mined)..(Len(mined) + Cardinality(pool)) :
            /\ IsPendingNonce(n)
            /\ job' = [job EXCEPT ![w].pc = "prepare", ![w].pending = n]
      BY <2>8 DEF ReadPendingNonce
    <3>2. n \in Nat
      BY DEF ChainOK
    <3>3. job'[v] = job[v] \/ /\ v = w /\ job'[v].pc = "prepare" /\ job'[v].pending = n
                              /\ job'[v].req = job[v].req
      BY <1>1, <3>1 DEF JobType
    <3> QED
      BY <2>8, <3>1, <3>2, <3>3 DEF ReadPendingNonce, JobChange
  <2>9. CASE PrepareNewTransaction(w)
    BY <1>3, <1>4, <2>9 DEF PrepareNewTransaction, JobChange, UsesTx
  <2>10. CASE Rebroadcast(w)
    BY <1>3, <1>4, <2>10 DEF Rebroadcast, JobChange, UsesTx, At
  <2>11. CASE Broadcast(w)
    BY <1>3, <2>11 DEF Broadcast, JobChange, UsesTx, At
  <2>12. CASE MarkSubmitted(w)
    BY <1>3, <2>12 DEF MarkSubmitted, JobChange, UsesTx, At
  <2>13. CASE WaitForReceipt(w)
    BY <1>3, <2>13 DEF WaitForReceipt, JobChange, UsesTx, At
  <2>14. CASE MarkRetryable(w) \/ DeferReconciliation(w) \/ FinalizeReceipt(w)
    BY <1>4, <2>14 DEF MarkRetryable, DeferReconciliation, FinalizeReceipt, JobChange, UsesTx
  <2>15. CASE RecordMinedCost(w)
    BY <1>3, <2>15 DEF RecordMinedCost, JobChange
  <2> QED
    BY <1>6, <2>1, <2>2, <2>3, <2>4, <2>5, <2>6, <2>7, <2>8, <2>9, <2>10, <2>11, <2>12, <2>13, <2>14,
       <2>15 DEF Step
<1>7. ASSUME NEW w \in Workers, Fail(w) PROVE job'[v] = job[v] \/ JobChange(v)
  BY <1>3, <1>4, <1>7 DEF Fail, RequestFails, BroadcastFails, ReconcileFails, Crash, JobChange, UsesTx
<1>8. ASSUME NEW w \in Workers, NEW r \in Requests, StartRelay(w, r) PROVE job'[v] = job[v] \/ JobChange(v)
  BY <1>2, <1>8 DEF StartRelay, JobChange, UsesTx, Idle
<1>9. ASSUME NEW w \in Workers, NEW f \in Polled, GetOperation(w, f) PROVE job'[v] = job[v] \/ JobChange(v)
  BY <1>5, <1>9 DEF GetOperation, JobChange, UsesTx
<1>10. CASE ChainStep \/ NextDay \/ (\E tx \in pool : Evict(tx))
            \/ (\E f \in Events : AnchorExternally(f) \/ BecomeDue(f))
  BY <1>10 DEF ChainStep, Mine, Confirm, NextDay, Evict, AnchorExternally, BecomeDue
<1>11. CASE UNCHANGED vars
  BY <1>11 DEF vars
<1> QED
  BY <1>6, <1>7, <1>8, <1>9, <1>10, <1>11 DEF Next

\* A row that has a transaction keeps it.
LEMMA NoncesStay ==
  ASSUME TypeOK, TxRecorded, [Next]_vars, NEW e \in Events, HasTx(e)
  PROVE  op'[e].nonce = op[e].nonce /\ HasTx(e)'
<1>1. op[e] \in Row
  BY TypeParts DEF RowsOK
<1>2. e \in Rows
  BY DEF TxRecorded, Rows
<1>3. RowChange(e) => op'[e].nonce = op[e].nonce
  BY <1>1, <1>2 DEF RowChange, Unprepared, Retryable, Rebroadcasting, Row
<1> QED
  BY <1>3, RowChanges DEF HasTx

\* Rows are never deleted.
LEMMA RowsStay ==
  ASSUME TypeOK, [Next]_vars, NEW e \in Events, op'[e].state = "NONE"
  PROVE  op[e].state = "NONE" /\ (op'[e] = op[e] \/ op'[e].nonce = op[e].nonce)
<1>1. op[e] \in Row
  BY TypeParts DEF RowsOK
<1>2. "NONE" \notin State
  BY DEF State, Terminal
<1>3. CASE RowChange(e)
  <2>1. Outcome(e) # op[e].state => Outcome(e) # "NONE"
    BY DEF Outcome
  <2> QED
    BY <1>1, <1>2, <1>3, <2>1 DEF RowChange, Retryable, Rebroadcasting, Row, NoRow
<1> QED
  BY <1>3, RowChanges

LEMMA TxRecordedInductive ==
  ASSUME TypeOK, TxRecorded, [Next]_vars, TypeOK'
  PROVE  TxRecorded'
<1>1. ASSUME NEW v \in Workers, job'[v].pc \in UsesTx PROVE HasTx(Event(v))'
  <2>1. CASE job'[v] = job[v]
    <3>1. HasTx(Event(v)) /\ Event(v)' = Event(v) /\ Event(v) \in Events
      BY <1>1, <2>1, TypeParts, RunningEvent DEF TxRecorded, Event, UsesTx, At
    <3> QED
      BY <3>1, NoncesStay DEF HasTx
  <2>2. CASE JobChange(v)
    <3>1. Event(v)' = Event(v) /\ ~At(v, "idle")
      BY <1>1, <2>2 DEF JobChange, Event, At, UsesTx, RecordMinedCost, PrepareNewTransaction
    <3>2. Event(v) \in Events
      BY <3>1, TypeParts, RunningEvent
    <3>3. CASE PrepareNewTransaction(v) /\ Unprepared(Event(v))
      <4>1. op'[Event(v)].nonce = NextNonce(v)
        BY <3>2, <3>3, TypeParts DEF PrepareNewTransaction, RowsOK, Row
      <4>2. NextNonce(v) \in Nat
        BY <3>2, TypeParts DEF NextNonce, JobsOK, JobType, RowsOK, NoNonce
      <4> QED
        BY <3>1, <4>1, <4>2 DEF HasTx, NoNonce
    <3>4. CASE HasTx(Event(v))
      BY <3>1, <3>2, <3>4, NoncesStay DEF HasTx
    <3> QED
      BY <1>1, <2>2, <3>3, <3>4 DEF JobChange, TxRecorded, UsesTx, RecordMinedCost, At
  <2> QED
    BY <2>1, <2>2, JobChanges
<1>2. ASSUME NEW e \in Events, op'[e].state = "NONE" PROVE ~HasTx(e)'
  BY <1>2, RowsStay DEF TxRecorded, HasTx
<1> QED
  BY <1>1, <1>2 DEF TxRecorded

-----------------------------------------------------------------------------
(* The first theorem *)

LEMMA InitTypes == Init => TypeOK /\ TxRecorded
<1> SUFFICES ASSUME Init PROVE TypeOK /\ TxRecorded
  OBVIOUS
<1>1. NoRow \in Row
  BY RelayAssumption DEF NoRow, Row, NoNonce
<1>2. JobsOK
  BY IdleType DEF Init, JobsOK, At, Idle
<1>3. RowsOK
  BY <1>1 DEF Init, RowsOK
<1>4. Contract!TypeOK
  BY DEF Init, Contract!Init, Contract!TypeOK, Contract!UnknownReceipt, Contract!ReceiptState,
         Contract!ReceiptStage
<1>5. ChainOK
  BY <1>4, RelayAssumption DEF Init, ChainOK
<1>6. EnvOK
  BY RelayAssumption DEF Init, EnvOK
<1>7. TxRecorded
  BY DEF Init, TxRecorded, UsesTx, Idle, HasTx, NoRow
<1> QED
  BY <1>2, <1>3, <1>5, <1>6, <1>7, TypeParts

LEMMA NextTypes ==
  ASSUME TypeOK, TxRecorded, [Next]_vars
  PROVE  TypeOK'
<1>1. ASSUME NEW w \in Workers, Step(w) PROVE TypeOK'
  <2>1. Broadcast(w) => HasTx(Event(w))
    BY DEF Broadcast, At, TxRecorded, UsesTx
  <2> QED
    BY <1>1, <2>1, MovesKeepTypes, WritesKeepTypes, AcquireKeepsTypes, BroadcastsKeepTypes DEF Step
<1>2. ASSUME NEW w \in Workers, Fail(w) PROVE TypeOK'
  <2>1. BroadcastFails(w) => HasTx(Event(w))
    BY DEF BroadcastFails, At, TxRecorded, UsesTx
  <2> QED
    BY <1>2, <2>1, FaultsKeepTypes, BroadcastsKeepTypes DEF Fail
<1>3. ASSUME NEW w \in Workers, NEW r \in Requests, StartRelay(w, r) PROVE TypeOK'
  BY <1>3, MovesKeepTypes
<1>4. ASSUME NEW w \in Workers, NEW e \in Polled, GetOperation(w, e) PROVE TypeOK'
  BY <1>4, PollKeepsTypes, RelayAssumption
<1>5. CASE ChainStep
  BY <1>5, MineKeepsTypes, EnvironmentKeepsTypes DEF ChainStep
<1>6. CASE NextDay \/ (\E tx \in pool : Evict(tx))
           \/ (\E e \in Events : AnchorExternally(e) \/ BecomeDue(e))
  BY <1>6, EnvironmentKeepsTypes
<1>7. CASE UNCHANGED vars
  BY <1>7, TypeParts, PartsUnchanged DEF vars
<1> QED
  BY <1>1, <1>2, <1>3, <1>4, <1>5, <1>6, <1>7 DEF Next

\* The relay's rows, chain and requests keep their types, for any number of
\* requests: TypeOK is inductive once a request that broadcasts is known to have
\* a durable transaction (#prepareNewTransaction before #broadcastPrepared).
THEOREM TypeCorrect == Spec => [](TypeOK /\ TxRecorded)
<1>1. TypeOK /\ TxRecorded /\ [Next]_vars => (TypeOK /\ TxRecorded)'
  BY NextTypes, TxRecordedInductive
<1> QED
  BY InitTypes, <1>1, PTL DEF Spec

-----------------------------------------------------------------------------
(* Nonces: one per row, none lost, none on chain that no row names *)

\* The pending nonce a request read, however old, is not above the durable
\* counter: every transaction the node knows of has a row.
PendingKnown == \A w \in Workers : At(w, "prepare") => job[w].pending <= nextNonce

NonceInv == NoncesDistinct /\ OnlyDurableBroadcast /\ NoLostNonce /\ PendingKnown

LEMMA CounterChanges ==
  ASSUME [Next]_vars
  PROVE  \/ UNCHANGED nextNonce
         \/ \E w \in Workers : PrepareNewTransaction(w) /\ Unprepared(Event(w))
<1>1. ASSUME NEW w \in Workers, Step(w)
      PROVE  UNCHANGED nextNonce \/ (PrepareNewTransaction(w) /\ Unprepared(Event(w)))
  BY <1>1 DEF Step, Recheck, Precheck, FindAnchored, MarkExternallyAnchored, AcquireOperation, ReadRow,
     ReadReceipt, ReadPendingNonce, PrepareNewTransaction, Rebroadcast, Broadcast, MarkSubmitted,
     WaitForReceipt, MarkRetryable, DeferReconciliation, RecordMinedCost, FinalizeReceipt, dbVars
<1>2. ASSUME NEW w \in Workers, Fail(w) PROVE UNCHANGED nextNonce
  BY <1>2 DEF Fail, RequestFails, BroadcastFails, ReconcileFails, Crash, dbVars
<1>3. ASSUME NEW w \in Workers, (\E r \in Requests : StartRelay(w, r)) \/ (\E e \in Polled : GetOperation(w, e))
      PROVE  UNCHANGED nextNonce
  BY <1>3 DEF StartRelay, GetOperation, dbVars
<1>4. CASE ChainStep \/ NextDay \/ (\E tx \in pool : Evict(tx))
           \/ (\E f \in Events : AnchorExternally(f) \/ BecomeDue(f))
  BY <1>4 DEF ChainStep, Mine, Confirm, NextDay, Evict, AnchorExternally, BecomeDue, dbVars
<1>5. CASE UNCHANGED vars
  BY <1>5 DEF vars, dbVars
<1> QED
  BY <1>1, <1>2, <1>3, <1>4, <1>5 DEF Next

\* What a step does to the mempool and to the blocks.
LEMMA ChainChanges ==
  ASSUME TypeOK, TxRecorded, [Next]_vars
  PROVE  /\ \/ pool' \subseteq pool
            \/ \E e \in Events : HasTx(e) /\ pool' = pool \cup {Tx(e)}
         /\ \/ mined' = mined
            \/ \E tx \in pool : Mine(tx)
<1>1. ASSUME NEW w \in Workers, Broadcast(w) \/ BroadcastFails(w)
      PROVE  /\ pool' = pool \/ pool' = pool \cup {Tx(Event(w))}
             /\ Event(w) \in Events /\ HasTx(Event(w)) /\ UNCHANGED mined
  <2>1. At(w, "broadcast") /\ UNCHANGED mined /\ (pool' = pool \/ pool' = pool \cup {Tx(Event(w))})
    BY <1>1 DEF Broadcast, BroadcastFails
  <2> QED
    BY <2>1, TypeParts, RunningEvent DEF TxRecorded, UsesTx, At
<1>2. ASSUME NEW w \in Workers, Step(w), ~Broadcast(w) PROVE UNCHANGED <<pool, mined>>
  BY <1>2 DEF Step, Recheck, Precheck, FindAnchored, MarkExternallyAnchored, AcquireOperation, ReadRow,
     ReadReceipt, ReadPendingNonce, PrepareNewTransaction, Rebroadcast, MarkSubmitted,
     WaitForReceipt, MarkRetryable, DeferReconciliation, RecordMinedCost, FinalizeReceipt, chainVars
<1>3. ASSUME NEW w \in Workers, Fail(w), ~BroadcastFails(w) PROVE UNCHANGED <<pool, mined>>
  BY <1>3 DEF Fail, RequestFails, ReconcileFails, Crash, chainVars
<1>4. ASSUME NEW w \in Workers, (\E r \in Requests : StartRelay(w, r)) \/ (\E e \in Polled : GetOperation(w, e))
      PROVE  UNCHANGED <<pool, mined>>
  BY <1>4 DEF StartRelay, GetOperation, chainVars
<1>5. ASSUME NEW tx \in pool, Mine(tx) PROVE pool' \subseteq pool
  BY <1>5 DEF Mine
<1>6. ASSUME NEW tx \in pool, Evict(tx) PROVE pool' \subseteq pool /\ mined' = mined
  BY <1>6 DEF Evict
<1>7. CASE Confirm \/ NextDay \/ (\E f \in Events : AnchorExternally(f) \/ BecomeDue(f))
  BY <1>7 DEF Confirm, NextDay, AnchorExternally, BecomeDue, chainVars
<1>8. CASE UNCHANGED vars
  BY <1>8 DEF vars, chainVars
<1> QED
  BY <1>1, <1>2, <1>3, <1>4, <1>5, <1>6, <1>7, <1>8 DEF Next, ChainStep

\* Blocks hold what the mempool held, in nonce order.
LEMMA MinedChanges ==
  ASSUME TypeOK, NEW tx \in pool, Mine(tx)
  PROVE  /\ tx \in [event : Events, nonce : Nat] /\ tx.nonce = Len(mined)
         /\ Len(mined') = Len(mined) + 1
         /\ mined'[Len(mined) + 1].event = tx.event
         /\ mined'[Len(mined) + 1].ok = Contract!Accepts(Core[tx.event])
         /\ \A i \in 1..Len(mined) : mined'[i] = mined[i]
         /\ \A i \in 1..(Len(mined) + 1) : i \in 1..Len(mined) \/ i = Len(mined) + 1
<1> DEFINE entry == [event |-> tx.event, ok |-> Contract!Accepts(Core[tx.event])]
<1>1. mined \in Seq([event : Events, ok : BOOLEAN]) /\ tx \in [event : Events, nonce : Nat]
  BY TypeParts DEF ChainOK
<1>2. /\ mined' = Append(mined, entry) /\ tx.nonce = Len(mined)
      /\ entry.event = tx.event /\ entry.ok = Contract!Accepts(Core[tx.event])
  BY DEF Mine
<1> HIDE DEF entry
<1>3. Len(mined) \in Nat /\ Len(mined') = Len(mined) + 1 /\ mined'[Len(mined) + 1] = entry
      /\ \A i \in 1..Len(mined) : mined'[i] = mined[i]
  BY <1>1, <1>2
<1> QED
  BY <1>1, <1>2, <1>3

LEMMA MinedElements ==
  ASSUME TypeOK
  PROVE  /\ Len(mined) \in Nat /\ DOMAIN mined = 1..Len(mined)
         /\ \A i \in 1..Len(mined) : mined[i].event \in Events
<1> DEFINE S == [event : Events, ok : BOOLEAN]
<1>1. mined \in Seq(S)
  BY TypeParts DEF ChainOK
<1>2. \A s \in S : s.event \in Events
  OBVIOUS
<1> HIDE DEF S
<1>3. Len(mined) \in Nat /\ DOMAIN mined = 1..Len(mined) /\ \A i \in 1..Len(mined) : mined[i] \in S
  BY <1>1
<1> QED
  BY <1>2, <1>3

LEMMA MinedAfter ==
  ASSUME TypeOK'
  PROVE  Len(mined') \in Nat /\ DOMAIN mined' = 1..Len(mined')
<1> DEFINE S == [event : Events, ok : BOOLEAN]
<1>1. mined' \in Seq(S)
  BY TypeParts DEF ChainOK
<1> HIDE DEF S
<1> QED
  BY <1>1

\* With every transaction of the node recorded, the node's pending nonce is not
\* above the durable counter.
LEMMA PendingBelowCounter ==
  ASSUME TypeOK, NonceInv, NEW n \in Nat, IsPendingNonce(n)
  PROVE  n <= nextNonce
<1>1. nextNonce \in Nat /\ Len(mined) \in Nat
  BY TypeParts DEF RowsOK, ChainOK
<1>2. Len(mined) <= nextNonce
  <2>1. CASE Len(mined) = 0
    BY <1>1, <2>1
  <2>2. CASE Len(mined) # 0
    <3>1. Len(mined) \in DOMAIN mined
      BY <1>1, <2>2, MinedElements
    <3>2. mined[Len(mined)].event \in Events
      BY <3>1, MinedElements
    <3>3. op[mined[Len(mined)].event].nonce = Len(mined) - 1
      BY <3>1 DEF NonceInv, OnlyDurableBroadcast
    <3> QED
      BY <1>1, <3>2, <3>3 DEF NonceInv, NoncesDistinct
  <2> QED
    BY <2>1, <2>2
<1>3. SUFFICES ASSUME n > nextNonce PROVE FALSE
  BY <1>1
<1>4. nextNonce \in Len(mined)..(n - 1)
  BY <1>1, <1>2, <1>3
<1>5. PICK tx \in pool : tx.nonce = nextNonce
  BY <1>4 DEF IsPendingNonce
<1>6. tx.event \in Events /\ op[tx.event].nonce = tx.nonce
  BY TypeParts DEF ChainOK, NonceInv, OnlyDurableBroadcast, Tx
<1> QED
  BY <1>1, <1>5, <1>6 DEF NonceInv, NoncesDistinct

\* The nonce of a request that still waits to prepare, in the next state.
LEMMA PendingKnownInductive ==
  ASSUME TypeOK, TypeOK', NonceInv, [Next]_vars, nextNonce' >= nextNonce
  PROVE  PendingKnown'
<1> SUFFICES ASSUME NEW w \in Workers, job'[w].pc = "prepare" PROVE job'[w].pending <= nextNonce'
  BY DEF PendingKnown, At
<1>1. nextNonce \in Nat /\ nextNonce' \in Nat /\ job'[w].pending \in Int /\ job[w].pending \in Int
  BY TypeParts DEF RowsOK, JobsOK, JobType, NoNonce
<1>2. CASE job'[w] = job[w]
  BY <1>1, <1>2 DEF NonceInv, PendingKnown, At
<1>3. CASE JobChange(w)
  <2>1. job'[w].pending \in Nat /\ IsPendingNonce(job'[w].pending)
    BY <1>3 DEF JobChange
  <2> QED
    BY <1>1, <2>1, PendingBelowCounter
<1> QED
  BY <1>2, <1>3, JobChanges

\* A step in which no row gets a nonce.
LEMMA NoncesKeptInductive ==
  ASSUME TypeOK, TypeOK', TxRecorded, NonceInv, [Next]_vars, UNCHANGED nextNonce,
         \A e \in Events : op'[e].nonce = op[e].nonce
  PROVE  NonceInv'
<1>1. \A e \in Events : HasTx(e)' <=> HasTx(e)
  BY DEF HasTx
<1>2. NoncesDistinct'
  BY <1>1 DEF NonceInv, NoncesDistinct
<1>3. NoLostNonce'
  BY DEF NonceInv, NoLostNonce
<1>4. \A e \in Events : Tx(e)' = Tx(e)
  BY DEF Tx
<1>5. ASSUME NEW tx \in pool' PROVE tx = Tx(tx.event)'
  <2>1. tx.event \in Events
    BY TypeParts DEF ChainOK
  <2>2. tx \in pool \/ \E e \in Events : tx = Tx(e)
    BY ChainChanges
  <2>3. \A e \in Events : tx = Tx(e) => tx.event = e
    BY DEF Tx
  <2> QED
    BY <1>4, <2>1, <2>2, <2>3 DEF NonceInv, OnlyDurableBroadcast
<1>6. \A i \in DOMAIN mined' : op'[mined'[i].event].nonce = i - 1
  <2>0. mined \in Seq([event : Events, ok : BOOLEAN])
    BY TypeParts DEF ChainOK
  <2>1. \A i \in DOMAIN mined : mined[i].event \in Events /\ op[mined[i].event].nonce = i - 1
    BY MinedElements DEF NonceInv, OnlyDurableBroadcast
  <2>2. CASE mined' = mined
    BY <2>1, <2>2
  <2>3. ASSUME NEW tx \in pool, Mine(tx) PROVE \A i \in DOMAIN mined' : op'[mined'[i].event].nonce = i - 1
    <3>1. tx.event \in Events /\ op[tx.event].nonce = tx.nonce
      BY <2>3, MinedChanges DEF NonceInv, OnlyDurableBroadcast, Tx
    <3>2. mined' \in Seq([event : Events, ok : BOOLEAN])
      BY TypeParts DEF ChainOK
    <3>3. DOMAIN mined' = 1..(Len(mined) + 1) /\ DOMAIN mined = 1..Len(mined) /\ Len(mined) \in Nat
      BY <2>0, <2>3, <3>2, MinedChanges
    <3>4. ASSUME NEW i \in 1..Len(mined) PROVE op'[mined'[i].event].nonce = i - 1
      BY <2>1, <2>3, <3>3, MinedChanges
    <3>5. op'[mined'[Len(mined) + 1].event].nonce = (Len(mined) + 1) - 1
      BY <2>3, <3>1, <3>3, MinedChanges
    <3> QED
      BY <3>3, <3>4, <3>5
  <2> QED
    BY <2>2, <2>3, ChainChanges
<1>7. OnlyDurableBroadcast'
  BY <1>5, <1>6 DEF OnlyDurableBroadcast
<1>8. nextNonce' >= nextNonce
  BY TypeParts DEF RowsOK
<1> QED
  BY <1>2, <1>3, <1>7, <1>8, PendingKnownInductive DEF NonceInv

\* The step that gives a row its nonce.
LEMMA PrepareInductive ==
  ASSUME TypeOK, TypeOK', NonceInv, [Next]_vars,
         NEW w \in Workers, PrepareNewTransaction(w), Unprepared(Event(w))
  PROVE  NonceInv'
<1> DEFINE e == Event(w)
<1>1. e \in Events
  BY TypeParts, RunningEvent DEF PrepareNewTransaction, At
<1>2. nextNonce \in Nat /\ nextNonce' \in Nat /\ job[w].pending \in Int
  BY TypeParts DEF RowsOK, JobsOK, JobType, NoNonce
<1>3. NextNonce(w) = nextNonce
  BY <1>2 DEF NonceInv, PendingKnown, PrepareNewTransaction, NextNonce
<1>4. nextNonce' = nextNonce + 1 /\ op'[e].nonce = nextNonce /\ UNCHANGED <<pool, mined>>
      /\ \A f \in Events \ {e} : op'[f] = op[f]
  BY <1>1, <1>3, TypeParts DEF PrepareNewTransaction, RowsOK, Row, chainVars
<1>5. ~HasTx(e)
  BY DEF Unprepared
<1>6. ASSUME NEW f \in Events PROVE op[f].nonce \in Int
  <2>1. op[f] \in Row
    BY TypeParts DEF RowsOK
  <2> QED
    BY <2>1 DEF Row, NoNonce
<1>7. NoncesDistinct'
  <2>1. \A f \in Events : op'[f].nonce < nextNonce'
    BY <1>2, <1>4, <1>6 DEF NonceInv, NoncesDistinct
  <2>2. \A f \in Events \ {e} : op'[f].nonce # op'[e].nonce
    BY <1>2, <1>4, <1>6 DEF NonceInv, NoncesDistinct
  <2>3. \A f \in Events \ {e} : HasTx(f)' <=> HasTx(f)
    BY <1>4 DEF HasTx
  <2>4. \A f, g \in Events \ {e} : HasTx(f)' /\ HasTx(g)' /\ op'[f].nonce = op'[g].nonce => f = g
    BY <1>4, <2>3 DEF NonceInv, NoncesDistinct
  <2> QED
    BY <2>1, <2>2, <2>4 DEF NoncesDistinct, HasTx
<1>8. NoLostNonce'
  <2> SUFFICES ASSUME NEW n \in 0..(nextNonce' - 1) PROVE \E f \in Events : op'[f].nonce = n
    BY DEF NoLostNonce
  <2>1. CASE n = nextNonce
    BY <1>1, <1>4, <2>1
  <2>2. CASE n \in 0..(nextNonce - 1)
    <3>1. PICK f \in Events : op[f].nonce = n
      BY <2>2 DEF NonceInv, NoLostNonce
    <3>2. f # e
      BY <1>5, <2>2, <3>1 DEF HasTx, NoNonce
    <3> QED
      BY <1>4, <3>1, <3>2
  <2> QED
    BY <1>2, <1>4, <2>1, <2>2
<1>9. OnlyDurableBroadcast'
  <2>1. ASSUME NEW f \in Events, op[f].nonce \in Nat PROVE op'[f].nonce = op[f].nonce
    BY <1>4, <1>5, <2>1 DEF HasTx, NoNonce
  <2>2. ASSUME NEW tx \in pool' PROVE tx = Tx(tx.event)'
    <3>1. tx \in pool /\ tx.event \in Events /\ tx.nonce \in Nat /\ tx = Tx(tx.event)
      BY <1>4, <2>2, TypeParts DEF ChainOK, NonceInv, OnlyDurableBroadcast
    <3>2. op[tx.event].nonce = tx.nonce
      BY <3>1 DEF Tx
    <3> QED
      BY <2>1, <3>1, <3>2 DEF Tx
  <2>3. ASSUME NEW i \in DOMAIN mined' PROVE op'[mined'[i].event].nonce = i - 1
    <3>1. mined' = mined
      BY <1>4
    <3>2. i \in 1..Len(mined) /\ mined[i].event \in Events
      BY <3>1, MinedElements
    <3>3. op[mined[i].event].nonce = i - 1
      BY <3>2, MinedElements DEF NonceInv, OnlyDurableBroadcast
    <3>4. i - 1 \in Nat
      BY <3>2, MinedElements
    <3> QED
      BY <2>1, <3>1, <3>2, <3>3, <3>4
  <2> QED
    BY <2>2, <2>3 DEF OnlyDurableBroadcast
<1> QED
  BY <1>2, <1>4, <1>7, <1>8, <1>9, PendingKnownInductive DEF NonceInv

LEMMA NonceInvInductive ==
  ASSUME TypeOK, TypeOK', TxRecorded, NonceInv, [Next]_vars
  PROVE  NonceInv'
<1>1. CASE \E w \in Workers : PrepareNewTransaction(w) /\ Unprepared(Event(w))
  BY <1>1, PrepareInductive
<1>2. CASE ~\E w \in Workers : PrepareNewTransaction(w) /\ Unprepared(Event(w))
  <2>1. UNCHANGED nextNonce
    BY <1>2, CounterChanges
  <2>2. ASSUME NEW e \in Events PROVE op'[e].nonce = op[e].nonce
    <3>1. op[e] \in Row
      BY TypeParts DEF RowsOK
    <3>2. e \notin Rows => op[e].nonce = NoNonce
      BY DEF TxRecorded, Rows, HasTx
    <3>3. RowChange(e) => op'[e].nonce = op[e].nonce
      BY <1>2, <3>1, <3>2 DEF RowChange, Retryable, Rebroadcasting, Row, NoRow
    <3> QED
      BY <3>3, RowChanges
  <2> QED
    BY <2>1, <2>2, NoncesKeptInductive
<1> QED
  BY <1>1, <1>2

LEMMA InitNonces == Init => NonceInv
<1> SUFFICES ASSUME Init PROVE NonceInv
  OBVIOUS
<1>1. \A e \in Events : op[e].nonce = NoNonce
  BY DEF Init, NoRow
<1>2. NoncesDistinct
  BY <1>1 DEF Init, NoncesDistinct, HasTx, NoNonce
<1>3. OnlyDurableBroadcast
  BY DEF Init, OnlyDurableBroadcast
<1>4. NoLostNonce
  BY DEF Init, NoLostNonce
<1>5. PendingKnown
  BY DEF Init, PendingKnown, At, Idle
<1> QED
  BY <1>2, <1>3, <1>4, <1>5 DEF NonceInv

\* Whatever instances race, crash and read late from the node: no nonce is given
\* to two rows or skipped, and the node only ever holds or mines the transaction
\* that a row names (#prepareNewTransaction).
THEOREM NoncesCorrect == Spec => [](NoncesExact /\ OnlyDurableBroadcast)
<1> DEFINE Inv == TypeOK /\ TxRecorded /\ NonceInv
<1>1. Init => Inv
  BY InitTypes, InitNonces
<1>2. Inv /\ [Next]_vars => Inv'
  BY NextTypes, TxRecordedInductive, NonceInvInductive
<1>3. Inv => NoncesExact /\ OnlyDurableBroadcast
  BY DEF NonceInv, NoncesExact
<1> QED
  BY <1>1, <1>2, <1>3, PTL DEF Spec

\* Nothing is broadcast that no row names: a restarted instance finds every
\* transaction that may still be mined (#prepareNewTransaction, #broadcastPrepared).
THEOREM BroadcastsAreDurable == Spec => []OnlyDurableBroadcast
  BY NoncesCorrect, PTL

-----------------------------------------------------------------------------
(* The attempt cap *)

\* Attempts are counted only with a transaction.
AttemptInv ==
  /\ AttemptsBounded
  /\ \A e \in Events : ~HasTx(e) => op[e].attempts = 0
  /\ NeverAbandons

LEMMA AttemptInvInductive ==
  ASSUME TypeOK, TypeOK', TxRecorded, AttemptInv, [Next]_vars
  PROVE  AttemptInv'
<1>1. MaxAttempts \in Nat /\ MaxAttempts >= 1
  BY RelayAssumption
<1>2. ASSUME NEW e \in Events
      PROVE  op'[e].attempts <= MaxAttempts /\ (~HasTx(e)' => op'[e].attempts = 0)
  <2>1. op[e] \in Row /\ op[e].attempts \in Nat
    BY TypeParts DEF RowsOK, Row
  <2>2. op[e].attempts <= MaxAttempts /\ (~HasTx(e) => op[e].attempts = 0)
    BY DEF AttemptInv, AttemptsBounded
  <2>3. CASE op'[e] = op[e]
    BY <2>2, <2>3 DEF HasTx
  <2>4. ASSUME NEW w \in Workers, Event(w) = e, PrepareNewTransaction(w), Unprepared(e),
               op'[e] = [op[e] EXCEPT !.state = "SUBMITTING", !.nonce = NextNonce(w),
                                      !.attempts = op[e].attempts + 1, !.due = FALSE]
        PROVE  op'[e].attempts <= MaxAttempts /\ HasTx(e)'
    <3>1. NextNonce(w) \in Nat
      BY <2>4, TypeParts DEF NextNonce, JobsOK, JobType, RowsOK, NoNonce
    <3>2. op'[e].attempts = op[e].attempts + 1 /\ op'[e].nonce = NextNonce(w)
      BY <2>1, <2>4 DEF Row
    <3> QED
      BY <1>1, <2>1, <2>2, <2>4, <3>1, <3>2 DEF Unprepared, HasTx, NoNonce
  <2>5. ASSUME NEW w \in Workers, Event(w) = e, Rebroadcast(w), MayRebroadcast(e),
               op'[e] = Rebroadcasting(op[e])
        PROVE  op'[e].attempts <= MaxAttempts /\ HasTx(e)'
    <3>1. HasTx(e)
      BY <2>5 DEF Rebroadcast, At, TxRecorded, UsesTx
    <3>2. op'[e].attempts = op[e].attempts + 1 /\ op'[e].nonce = op[e].nonce
      BY <2>1, <2>5 DEF Rebroadcasting, Row
    <3> QED
      BY <1>1, <2>1, <2>5, <3>1, <3>2 DEF MayRebroadcast, HasTx
  <2>6. e \notin Rows => op[e].nonce = NoNonce
    BY DEF TxRecorded, Rows, HasTx
  <2>7. RowChange(e) =>
          \/ op'[e].nonce = op[e].nonce /\ (op'[e].attempts = op[e].attempts \/ op'[e].attempts = 0)
          \/ \E w \in Workers :
               /\ Event(w) = e /\ PrepareNewTransaction(w) /\ Unprepared(e)
               /\ op'[e] = [op[e] EXCEPT !.state = "SUBMITTING", !.nonce = NextNonce(w),
                                         !.attempts = op[e].attempts + 1, !.due = FALSE]
          \/ \E w \in Workers :
               /\ Event(w) = e /\ Rebroadcast(w) /\ MayRebroadcast(e)
               /\ op'[e] = Rebroadcasting(op[e])
    BY <2>1, <2>6 DEF RowChange, Retryable, Row, NoRow
  <2>8. CASE op'[e].nonce = op[e].nonce /\ (op'[e].attempts = op[e].attempts \/ op'[e].attempts = 0)
    BY <1>1, <2>2, <2>8 DEF HasTx
  <2> QED
    BY <2>3, <2>4, <2>5, <2>7, <2>8, RowChanges DEF HasTx
<1>3. ASSUME NEW w \in Workers, job'[w].pc = "abandon" PROVE FALSE
  <2>1. JobChange(w)
    BY <1>3, JobChanges DEF AttemptInv, NeverAbandons, At
  <2>2. At(w, "reconcile") /\ ~HasTx(Event(w)) /\ op[Event(w)].attempts >= MaxAttempts
    BY <1>3, <2>1 DEF JobChange
  <2>3. Event(w) \in Events
    BY <2>2, TypeParts, RunningEvent DEF At
  <2>4. op[Event(w)].attempts = 0
    BY <2>2, <2>3 DEF AttemptInv
  <2> QED
    BY <1>1, <2>2, <2>4
<1> QED
  BY <1>2, <1>3 DEF AttemptInv, AttemptsBounded, NeverAbandons, At

\* No event is broadcast more often than the cap, whatever the requests that
\* decide to (#rebroadcast), and #markFinalWithoutTransaction is never reached.
THEOREM AttemptsCorrect == Spec => [](AttemptsBounded /\ NeverAbandons)
<1> DEFINE Inv == TypeOK /\ TxRecorded /\ AttemptInv
<1>1. Init => AttemptInv
  BY RelayAssumption DEF Init, AttemptInv, AttemptsBounded, NeverAbandons, At, Idle, NoRow
<1>2. Inv /\ [Next]_vars => Inv'
  BY NextTypes, TxRecordedInductive, AttemptInvInductive
<1>3. Inv => AttemptsBounded /\ NeverAbandons
  BY DEF AttemptInv
<1> QED
  BY InitTypes, <1>1, <1>2, <1>3, PTL DEF Spec

-----------------------------------------------------------------------------
(* Final results and the fee *)

\* A successful transaction of the relayer is visible in the registry.
MinedMatches == \A i \in DOMAIN mined : mined[i].ok => RegistryMatches(mined[i].event)

\* A request that settles has seen the confirmation target.
FinalJobs == \A w \in Workers : job[w].pc \in {"cost", "settle"} => IsFinal(Tx(Event(w)))

\* An event the relay gave up on never had a transaction.
GivenUp == \A e \in Events : op[e].state = "FAILED_FINAL" => ~HasTx(e)

OutcomeInv == MinedMatches /\ FinalJobs /\ GivenUp /\ OutcomeIsTrue

\* The registry changes only by calls it accepts: the relay's, when they are mined,
\* and those of other senders.
LEMMA RegistryCalls ==
  ASSUME TypeOK, [Next]_vars
  PROVE  \/ UNCHANGED registryVars
         \/ \E tx \in pool : Mine(tx) /\ tx.event \in Events /\ Contract!AnchorEvent(Core[tx.event])
         \/ \E e \in Events : AnchorExternally(e)
<1>1. ASSUME NEW w \in Workers, Step(w) PROVE UNCHANGED registryVars
  BY <1>1 DEF Step, Recheck, Precheck, FindAnchored, MarkExternallyAnchored, AcquireOperation, ReadRow,
     ReadReceipt, ReadPendingNonce, PrepareNewTransaction, Rebroadcast, Broadcast, MarkSubmitted,
     WaitForReceipt, MarkRetryable, DeferReconciliation, RecordMinedCost, FinalizeReceipt, chainVars
<1>2. ASSUME NEW w \in Workers, Fail(w) PROVE UNCHANGED registryVars
  BY <1>2 DEF Fail, RequestFails, BroadcastFails, ReconcileFails, Crash, chainVars
<1>3. ASSUME NEW w \in Workers, (\E r \in Requests : StartRelay(w, r)) \/ (\E e \in Polled : GetOperation(w, e))
      PROVE  UNCHANGED registryVars
  BY <1>3 DEF StartRelay, GetOperation, chainVars
<1>4. ASSUME NEW tx \in pool, Mine(tx)
      PROVE  UNCHANGED registryVars \/ (tx.event \in Events /\ Contract!AnchorEvent(Core[tx.event]))
  <2>1. tx.event \in Events
    BY TypeParts DEF ChainOK
  <2> QED
    BY <1>4, <2>1 DEF Mine
<1>5. CASE Confirm \/ NextDay \/ (\E tx \in pool : Evict(tx)) \/ (\E f \in Events : BecomeDue(f))
  BY <1>5 DEF Confirm, NextDay, Evict, BecomeDue, chainVars
<1>6. CASE UNCHANGED vars
  BY <1>6 DEF vars, chainVars
<1> QED
  BY <1>1, <1>2, <1>3, <1>4, <1>5, <1>6 DEF Next, ChainStep

LEMMA RegistryChanges ==
  ASSUME TypeOK, [Next]_vars
  PROVE  UNCHANGED registryVars \/ \E e \in Events : Contract!AnchorEvent(Core[e])
<1>1. \A e \in Events : AnchorExternally(e) => Contract!AnchorEvent(Core[e])
  BY DEF AnchorExternally
<1> QED
  BY <1>1, RegistryCalls

\* What the registry shows of an event stays.
LEMMA MatchesStay ==
  ASSUME TypeOK, [Next]_vars, NEW e \in Events, RegistryMatches(e)
  PROVE  RegistryMatches(e)'
<1>1. Core[e].receiptId \in ReceiptIds
  BY RelayAssumption
<1>2. CASE UNCHANGED registryVars
  BY <1>2 DEF registryVars, RegistryMatches
<1>3. ASSUME NEW f \in Events, Contract!AnchorEvent(Core[f]) PROVE RegistryMatches(e)'
  <2>1. receipts \in [ReceiptIds -> Contract!ReceiptState]
    BY TypeParts DEF ChainOK, Contract!TypeOK
  <2>2. e \in anchoredEvents'
    BY <1>3 DEF RegistryMatches, Contract!AnchorEvent
  <2>3. CASE Core[f].receiptId # Core[e].receiptId
    <3>1. receipts'[Core[e].receiptId] = receipts[Core[e].receiptId]
      BY <1>1, <1>3, <2>1, <2>3 DEF Contract!AnchorEvent
    <3> QED
      BY <2>2, <3>1 DEF RegistryMatches
  <2>4. CASE Core[f].receiptId = Core[e].receiptId
    <3> DEFINE s == receipts[Core[e].receiptId]
               t == receipts'[Core[e].receiptId]
    <3>1. s.currentStage # "NONE" /\ s.extensionKeyHash = Core[e].extensionKeyHash
      BY DEF RegistryMatches
    <3>2. t.extensionKeyHash = s.extensionKeyHash /\ t.currentStage = Core[f].stage
      BY <1>1, <1>3, <2>1, <2>4, <3>1 DEF Contract!AnchorEvent
    <3>3. Core[f].stage \notin {"NONE", "ATTEMPTED"}
      BY <1>3, <2>4, <3>1 DEF Contract!AnchorEvent, Contract!Accepts, Contract!ValidForReceipt,
         Contract!ValidNext, Contract!IsValidTransition
    <3> QED
      BY <2>2, <3>1, <3>2, <3>3 DEF RegistryMatches
  <2> QED
    BY <2>3, <2>4
<1> QED
  BY <1>2, <1>3, RegistryChanges

\* The registry shows an event whose transaction succeeds.
LEMMA SuccessMatches ==
  ASSUME TypeOK, NEW tx \in pool, Mine(tx), Contract!Accepts(Core[tx.event])
  PROVE  RegistryMatches(tx.event)'
<1> DEFINE c == Core[tx.event]
<1>1. /\ c.receiptId \in ReceiptIds /\ c.eventHash = tx.event
      /\ c.stage \in {"ATTEMPTED", "SITE_CONFIRMED"}
  BY RelayAssumption, TypeParts DEF ChainOK
<1>2. receipts \in [ReceiptIds -> Contract!ReceiptState]
  BY TypeParts DEF ChainOK, Contract!TypeOK
<1>3. Contract!AnchorEvent(c)
  BY DEF Mine
<1>4. receipts'[c.receiptId].currentStage = c.stage
      /\ receipts'[c.receiptId].extensionKeyHash =
           (IF receipts[c.receiptId].currentStage = "NONE" THEN c.extensionKeyHash
                                                           ELSE receipts[c.receiptId].extensionKeyHash)
  BY <1>1, <1>2, <1>3 DEF Contract!AnchorEvent
<1>5. receipts'[c.receiptId].extensionKeyHash = c.extensionKeyHash
  BY <1>3, <1>4 DEF Contract!AnchorEvent, Contract!Accepts, Contract!ValidForReceipt, Contract!ValidNext
<1>6. tx.event \in anchoredEvents'
  BY <1>1, <1>3 DEF Contract!AnchorEvent
<1> QED
  BY <1>1, <1>4, <1>5, <1>6 DEF RegistryMatches

\* Mined transactions stay, and confirmations only grow.
LEMMA HistoryStays ==
  ASSUME TypeOK, TxRecorded, [Next]_vars
  PROVE  /\ final' >= final /\ Len(mined') >= Len(mined)
         /\ \A i \in 1..Len(mined) : mined'[i] = mined[i]
<1>1. final \in Int /\ Len(mined) \in Nat
  BY TypeParts, MinedElements DEF ChainOK
<1>2. final' = final \/ final' = final + 1
  <2>1. ASSUME NEW w \in Workers, Step(w) PROVE UNCHANGED final
    BY <2>1 DEF Step, Recheck, Precheck, FindAnchored, MarkExternallyAnchored, AcquireOperation, ReadRow,
       ReadReceipt, ReadPendingNonce, PrepareNewTransaction, Rebroadcast, Broadcast, MarkSubmitted,
       WaitForReceipt, MarkRetryable, DeferReconciliation, RecordMinedCost, FinalizeReceipt, chainVars
  <2>2. ASSUME NEW w \in Workers, Fail(w) PROVE UNCHANGED final
    BY <2>2 DEF Fail, RequestFails, BroadcastFails, ReconcileFails, Crash, chainVars
  <2>3. ASSUME NEW w \in Workers,
               (\E r \in Requests : StartRelay(w, r)) \/ (\E e \in Polled : GetOperation(w, e))
        PROVE  UNCHANGED final
    BY <2>3 DEF StartRelay, GetOperation, chainVars
  <2>4. CASE (\E tx \in pool : Mine(tx) \/ Evict(tx)) \/ NextDay
             \/ (\E f \in Events : AnchorExternally(f) \/ BecomeDue(f))
    BY <2>4 DEF Mine, Evict, NextDay, AnchorExternally, BecomeDue, chainVars
  <2>5. CASE Confirm
    BY <2>5 DEF Confirm
  <2>6. CASE UNCHANGED vars
    BY <2>6 DEF vars, chainVars
  <2> QED
    BY <2>1, <2>2, <2>3, <2>4, <2>5, <2>6 DEF Next, ChainStep
<1>3. Len(mined') >= Len(mined) /\ \A i \in 1..Len(mined) : mined'[i] = mined[i]
  <2>1. CASE mined' = mined
    BY <1>1, <2>1
  <2>2. ASSUME NEW tx \in pool, Mine(tx)
        PROVE  Len(mined') >= Len(mined) /\ \A i \in 1..Len(mined) : mined'[i] = mined[i]
    BY <1>1, <2>2, MinedChanges
  <2> QED
    BY <2>1, <2>2, ChainChanges
<1> QED
  BY <1>1, <1>2, <1>3

\* A transaction with its confirmations keeps them, and its receipt.
LEMMA FinalStays ==
  ASSUME TypeOK, TypeOK', TxRecorded, [Next]_vars, NEW e \in Events, IsFinal(Tx(e))
  PROVE  /\ HasTx(e) /\ op'[e].nonce = op[e].nonce
         /\ IsFinal(Tx(e))'
         /\ mined'[op'[e].nonce + 1] = mined[op[e].nonce + 1]
<1>1. /\ op[e].nonce \in 0..(Len(mined) - 1) /\ op[e].nonce < final
      /\ mined[op[e].nonce + 1].event = e
  BY DEF IsFinal, IsMined, Tx
<1>2. Len(mined) \in Nat /\ final \in Int /\ final' \in Int /\ Len(mined') \in Int
  BY TypeParts, MinedElements DEF ChainOK
<1>3. HasTx(e)
  BY <1>1, <1>2 DEF HasTx, NoNonce
<1>4. op'[e].nonce = op[e].nonce
  BY <1>3, NoncesStay
<1>5. op[e].nonce + 1 \in 1..Len(mined)
  BY <1>1, <1>2
<1>6. mined'[op[e].nonce + 1] = mined[op[e].nonce + 1]
  BY <1>5, HistoryStays
<1>7. Len(mined') >= Len(mined) /\ final' >= final
  BY HistoryStays
<1>8. op[e].nonce \in 0..(Len(mined') - 1) /\ op[e].nonce < final'
  BY <1>1, <1>2, <1>7
<1>9. Tx(e)' = [event |-> e, nonce |-> op[e].nonce]
  BY <1>4 DEF Tx
<1> QED
  BY <1>1, <1>3, <1>4, <1>6, <1>8, <1>9 DEF IsFinal, IsMined

LEMMA OutcomeInvInductive ==
  ASSUME TypeOK, TypeOK', TxRecorded, NonceInv, OutcomeInv, [Next]_vars
  PROVE  OutcomeInv'
<1>1. MinedMatches'
  <2>1. ASSUME NEW i \in 1..Len(mined), mined'[i] = mined[i], mined[i].ok
        PROVE  RegistryMatches(mined[i].event)'
    <3>1. PICK e \in Events : e = mined[i].event /\ RegistryMatches(e)
      BY <2>1, MinedElements DEF OutcomeInv, MinedMatches
    <3>2. RegistryMatches(e)'
      BY <3>1, MatchesStay
    <3>3. mined'[i].event = e
      BY <2>1, <3>1
    <3> QED
      BY <3>2, <3>3 DEF RegistryMatches
  <2>2. CASE mined' = mined
    BY <2>1, <2>2, MinedElements DEF MinedMatches
  <2>3. ASSUME NEW tx \in pool, Mine(tx) PROVE MinedMatches'
    <3>1. mined'[Len(mined) + 1] = [event |-> tx.event, ok |-> Contract!Accepts(Core[tx.event])]
      BY <2>3, TypeParts DEF Mine, ChainOK
    <3>2. mined'[Len(mined) + 1].ok => RegistryMatches(tx.event)'
      BY <2>3, <3>1, SuccessMatches
    <3>3. mined' \in Seq([event : Events, ok : BOOLEAN])
      BY TypeParts DEF ChainOK
    <3>4. DOMAIN mined' = 1..(Len(mined) + 1)
      BY <2>3, <3>3, MinedChanges
    <3>5. ASSUME NEW i \in DOMAIN mined', mined'[i].ok PROVE RegistryMatches(mined[i].event)'
      <4>1. CASE i = Len(mined) + 1
        BY <3>1, <3>2, <3>5, <4>1 DEF RegistryMatches
      <4>2. CASE i \in 1..Len(mined)
        BY <2>1, <2>3, <3>5, <4>2, MinedChanges
      <4> QED
        BY <3>4, <4>1, <4>2, MinedElements
    <3> QED
      BY <3>5 DEF MinedMatches
  <2> QED
    BY <2>2, <2>3, ChainChanges
<1>2. FinalJobs'
  <2> SUFFICES ASSUME NEW w \in Workers, job'[w].pc \in {"cost", "settle"} PROVE IsFinal(Tx(Event(w)))'
    BY DEF FinalJobs
  <2>1. Event(w)' = Event(w) /\ ~At(w, "idle") /\ IsFinal(Tx(Event(w)))
    <3>1. CASE job'[w] = job[w]
      BY <3>1 DEF OutcomeInv, FinalJobs, Event, At
    <3>2. CASE JobChange(w)
      BY <3>2 DEF JobChange, UsesTx, OutcomeInv, FinalJobs, Event, At, RecordMinedCost
    <3> QED
      BY <3>1, <3>2, JobChanges
  <2>2. Event(w) \in Events
    BY <2>1, TypeParts, RunningEvent
  <2>3. IsFinal(Tx(Event(w)))'
    BY <2>1, <2>2, FinalStays
  <2> QED
    BY <2>3
<1>3. ASSUME NEW e \in Events, op'[e].state \in Terminal
      PROVE  \/ op'[e].state = op[e].state /\ op'[e].nonce = op[e].nonce
             \/ op'[e].state = "FAILED_FINAL" /\ ~HasTx(e)'
             \/ op'[e].state = "CONFIRMED" /\ IsFinal(Tx(e)) /\ mined[op[e].nonce + 1].ok /\ RegistryMatches(e)
             \/ op'[e].state = "REVERTED" /\ IsFinal(Tx(e)) /\ ~mined[op[e].nonce + 1].ok
  <2>1. op[e] \in Row
    BY TypeParts DEF RowsOK
  <2>2. RowChange(e) =>
          \/ op'[e].state = op[e].state /\ op'[e].nonce = op[e].nonce
          \/ op'[e].state = "FAILED_FINAL" /\ ~HasTx(e) /\ op'[e].nonce = op[e].nonce
          \/ /\ \E w \in Workers : Event(w) = e /\ FinalizeReceipt(w)
             /\ op'[e].state = Outcome(e) /\ op'[e].state # op[e].state
    BY <1>3, <2>1 DEF RowChange, Retryable, Rebroadcasting, MayRebroadcast, Terminal, Row, Unprepared, NoRow
  <2>3. ASSUME NEW w \in Workers, Event(w) = e, FinalizeReceipt(w),
               op'[e].state = Outcome(e), op'[e].state # op[e].state
        PROVE  \/ op'[e].state = "CONFIRMED" /\ IsFinal(Tx(e)) /\ mined[op[e].nonce + 1].ok /\ RegistryMatches(e)
               \/ op'[e].state = "REVERTED" /\ IsFinal(Tx(e)) /\ ~mined[op[e].nonce + 1].ok
    <3>1. IsFinal(Tx(e))
      BY <2>3 DEF FinalizeReceipt, At, OutcomeInv, FinalJobs
    <3>2. op[e].nonce + 1 \in DOMAIN mined /\ mined[op[e].nonce + 1].event = e
      BY <3>1, MinedElements DEF IsFinal, IsMined, Tx
    <3>3. mined[op[e].nonce + 1].ok => RegistryMatches(e)
      BY <3>2 DEF OutcomeInv, MinedMatches
    <3> QED
      BY <2>3, <3>1, <3>3 DEF Outcome
  <2> QED
    BY <2>2, <2>3, RowChanges DEF HasTx
<1>4. GivenUp'
  <2> SUFFICES ASSUME NEW e \in Events, op'[e].state = "FAILED_FINAL" PROVE ~HasTx(e)'
    BY DEF GivenUp
  <2> QED
    BY <1>3 DEF Terminal, OutcomeInv, GivenUp, HasTx
<1>5. OutcomeIsTrue'
  <2> SUFFICES ASSUME NEW e \in Events
               PROVE  /\ op'[e].state = "CONFIRMED" =>
                           IsFinal(Tx(e))' /\ mined'[op'[e].nonce + 1].ok /\ RegistryMatches(e)'
                      /\ op'[e].state = "REVERTED" => IsFinal(Tx(e))' /\ ~mined'[op'[e].nonce + 1].ok
    BY DEF OutcomeIsTrue
  <2>1. CASE op'[e].state = "CONFIRMED"
    <3>1. IsFinal(Tx(e)) /\ mined[op[e].nonce + 1].ok /\ RegistryMatches(e)
      BY <1>3, <2>1 DEF Terminal, OutcomeInv, OutcomeIsTrue
    <3> QED
      BY <2>1, <3>1, FinalStays, MatchesStay
  <2>2. CASE op'[e].state = "REVERTED"
    <3>1. IsFinal(Tx(e)) /\ ~mined[op[e].nonce + 1].ok
      BY <1>3, <2>2 DEF Terminal, OutcomeInv, OutcomeIsTrue
    <3> QED
      BY <2>2, <3>1, FinalStays
  <2> QED
    BY <2>1, <2>2
<1> QED
  BY <1>1, <1>2, <1>4, <1>5 DEF OutcomeInv

\* No event is paid for twice.
LEMMA NoncesPayOnce ==
  ASSUME TypeOK, NonceInv, OutcomeInv
  PROVE  PaidOnce
<1>1. ASSUME NEW i \in DOMAIN mined, NEW j \in DOMAIN mined, mined[i].event = mined[j].event PROVE i = j
  <2>1. i - 1 = j - 1
    BY <1>1 DEF NonceInv, OnlyDurableBroadcast
  <2> QED
    BY <2>1, MinedElements
<1>2. ASSUME NEW e \in Events, op[e].state = "FAILED_FINAL"
      PROVE  (\A tx \in pool : tx.event # e) /\ (\A i \in DOMAIN mined : mined[i].event # e)
  <2>1. op[e].nonce = NoNonce
    BY <1>2 DEF OutcomeInv, GivenUp, HasTx
  <2>2. ASSUME NEW tx \in pool, tx.event = e PROVE FALSE
    <3>1. tx.nonce \in Nat /\ tx = Tx(e)
      BY <2>2, TypeParts DEF ChainOK, NonceInv, OnlyDurableBroadcast
    <3> QED
      BY <2>1, <3>1 DEF Tx, NoNonce
  <2>3. ASSUME NEW i \in DOMAIN mined, mined[i].event = e PROVE FALSE
    <3>1. i - 1 = NoNonce
      BY <2>1, <2>3 DEF NonceInv, OnlyDurableBroadcast
    <3> QED
      BY <3>1, MinedElements DEF NoNonce
  <2> QED
    BY <2>2, <2>3
<1> QED
  BY <1>1, <1>2 DEF PaidOnce

\* The relay pays for an event at most once, gives up only on events that have no
\* transaction, and claims a final result only for a final receipt that agrees
\* with it (#finalizeReceipt).
THEOREM OutcomesCorrect == Spec => [](PaidOnce /\ OutcomeIsTrue)
<1> DEFINE Inv == TypeOK /\ TxRecorded /\ NonceInv /\ OutcomeInv
<1>1. Init => OutcomeInv
  BY DEF Init, OutcomeInv, MinedMatches, FinalJobs, GivenUp, OutcomeIsTrue, Idle, NoRow
<1>2. Inv /\ [Next]_vars => Inv'
  BY NextTypes, TxRecordedInductive, NonceInvInductive, OutcomeInvInductive
<1>3. Inv => PaidOnce /\ OutcomeIsTrue
  BY NoncesPayOnce DEF OutcomeInv
<1> QED
  BY InitTypes, InitNonces, <1>1, <1>2, <1>3, PTL DEF Spec

\* Whichever requests race for an event, the relay pays for one transaction of
\* it, and for none of an event it gave up on (#markExternallyAnchored).
THEOREM EventsPaidOnce == Spec => []PaidOnce
  BY OutcomesCorrect, PTL

-----------------------------------------------------------------------------
(* The fee of an operation, and what the database accepts *)

\* The places where a request has found or inserted its row.
UsesRow == PcLabel \ {"idle", "precheck", "external", "acquire"}

RowsFound == \A w \in Workers : job[w].pc \in UsesRow => Event(w) \in Rows

\* What the three moves do to every worker.
LEMMA Moves ==
  ASSUME JobsOK, NEW v \in Workers, NEW w \in Workers
  PROVE  /\ Return(w) => job'[v] = job[v] \/ job'[v].pc = "idle"
         /\ \A pc : Goto(w, pc) =>
              job'[v] = job[v] \/ (v = w /\ job'[v].pc = pc /\ job'[v].req = job[v].req)
         /\ \A r, allow : Reconcile(w, r, allow) => job'[v] = job[v] \/ (v = w /\ job'[v].req = r)
         /\ \A r, allow : Reconcile(w, r, allow) => job'[v] = job[v] \/ job'[v].pc = "reconcile"
<1>1. job \in [Workers -> JobType]
  BY DEF JobsOK
<1>2. ASSUME NEW j, job' = [job EXCEPT ![w] = j]
      PROVE  job'[v] = job[v] \/ (v = w /\ job'[v] = j)
  BY <1>1, <1>2
<1>3. ASSUME NEW pc, Goto(w, pc)
      PROVE  job'[v] = job[v] \/ (v = w /\ job'[v].pc = pc /\ job'[v].req = job[v].req)
  <2>1. job' = [job EXCEPT ![w] = [Idle EXCEPT !.pc = pc, !.req = job[w].req]]
    BY <1>3 DEF Goto
  <2>2. /\ [Idle EXCEPT !.pc = pc, !.req = job[w].req].pc = pc
        /\ [Idle EXCEPT !.pc = pc, !.req = job[w].req].req = job[w].req
    BY DEF Idle
  <2> QED
    BY <1>2, <2>1, <2>2
<1>4. ASSUME NEW r, NEW allow, Reconcile(w, r, allow)
      PROVE  job'[v] = job[v] \/ (v = w /\ job'[v].pc = "reconcile" /\ job'[v].req = r)
  <2>1. job' = [job EXCEPT ![w] = [Idle EXCEPT !.pc = "reconcile", !.req = r, !.allow = allow]]
    BY <1>4 DEF Reconcile
  <2>2. /\ [Idle EXCEPT !.pc = "reconcile", !.req = r, !.allow = allow].pc = "reconcile"
        /\ [Idle EXCEPT !.pc = "reconcile", !.req = r, !.allow = allow].req = r
    BY DEF Idle
  <2> QED
    BY <1>2, <2>1, <2>2
<1>5. Return(w) => job'[v] = job[v] \/ job'[v].pc = "idle"
  BY <1>2 DEF Return, Idle
<1> QED
  BY <1>3, <1>4, <1>5

\* A request that goes on with a row has found it or inserts it.
LEMMA FindsRow ==
  ASSUME TypeOK, TxRecorded, RowsFound, [Next]_vars, NEW v \in Workers, job'[v].pc \in UsesRow
  PROVE  LET e == job'[v].req.event IN e \in Events /\ (e \in Rows \/ op'[e].state # "NONE")
<1> DEFINE Found(e) == e \in Events /\ (e \in Rows \/ op'[e].state # "NONE")
<1> USE TypeParts
<1>1. CASE job'[v] = job[v]
  BY <1>1 DEF RowsFound, Rows, Event
<1>2. ASSUME NEW w \in Workers, Event(w) \in Rows, ~At(w, "idle"),
             \/ Return(w) \/ (\E pc \in PcLabel : Goto(w, pc)) \/ \E b \in BOOLEAN : Reconcile(w, job[w].req, b)
      PROVE  Found(job'[v].req.event)
  <2>1. CASE Return(w)
    BY <1>1, <2>1, Moves DEF UsesRow
  <2>2. ASSUME NEW pc \in PcLabel, Goto(w, pc) PROVE Found(job'[v].req.event)
    BY <1>1, <1>2, <2>2, Moves DEF Rows, Event
  <2>3. ASSUME NEW b \in BOOLEAN, Reconcile(w, job[w].req, b) PROVE Found(job'[v].req.event)
    BY <1>1, <1>2, <2>3, Moves DEF Rows, Event
  <2> QED
    BY <1>2, <2>1, <2>2, <2>3
<1>3. ASSUME NEW w \in Workers, Step(w) PROVE Found(job'[v].req.event)
  <2>1. CASE \/ MarkExternallyAnchored(w) \/ PrepareNewTransaction(w) \/ Rebroadcast(w) \/ Broadcast(w)
             \/ MarkSubmitted(w) \/ MarkRetryable(w) \/ DeferReconciliation(w) \/ RecordMinedCost(w)
             \/ FinalizeReceipt(w) \/ ReadReceipt(w) \/ WaitForReceipt(w)
    <3>1. Event(w) \in Rows /\ ~At(w, "idle")
      BY <2>1 DEF MarkExternallyAnchored, PrepareNewTransaction, Rebroadcast, Broadcast, MarkSubmitted,
         MarkRetryable, DeferReconciliation, RecordMinedCost, FinalizeReceipt, ReadReceipt,
         WaitForReceipt, At, RowsFound, UsesRow, PcLabel
    <3>2. Return(w) \/ \E pc \in PcLabel : Goto(w, pc)
      BY <2>1 DEF MarkExternallyAnchored, PrepareNewTransaction, Rebroadcast, Broadcast, MarkSubmitted,
         MarkRetryable, DeferReconciliation, RecordMinedCost, FinalizeReceipt, ReadReceipt,
         WaitForReceipt, PcLabel
    <3> QED
      BY <1>2, <3>1, <3>2
  <2>2. CASE Recheck(w)
    <3>1. Event(w) \in Rows /\ ~At(w, "idle")
      BY <2>2 DEF Recheck, At, RowsFound, UsesRow, PcLabel
    <3> QED
      BY <1>1, <2>2, <3>1, Moves DEF Recheck, Rows, Event
  <2>3. CASE Precheck(w)
    BY <1>1, <2>3, Moves DEF Precheck, UsesRow
  <2>4. CASE FindAnchored(w)
    <3>1. Return(w) \/ (Event(w) \in Rows /\ (Reconcile(w, job[w].req, FALSE) \/ Goto(w, "markExternal")))
      BY <2>4 DEF FindAnchored
    <3>2. CASE Return(w)
      BY <1>1, <3>2, Moves DEF UsesRow
    <3>3. ~At(w, "idle") /\ "markExternal" \in PcLabel
      BY <2>4 DEF FindAnchored, At, PcLabel
    <3> QED
      BY <1>2, <3>1, <3>2, <3>3
  <2>5. CASE AcquireOperation(w)
    <3>1. Event(w) \in Events
      BY <2>5, RunningEvent DEF AcquireOperation, At
    <3>2. CASE Return(w)
      BY <1>1, <3>2, Moves DEF UsesRow
    <3>3. CASE Reconcile(w, job[w].req, TRUE) /\ (Event(w) \in Rows \/ op'[Event(w)].state # "NONE")
      BY <1>1, <3>1, <3>3, Moves DEF Event
    <3>4. Event(w) \in Rows \/ Return(w) \/ op' = [op EXCEPT ![Event(w)] =
             [NoRow EXCEPT !.state = "READY", !.body = job[w].req.body, !.key = job[w].req.key,
                           !.reserved = Fee[Event(w)], !.day = today]]
      BY <2>5 DEF AcquireOperation
    <3>5. Event(w) \in Rows \/ Return(w) \/ op'[Event(w)].state = "READY"
      BY <3>1, <3>4 DEF RowsOK, NoRow
    <3>6. Return(w) \/ Reconcile(w, job[w].req, TRUE)
      BY <2>5 DEF AcquireOperation
    <3> QED
      BY <3>2, <3>3, <3>5, <3>6
  <2>6. CASE ReadRow(w)
    <3>1. Event(w) \in Rows /\ ~At(w, "idle")
      BY <2>6 DEF ReadRow, At, RowsFound, UsesRow, PcLabel
    <3>2. CASE Return(w) \/ Goto(w, "abandon") \/ Goto(w, "nonce")
      BY <1>2, <3>1, <3>2 DEF PcLabel
    <3>3. CASE job' = [job EXCEPT ![w].pc = "receipt",
                         ![w].row = [state |-> op[Event(w)].state, attempts |-> op[Event(w)].attempts]]
      <4>1. job'[v] = job[v] \/ (v = w /\ job'[v].req = job[v].req)
        BY <3>3 DEF JobsOK, JobType
      <4> QED
        BY <1>1, <3>1, <4>1 DEF Rows, Event
    <3> QED
      BY <2>6, <3>2, <3>3 DEF ReadRow
  <2>7. CASE ReadPendingNonce(w)
    <3>1. Event(w) \in Rows
      BY <2>7 DEF ReadPendingNonce, At, RowsFound, UsesRow, PcLabel
    <3>2. job'[v] = job[v] \/ (v = w /\ job'[v].req = job[v].req)
      BY <2>7 DEF ReadPendingNonce, JobsOK, JobType
    <3> QED
      BY <1>1, <3>1, <3>2 DEF Rows, Event
  <2> QED
    BY <1>3, <2>1, <2>2, <2>3, <2>4, <2>5, <2>6, <2>7 DEF Step
<1>4. ASSUME NEW w \in Workers, Fail(w) PROVE Found(job'[v].req.event)
  <2>1. Return(w) \/ (Goto(w, "retryable") /\ job[w].pc \in {"broadcast", "receipt", "nonce", "prepare", "settle"})
    BY <1>4 DEF Fail, RequestFails, BroadcastFails, ReconcileFails, Crash, At
  <2>2. CASE Return(w)
    BY <1>1, <2>2, Moves DEF UsesRow
  <2>3. CASE Goto(w, "retryable") /\ job[w].pc \in {"broadcast", "receipt", "nonce", "prepare", "settle"}
    <3>1. Event(w) \in Rows /\ ~At(w, "idle") /\ "retryable" \in PcLabel
      BY <2>3 DEF RowsFound, UsesRow, PcLabel, At
    <3> QED
      BY <1>2, <2>3, <3>1
  <2> QED
    BY <2>1, <2>2, <2>3
<1>5. ASSUME NEW w \in Workers, NEW r \in Requests, StartRelay(w, r) PROVE Found(job'[v].req.event)
  <2>1. CASE HasTx(r.event)
    <3>1. r.event \in Events /\ r.event \in Rows
      BY <2>1, RelayAssumption DEF TxRecorded, Rows
    <3>2. job'[v] = job[v] \/ job'[v].req = r
      BY <1>5 DEF StartRelay, JobsOK, Idle
    <3> QED
      BY <1>1, <3>1, <3>2
  <2>2. CASE ~HasTx(r.event)
    <3>1. job'[v] = job[v] \/ job'[v].pc = "precheck"
      BY <1>5, <2>2 DEF StartRelay, JobsOK, Idle
    <3> QED
      BY <1>1, <3>1 DEF UsesRow
  <2> QED
    BY <2>1, <2>2
<1>6. ASSUME NEW w \in Workers, NEW e \in Polled, GetOperation(w, e) PROVE Found(job'[v].req.event)
  <2>1. e \in Events /\ e \in Rows
    BY <1>6, RelayAssumption DEF GetOperation, Open, Rows
  <2>2. UNCHANGED job \/ Reconcile(w, [event |-> e, body |-> NoKey, key |-> NoKey], FALSE)
    BY <1>6 DEF GetOperation
  <2>3. job'[v] = job[v] \/ job'[v].req = [event |-> e, body |-> NoKey, key |-> NoKey]
    BY <2>2, Moves
  <2> QED
    BY <1>1, <2>1, <2>3
<1>7. CASE ChainStep \/ NextDay \/ (\E tx \in pool : Evict(tx))
           \/ (\E f \in Events : AnchorExternally(f) \/ BecomeDue(f))
  BY <1>1, <1>7 DEF ChainStep, Mine, Confirm, NextDay, Evict, AnchorExternally, BecomeDue
<1>8. CASE UNCHANGED vars
  BY <1>1, <1>8 DEF vars
<1> QED
  BY <1>3, <1>4, <1>5, <1>6, <1>7, <1>8 DEF Next

LEMMA RowsFoundInductive ==
  ASSUME TypeOK, TxRecorded, RowsFound, [Next]_vars
  PROVE  RowsFound'
<1> SUFFICES ASSUME NEW v \in Workers, job'[v].pc \in UsesRow
             PROVE  job'[v].req.event \in Events /\ op'[job'[v].req.event].state # "NONE"
  BY DEF RowsFound, Rows, Event
<1>1. PICK e \in Events : e = job'[v].req.event /\ (e \in Rows \/ op'[e].state # "NONE")
  BY FindsRow
<1>2. op'[e].state # "NONE"
  BY <1>1, RowsStay DEF Rows
<1> QED
  BY <1>1, <1>2

\* A request settles after the fee is charged; a transaction is submitted only
\* when there is one.
FeeInv ==
  /\ FeeInOnePlace
  /\ \A w \in Workers : At(w, "settle") => op[Event(w)].reserved = 0
  /\ \A e \in Events : op[e].state \in {"SUBMITTING", "SUBMITTED"} => HasTx(e)

\* What FeeInOnePlace says of one row.
RowFee(e) ==
  /\ op[e].reserved + op[e].charged = (IF op[e].state = "FAILED_FINAL" THEN 0 ELSE Fee[e])
  /\ op[e].reserved = 0 \/ op[e].charged = 0
  /\ op[e].charged > 0 => IsFinal(Tx(e))
  /\ op[e].state \in Terminal => op[e].reserved = 0

LEMMA RowFeeInductive ==
  ASSUME TypeOK, TypeOK', TxRecorded, NonceInv, OutcomeInv, OutcomeInv', RowsFound, FeeInv, [Next]_vars,
         NEW e \in Events, op'[e].state # "NONE"
  PROVE  RowFee(e)'
<1>1. /\ op[e] \in Row /\ op[e].reserved \in Nat /\ op[e].charged \in Nat
      /\ op'[e].reserved \in Nat /\ op'[e].charged \in Nat
      /\ Fee[e] \in Nat \ {0}
  BY TypeParts, RelayAssumption DEF RowsOK, Row
<1>2. e \in Rows => RowFee(e)
  BY DEF FeeInv, FeeInOnePlace, RowFee
<1>3. IsFinal(Tx(e)) => IsFinal(Tx(e))'
  BY FinalStays
<1>4. CASE /\ e \in Rows /\ op'[e].reserved = op[e].reserved /\ op'[e].charged = op[e].charged
           /\ (op'[e].state = op[e].state \/ {op[e].state, op'[e].state} \cap Terminal = {})
  BY <1>2, <1>3, <1>4 DEF RowFee, Terminal
<1>5. ASSUME NEW w \in Workers, Event(w) = e, FinalizeReceipt(w), Outcome(e) # op[e].state,
             op'[e] = [op[e] EXCEPT !.state = Outcome(e), !.due = TRUE]
      PROVE  RowFee(e)'
  <2>1. e \in Rows /\ op[e].reserved = 0 /\ IsFinal(Tx(e))
    BY <1>5 DEF FinalizeReceipt, At, RowsFound, UsesRow, PcLabel, FeeInv, OutcomeInv, FinalJobs
  <2>2. /\ op'[e].reserved = op[e].reserved /\ op'[e].charged = op[e].charged
        /\ op'[e].state = Outcome(e)
    BY <1>1, <1>5 DEF Row
  <2>3. op[e].state # "FAILED_FINAL"
    BY <2>1, FinalStays DEF OutcomeInv, GivenUp
  <2>4. HasTx(e)'
    BY <2>1, FinalStays DEF HasTx
  <2>5. op'[e].state # "FAILED_FINAL"
    BY <2>4 DEF OutcomeInv, GivenUp
  <2> QED
    BY <1>1, <1>2, <1>3, <2>1, <2>2, <2>3, <2>5 DEF RowFee
<1>6. ASSUME NEW w \in Workers, Event(w) = e, MarkExternallyAnchored(w), Unprepared(e),
             op'[e] = [op[e] EXCEPT !.state = "FAILED_FINAL", !.reserved = 0, !.due = TRUE]
      PROVE  RowFee(e)'
  <2>1. e \in Rows
    BY <1>6 DEF MarkExternallyAnchored, At, RowsFound, UsesRow, PcLabel
  <2>2. op[e].charged = 0
    BY <1>1, <1>2, <1>6, <2>1, FinalStays DEF RowFee, Unprepared
  <2>3. op'[e].reserved = 0 /\ op'[e].charged = 0 /\ op'[e].state = "FAILED_FINAL"
    BY <1>1, <1>6, <2>2 DEF Row
  <2> QED
    BY <2>3 DEF RowFee
<1>7. ASSUME NEW w \in Workers, Event(w) = e, RecordMinedCost(w), ~(op[e].charged > 0),
             op'[e] = [op[e] EXCEPT !.reserved = 0, !.charged = op[e].reserved]
      PROVE  RowFee(e)'
  <2>1. e \in Rows /\ IsFinal(Tx(e))
    BY <1>7 DEF RecordMinedCost, At, RowsFound, UsesRow, PcLabel, OutcomeInv, FinalJobs
  <2>2. op'[e].reserved = 0 /\ op'[e].charged = op[e].reserved /\ op'[e].state = op[e].state
    BY <1>1, <1>7 DEF Row
  <2> QED
    BY <1>1, <1>2, <1>3, <1>7, <2>1, <2>2 DEF RowFee
<1>8. ASSUME NEW w \in Workers, AcquireOperation(w), e \notin Rows,
             op'[e] = [NoRow EXCEPT !.state = "READY", !.body = job[w].req.body,
                                    !.key = job[w].req.key, !.reserved = Fee[e], !.day = today]
      PROVE  RowFee(e)'
  <2>1. op'[e].reserved = Fee[e] /\ op'[e].charged = 0 /\ op'[e].state = "READY"
    BY <1>8 DEF NoRow
  <2> QED
    BY <1>1, <2>1 DEF RowFee, Terminal
<1>9. ASSUME RowChange(e)
      PROVE  \/ /\ e \in Rows /\ op'[e].reserved = op[e].reserved /\ op'[e].charged = op[e].charged
                /\ (op'[e].state = op[e].state \/ {op[e].state, op'[e].state} \cap Terminal = {})
             \/ RowFee(e)'
  <2> DEFINE Kept == /\ op'[e].reserved = op[e].reserved /\ op'[e].charged = op[e].charged
                     /\ (op'[e].state = op[e].state \/ {op[e].state, op'[e].state} \cap Terminal = {})
  <2>1. ASSUME NEW w \in Workers, Event(w) = e,
               MarkSubmitted(w) \/ MarkRetryable(w) \/ DeferReconciliation(w) \/ Rebroadcast(w)
               \/ PrepareNewTransaction(w)
        PROVE  e \in Rows
    BY <2>1 DEF MarkSubmitted, MarkRetryable, DeferReconciliation, Rebroadcast, PrepareNewTransaction, At,
       RowsFound, UsesRow, PcLabel
  <2>2. Open(e) => e \in Rows
    BY DEF Open, Rows
  <2>3. /\ Open(e) => op[e].state \notin Terminal
        /\ MayRebroadcast(e) => op[e].state \notin Terminal
        /\ Unprepared(e) => op[e].state \notin Terminal
        /\ "SUBMITTED" \notin Terminal /\ "SUBMITTING" \notin Terminal /\ "FAILED_RETRYABLE" \notin Terminal
    BY DEF Open, MayRebroadcast, Unprepared, Terminal
  <2>4. op'[e] = Retryable(op[e]) => Kept
    BY <1>1, <2>3 DEF Retryable, Row
  <2>5. MayRebroadcast(e) /\ op'[e] = Rebroadcasting(op[e]) => Kept
    BY <1>1, <2>3 DEF Rebroadcasting, MayRebroadcast, Row
  <2>6. \A n, a : Unprepared(e) /\ op'[e] = [op[e] EXCEPT !.state = "SUBMITTING", !.nonce = n,
                                               !.attempts = a, !.due = FALSE] => Kept
    BY <1>1, <2>3 DEF Row
  <2>7. /\ \A b : op'[e] = [op[e] EXCEPT !.due = b] => Kept
        /\ \A n : op'[e] = [op[e] EXCEPT !.polls = n] => Kept
    BY <1>1 DEF Row
  <2>8. op[e].state = "SUBMITTING" /\ op'[e] = [op[e] EXCEPT !.state = "SUBMITTED", !.due = FALSE] => Kept
    BY <1>1, <2>3 DEF Row
  <2> HIDE DEF Kept
  <2>9. (e \in Rows /\ Kept) \/ RowFee(e)'
    BY <1>5, <1>6, <1>7, <1>8, <1>9, <2>1, <2>2, <2>4, <2>5, <2>6, <2>7, <2>8 DEF RowChange
  <2> QED
    BY <2>9 DEF Kept
<1>10. CASE op'[e] = op[e]
  <2>1. e \in Rows
    BY <1>10 DEF Rows
  <2> QED
    BY <1>4, <1>10, <2>1
<1> QED
  BY <1>4, <1>9, <1>10, RowChanges

\* A row that has its transaction charged or given up reserves nothing later.
LEMMA ReservedStaysZero ==
  ASSUME TypeOK, [Next]_vars, NEW e \in Rows, op[e].reserved = 0
  PROVE  op'[e].reserved = 0
<1>1. op[e] \in Row
  BY TypeParts DEF RowsOK, Rows
<1>2. RowChange(e) => op'[e].reserved = 0
  BY <1>1 DEF RowChange, Retryable, Rebroadcasting, Row
<1> QED
  BY <1>2, RowChanges DEF Rows

LEMMA FeeInvInductive ==
  ASSUME TypeOK, TypeOK', TxRecorded, TxRecorded', NonceInv, OutcomeInv, OutcomeInv', RowsFound, FeeInv,
         [Next]_vars
  PROVE  FeeInv'
<1>1. FeeInOnePlace'
  <2>1. ASSUME NEW e \in Events, op'[e].state # "NONE" PROVE RowFee(e)'
    BY <2>1, RowFeeInductive
  <2> QED
    BY <2>1 DEF RowFee, FeeInOnePlace, Rows
<1>2. ASSUME NEW w \in Workers, job'[w].pc = "settle" PROVE op'[Event(w)'].reserved = 0
  <2>1. CASE job'[w] = job[w]
    <3>1. Event(w)' = Event(w) /\ Event(w) \in Rows /\ op[Event(w)].reserved = 0
      BY <1>2, <2>1 DEF Event, At, FeeInv, RowsFound, UsesRow, PcLabel
    <3> QED
      BY <3>1, ReservedStaysZero
  <2>2. CASE JobChange(w)
    <3>1. Event(w)' = Event(w) /\ RecordMinedCost(w)
      BY <1>2, <2>2 DEF JobChange, Event, UsesTx
    <3>2. Event(w) \in Rows /\ op[Event(w)] \in Row
      BY <3>1, TypeParts DEF RecordMinedCost, At, RowsFound, UsesRow, PcLabel, Rows, RowsOK
    <3>3. CASE op[Event(w)].charged > 0
      <4>1. op[Event(w)].reserved = 0
        BY <3>2, <3>3 DEF FeeInv, FeeInOnePlace, Row
      <4> QED
        BY <3>1, <3>2, <4>1, ReservedStaysZero
    <3>4. CASE ~(op[Event(w)].charged > 0)
      <4>1. op' = [op EXCEPT ![Event(w)] = [op[Event(w)] EXCEPT !.reserved = 0, !.charged = op[Event(w)].reserved]]
        BY <3>1, <3>4 DEF RecordMinedCost
      <4>2. op'[Event(w)].reserved = 0
        BY <3>2, <4>1, TypeParts DEF RowsOK, Row, Rows
      <4> QED
        BY <3>1, <4>2
    <3> QED
      BY <3>3, <3>4
  <2> QED
    BY <2>1, <2>2, JobChanges
<1>3. ASSUME NEW e \in Events, op'[e].state \in {"SUBMITTING", "SUBMITTED"} PROVE HasTx(e)'
  <2>1. op[e] \in Row
    BY TypeParts DEF RowsOK
  <2>2. HasTx(e) => HasTx(e)'
    BY NoncesStay
  <2>3. CASE op'[e] = op[e]
    BY <1>3, <2>2, <2>3 DEF FeeInv
  <2>4. ASSUME NEW w \in Workers, Event(w) = e, MarkSubmitted(w) \/ Rebroadcast(w) PROVE HasTx(e)
    BY <2>4 DEF MarkSubmitted, Rebroadcast, At, TxRecorded, UsesTx
  <2>5. ASSUME NEW w \in Workers, Event(w) = e, PrepareNewTransaction(w),
               op'[e] = [op[e] EXCEPT !.state = "SUBMITTING", !.nonce = NextNonce(w),
                                      !.attempts = op[e].attempts + 1, !.due = FALSE]
        PROVE  HasTx(e)'
    <3>1. NextNonce(w) \in Nat /\ op'[e].nonce = NextNonce(w)
      BY <2>1, <2>5, TypeParts DEF NextNonce, JobsOK, JobType, RowsOK, NoNonce, Row
    <3> QED
      BY <3>1 DEF HasTx, NoNonce
  <2>6. \A w \in Workers : Outcome(e) # op[e].state => Outcome(e) \notin {"SUBMITTING", "SUBMITTED"}
    BY DEF Outcome
  <2>7. /\ \A b \in BOOLEAN : op'[e] = [op[e] EXCEPT !.due = b] => op'[e].state = op[e].state
        /\ op'[e] = [op[e] EXCEPT !.polls = op[e].polls + 1] => op'[e].state = op[e].state
        /\ op'[e] = [op[e] EXCEPT !.reserved = 0, !.charged = op[e].reserved] =>
             op'[e].state = op[e].state
        /\ op'[e] = Retryable(op[e]) => op'[e].state = op[e].state \/ op'[e].state = "FAILED_RETRYABLE"
        /\ op'[e] = [op[e] EXCEPT !.state = Outcome(e), !.due = TRUE] => op'[e].state = Outcome(e)
        /\ op'[e] = [op[e] EXCEPT !.state = "FAILED_FINAL", !.reserved = 0, !.due = TRUE] =>
             op'[e].state = "FAILED_FINAL"
        /\ \A w \in Workers :
             op'[e] = [NoRow EXCEPT !.state = "READY", !.body = job[w].req.body, !.key = job[w].req.key,
                                    !.reserved = Fee[e], !.day = today] => op'[e].state = "READY"
    BY <2>1 DEF Row, Retryable, NoRow
  <2>8. op'[e].state = op[e].state => HasTx(e)'
    BY <1>3, <2>2 DEF FeeInv
  <2>9. RowChange(e) => HasTx(e)'
    BY <1>3, <2>2, <2>4, <2>5, <2>6, <2>7, <2>8 DEF RowChange
  <2> QED
    BY <2>3, <2>9, RowChanges
<1> QED
  BY <1>1, <1>2, <1>3 DEF FeeInv, At

\* The inductive invariant of the relay.
RelayInv == TypeOK /\ TxRecorded /\ NonceInv /\ OutcomeInv /\ RowsFound /\ FeeInv

LEMMA RelayInvInductive ==
  /\ Init => RelayInv
  /\ RelayInv /\ [Next]_vars => RelayInv'
<1>1. Init => OutcomeInv /\ RowsFound /\ FeeInv
  BY DEF Init, OutcomeInv, MinedMatches, FinalJobs, GivenUp, OutcomeIsTrue, RowsFound, UsesRow, FeeInv,
     FeeInOnePlace, Rows, At, Idle, NoRow
<1>2. RelayInv /\ [Next]_vars => RelayInv'
  BY NextTypes, TxRecordedInductive, NonceInvInductive, OutcomeInvInductive, RowsFoundInductive,
     FeeInvInductive DEF RelayInv
<1> QED
  BY InitTypes, InitNonces, <1>1, <1>2 DEF RelayInv

\* The fee of an operation is reserved or charged, never both and never lost,
\* whatever requests record the cost of the same receipt (#recordMinedCost).
THEOREM FeesCorrect == Spec => []FeeInOnePlace
<1>1. RelayInv => FeeInOnePlace
  BY DEF RelayInv, FeeInv
<1> QED
  BY RelayInvInductive, <1>1, PTL DEF Spec

\* A step of the relay from a state of its invariant.
LEMMA StepObeysTrigger ==
  ASSUME RelayInv, [Next]_vars, NEW e \in Rows
  PROVE  TriggerAllows(op[e], op'[e])
<1>1. e \in Events /\ op[e] \in Row /\ op[e].state # "NONE"
  BY TypeParts DEF Rows, RowsOK, RelayInv
<1>2. CASE op'[e] = op[e]
  BY <1>2 DEF TriggerAllows
<1>3. ASSUME NEW w \in Workers, Event(w) = e, FinalizeReceipt(w), Outcome(e) # op[e].state,
             op'[e] = [op[e] EXCEPT !.state = Outcome(e), !.due = TRUE]
      PROVE  TriggerAllows(op[e], op'[e])
  BY <1>1, <1>3 DEF TriggerAllows, Outcome, Terminal, State, Row
<1>4. ASSUME NEW w \in Workers, Event(w) = e, RecordMinedCost(w), ~(op[e].charged > 0),
             op'[e] = [op[e] EXCEPT !.reserved = 0, !.charged = op[e].reserved]
      PROVE  TriggerAllows(op[e], op'[e])
  <2>1. op[e].charged = 0
    BY <1>1, <1>4 DEF Row
  <2>2. CASE op[e].state \in Terminal
    <3>1. op[e].reserved = 0
      BY <2>2 DEF RelayInv, FeeInv, FeeInOnePlace
    <3>2. op'[e] = op[e]
      <4>1. op'[e] = [op[e] EXCEPT !.reserved = op[e].reserved, !.charged = op[e].charged]
        BY <1>4, <2>1, <3>1
      <4>2. \A row \in Row : [row EXCEPT !.reserved = row.reserved, !.charged = row.charged] = row
        BY DEF Row
      <4> QED
        BY <1>1, <4>1, <4>2
    <3> QED
      BY <1>2, <3>2
  <2>3. CASE op[e].state \notin Terminal
    BY <1>1, <1>4, <2>3 DEF TriggerAllows, Row
  <2> QED
    BY <2>2, <2>3
<1>5. ASSUME NEW w \in Workers, Event(w) = e, PrepareNewTransaction(w), Unprepared(e),
             op'[e] = [op[e] EXCEPT !.state = "SUBMITTING", !.nonce = NextNonce(w),
                                    !.attempts = op[e].attempts + 1, !.due = FALSE]
      PROVE  TriggerAllows(op[e], op'[e])
  <2>1. op[e].state \in {"READY", "FAILED_RETRYABLE"} /\ op[e].nonce = NoNonce
    BY <1>1, <1>5 DEF RelayInv, FeeInv, Unprepared, HasTx, Row, State
  <2>2. /\ op'[e].state = "SUBMITTING" /\ op'[e].body = op[e].body /\ op'[e].key = op[e].key
        /\ op'[e].day = op[e].day
    BY <1>1, <1>5 DEF Row
  <2> QED
    BY <2>1, <2>2 DEF TriggerAllows, Terminal, State
<1>6. ASSUME NEW w \in Workers, Event(w) = e, MarkExternallyAnchored(w), Unprepared(e),
             op'[e] = [op[e] EXCEPT !.state = "FAILED_FINAL", !.reserved = 0, !.due = TRUE]
      PROVE  TriggerAllows(op[e], op'[e])
  BY <1>1, <1>6 DEF TriggerAllows, Unprepared, Terminal, State, Row
<1>7. op'[e] = Retryable(op[e]) => TriggerAllows(op[e], op'[e])
  BY <1>1 DEF Retryable, TriggerAllows, Terminal, State, Row
<1>8. MayRebroadcast(e) /\ op'[e] = Rebroadcasting(op[e]) => TriggerAllows(op[e], op'[e])
  BY <1>1 DEF MayRebroadcast, Rebroadcasting, TriggerAllows, Terminal, State, Row
<1>9. op[e].state = "SUBMITTING" /\ op'[e] = [op[e] EXCEPT !.state = "SUBMITTED", !.due = FALSE]
        => TriggerAllows(op[e], op'[e])
  BY <1>1 DEF TriggerAllows, Terminal, Row
<1>10. ASSUME op[e].state \notin Terminal, NEW b \in BOOLEAN, op'[e] = [op[e] EXCEPT !.due = b]
       PROVE  TriggerAllows(op[e], op'[e])
  BY <1>1, <1>10 DEF TriggerAllows, Row
<1>11. op[e].state \notin Terminal /\ op'[e] = [op[e] EXCEPT !.polls = op[e].polls + 1]
         => TriggerAllows(op[e], op'[e])
  BY <1>1 DEF TriggerAllows, Row
<1>12. RowChange(e) => TriggerAllows(op[e], op'[e])
  BY <1>3, <1>4, <1>5, <1>6, <1>7, <1>8, <1>9, <1>10, <1>11 DEF RowChange, Open
<1> QED
  BY <1>1, <1>2, <1>12, RowChanges DEF RelayInv

\* Every UPDATE of the service is one the database trigger accepts, however old
\* the row its request read (enforce_relay_operation_update).
THEOREM UpdatesAccepted == Spec => UpdatesObeyTrigger
<1>1. RelayInv /\ [Next]_vars => [\A e \in Rows : TriggerAllows(op[e], op'[e])]_vars
  BY StepObeysTrigger
<1> QED
  BY RelayInvInductive, <1>1, PTL DEF Spec, UpdatesObeyTrigger

-----------------------------------------------------------------------------
(* Fees: while nobody else calls the contract, no transaction reverts *)

\* A row is of an event the contract has accepted or would accept now, and no two
\* rows compete for one place in a receipt. A request that is about to insert a
\* row has seen that place free; since then it can only have been taken by a row.
SamePlace(e, f) == Core[e].receiptId = Core[f].receiptId /\ Core[e].stage = Core[f].stage
AnchoredIsMined == \A e \in anchoredEvents : \E i \in DOMAIN mined : mined[i].event = e
PlacesDiffer == \A e, f \in Rows : SamePlace(e, f) => e = f
RowsReady ==
  \A e \in Rows : ValidStaticTransition(e) /\ (e \in anchoredEvents \/ ValidTransition(e))
CallersReady ==
  /\ \A w \in Workers : job[w].pc \in {"precheck", "acquire"} => ValidStaticTransition(Event(w))
  /\ \A w \in Workers : At(w, "acquire") =>
       Event(w) \in Rows \/ ValidTransition(Event(w)) \/ StageTaken(Event(w))
WasteInv == AnchoredIsMined /\ PlacesDiffer /\ RowsReady /\ CallersReady /\ NoWastedFee

\* The two checks of the relay are those of the contract.
LEMMA ReadyIsAccepted ==
  ASSUME TypeOK, NEW e \in Events, e \notin anchoredEvents, ValidStaticTransition(e), ValidTransition(e)
  PROVE  Contract!Accepts(Core[e])
<1> DEFINE c == Core[e]
<1>1. /\ c.receiptId \in ReceiptIds /\ c.eventHash = e /\ c.extensionKeyHash \in Keys
      /\ c.authorityKeyHash = Zero /\ c.stage \in {"ATTEMPTED", "SITE_CONFIRMED"}
      /\ Zero \notin ReceiptIds \cup Events \cup Keys
  BY RelayAssumption
<1>2. c.receiptId # Zero /\ c.eventHash # Zero /\ c.extensionKeyHash # Zero /\ c.eventHash \notin anchoredEvents
  BY <1>1
<1>3. Contract!ValidAuthorityKey(c.stage, c.authorityKeyHash)
  BY <1>1 DEF Contract!ValidAuthorityKey, Contract!IsTerminal
<1>4. CASE c.stage = "ATTEMPTED"
  <2>1. receipts[c.receiptId].currentStage = "NONE" /\ c.previousEventHash = Zero
    BY <1>4 DEF ValidTransition, ValidStaticTransition
  <2> QED
    BY <1>2, <1>3, <1>4, <2>1 DEF Contract!Accepts, Contract!ValidForReceipt, Contract!ValidFirst
<1>5. CASE c.stage = "SITE_CONFIRMED"
  <2> DEFINE s == receipts[c.receiptId]
  <2>1. /\ c.previousEventHash # Zero /\ s.latestEventHash = c.previousEventHash
        /\ s.currentStage = "ATTEMPTED" /\ s.extensionKeyHash = c.extensionKeyHash
    BY <1>5 DEF ValidTransition, ValidStaticTransition
  <2>2. Contract!ValidNext(s, c)
    BY <1>5, <2>1 DEF Contract!ValidNext, Contract!IsTerminal, Contract!IsValidTransition
  <2> QED
    BY <1>2, <1>3, <2>1, <2>2 DEF Contract!Accepts, Contract!ValidForReceipt
<1> QED
  BY <1>1, <1>4, <1>5

\* An event stays ready until the place it is ready for is taken.
LEMMA ReadyStays ==
  ASSUME TypeOK, NEW e \in Events, NEW f \in Events, ValidTransition(e),
         Contract!AnchorEvent(Core[f]), ~SamePlace(e, f)
  PROVE  ValidTransition(e)'
<1>1. /\ receipts \in [ReceiptIds -> Contract!ReceiptState]
      /\ Core[e].receiptId \in ReceiptIds /\ Core[f].receiptId \in ReceiptIds
      /\ Core[e].stage \in {"ATTEMPTED", "SITE_CONFIRMED"}
      /\ Core[f].stage \in {"ATTEMPTED", "SITE_CONFIRMED"}
  BY TypeParts, RelayAssumption DEF ChainOK, Contract!TypeOK
<1>2. CASE Core[e].receiptId # Core[f].receiptId
  <2>1. receipts'[Core[e].receiptId] = receipts[Core[e].receiptId]
    BY <1>1, <1>2 DEF Contract!AnchorEvent
  <2> QED
    BY <2>1 DEF ValidTransition
<1>3. CASE Core[e].receiptId = Core[f].receiptId
  <2>1. Contract!ValidForReceipt(Core[f])
    BY DEF Contract!AnchorEvent, Contract!Accepts
  <2>2. CASE Core[e].stage = "ATTEMPTED"
    <3>1. receipts[Core[f].receiptId].currentStage = "NONE"
      BY <1>3, <2>2 DEF ValidTransition
    <3>2. Core[f].stage = "ATTEMPTED"
      BY <2>1, <3>1 DEF Contract!ValidForReceipt, Contract!ValidFirst
    <3> QED
      BY <1>3, <2>2, <3>2 DEF SamePlace
  <2>3. CASE Core[e].stage = "SITE_CONFIRMED"
    <3>1. receipts[Core[f].receiptId].currentStage = "ATTEMPTED"
      BY <1>3, <2>3 DEF ValidTransition
    <3>2. Core[f].stage = "SITE_CONFIRMED"
      BY <1>1, <2>1, <3>1 DEF Contract!ValidForReceipt, Contract!ValidNext, Contract!IsValidTransition
    <3> QED
      BY <1>3, <2>3, <3>2 DEF SamePlace
  <2> QED
    BY <1>1, <2>2, <2>3
<1> QED
  BY <1>2, <1>3

\* Nothing but the insertion of its row happens to an event without one.
LEMMA OnlyInserted ==
  ASSUME TypeOK, RowsFound, [Next]_vars, NEW e \in Events, op[e].state = "NONE", op'[e] # op[e]
  PROVE  \E w \in Workers :
           /\ Event(w) = e /\ AcquireOperation(w)
           /\ op'[e] = [NoRow EXCEPT !.state = "READY", !.body = job[w].req.body, !.key = job[w].req.key,
                                     !.reserved = Fee[e], !.day = today]
<1>1. RowChange(e)
  BY RowChanges
<1>2. \A w \in Workers : Event(w) = e => job[w].pc \notin UsesRow
  BY DEF RowsFound, Rows
<1>3. ASSUME NEW w \in Workers, Event(w) = e
      PROVE  /\ ~MarkSubmitted(w) /\ ~MarkRetryable(w) /\ ~DeferReconciliation(w) /\ ~FinalizeReceipt(w)
             /\ ~Rebroadcast(w) /\ ~MarkExternallyAnchored(w) /\ ~RecordMinedCost(w)
             /\ ~PrepareNewTransaction(w)
  BY <1>2, <1>3 DEF MarkSubmitted, MarkRetryable, DeferReconciliation, FinalizeReceipt, Rebroadcast,
     MarkExternallyAnchored, RecordMinedCost, PrepareNewTransaction, UsesRow, PcLabel, At
<1>4. ~Open(e)
  BY DEF Open
<1> QED
  BY <1>1, <1>3, <1>4, Zenon DEF RowChange

\* A row is inserted by a request that found its place free, and by nothing else.
LEMMA NewRows ==
  ASSUME TypeOK, RowsFound, [Next]_vars, NEW e \in Events, op[e].state = "NONE", op'[e].state # "NONE"
  PROVE  /\ \E w \in Workers : At(w, "acquire") /\ Event(w) = e
         /\ ~StageTaken(e)
         /\ UNCHANGED registryVars
         /\ \A f \in Events \ {e} : op'[f] = op[f]
<1>1. op \in [Events -> Row] /\ e \notin Rows
  BY TypeParts DEF RowsOK, Rows
<1>2. PICK w \in Workers : Event(w) = e /\ AcquireOperation(w)
  <2>1. op'[e] # op[e]
    OBVIOUS
  <2> QED
    BY <2>1, OnlyInserted, Zenon
<1>3. At(w, "acquire") /\ UNCHANGED chainVars
  BY <1>2 DEF AcquireOperation
<1>4. /\ ~StageTaken(e)
      /\ \E row : op' = [op EXCEPT ![e] = row]
  BY <1>1, <1>2 DEF AcquireOperation, dbVars
<1> QED
  BY <1>1, <1>2, <1>3, <1>4 DEF chainVars

\* Who is about to check or to insert a row.
LEMMA CallersChecked ==
  ASSUME TypeOK, [Next]_vars, NEW v \in Workers, job'[v].pc \in {"precheck", "acquire"}
  PROVE  \/ job'[v] = job[v]
         \/ job'[v].pc = "precheck" /\ \E r \in Requests : StartRelay(v, r) /\ job'[v].req = r
         \/ /\ job'[v].pc = "acquire" /\ job'[v].req = job[v].req
            /\ Precheck(v) /\ ValidTransition(Event(v))
<1> USE TypeParts
<1>1. ASSUME NEW w \in Workers,
             \/ Return(w) \/ (\E pc \in PcLabel \ {"precheck", "acquire"} : Goto(w, pc))
             \/ \E r, allow : Reconcile(w, r, allow)
      PROVE  job'[v] = job[v]
  BY <1>1, Moves
<1>2. ASSUME NEW w \in Workers, Step(w), ~Precheck(w) PROVE job'[v] = job[v]
  <2>1. CASE ReadRow(w)
    <3>1. \/ Return(w) \/ Goto(w, "abandon") \/ Goto(w, "nonce")
          \/ job'[v] = job[v] \/ job'[v].pc = "receipt"
      BY <2>1 DEF ReadRow, JobsOK, JobType
    <3> QED
      BY <1>1, <3>1 DEF PcLabel
  <2>2. CASE ReadPendingNonce(w)
    <3>1. job'[v] = job[v] \/ job'[v].pc = "prepare"
      BY <2>2 DEF ReadPendingNonce, JobsOK, JobType
    <3> QED
      BY <3>1
  <2>3. CASE Recheck(w) \/ AcquireOperation(w)
    BY <1>1, <2>3 DEF Recheck, AcquireOperation
  <2>4. CASE FindAnchored(w) \/ MarkExternallyAnchored(w)
    BY <1>1, <2>4 DEF FindAnchored, MarkExternallyAnchored, PcLabel
  <2>5. CASE ReadReceipt(w) \/ WaitForReceipt(w)
    BY <1>1, <2>5 DEF ReadReceipt, WaitForReceipt, PcLabel
  <2>6. CASE PrepareNewTransaction(w) \/ Rebroadcast(w) \/ Broadcast(w) \/ MarkSubmitted(w)
    BY <1>1, <2>6 DEF PrepareNewTransaction, Rebroadcast, Broadcast, MarkSubmitted, PcLabel
  <2>7. CASE MarkRetryable(w) \/ DeferReconciliation(w) \/ RecordMinedCost(w) \/ FinalizeReceipt(w)
    BY <1>1, <2>7 DEF MarkRetryable, DeferReconciliation, RecordMinedCost, FinalizeReceipt, PcLabel
  <2> QED
    BY <1>2, <2>1, <2>2, <2>3, <2>4, <2>5, <2>6, <2>7 DEF Step
<1>3. ASSUME NEW w \in Workers, Precheck(w)
      PROVE  \/ job'[v] = job[v]
             \/ /\ job'[v].pc = "acquire" /\ job'[v].req = job[v].req
                /\ Precheck(v) /\ ValidTransition(Event(v))
  <2>1. \/ Return(w) \/ Goto(w, "external")
        \/ Goto(w, "acquire") /\ ValidTransition(Event(w))
    BY <1>3 DEF Precheck
  <2>2. CASE Return(w) \/ Goto(w, "external")
    BY <1>1, <2>2 DEF PcLabel
  <2>3. CASE Goto(w, "acquire") /\ ValidTransition(Event(w))
    BY <1>3, <2>3, Moves
  <2> QED
    BY <2>1, <2>2, <2>3
<1>4. ASSUME NEW w \in Workers, Fail(w) PROVE job'[v] = job[v]
  BY <1>1, <1>4 DEF Fail, RequestFails, BroadcastFails, ReconcileFails, Crash, PcLabel
<1>5. ASSUME NEW w \in Workers, NEW r \in Requests, StartRelay(w, r)
      PROVE  \/ job'[v] = job[v]
             \/ job'[v].pc = "precheck" /\ StartRelay(v, r) /\ job'[v].req = r
  <2> DEFINE pc == IF HasTx(r.event) THEN "recheck" ELSE "precheck"
             j == [Idle EXCEPT !.pc = pc, !.req = r]
  <2>1. job' = [job EXCEPT ![w] = j] /\ j.req = r /\ j.pc \in {"recheck", "precheck"}
    BY <1>5 DEF StartRelay, Idle
  <2> HIDE DEF j
  <2>2. job'[v] = job[v] \/ (v = w /\ job'[v] = j)
    BY <2>1 DEF JobsOK
  <2> QED
    BY <1>5, <2>1, <2>2
<1>6. ASSUME NEW w \in Workers, NEW e \in Polled, GetOperation(w, e) PROVE job'[v] = job[v]
  <2>1. UNCHANGED job \/ \E r : Reconcile(w, r, FALSE)
    BY <1>6 DEF GetOperation
  <2> QED
    BY <1>1, <2>1
<1>7. CASE ChainStep \/ NextDay \/ (\E tx \in pool : Evict(tx))
           \/ (\E f \in Events : AnchorExternally(f) \/ BecomeDue(f))
  BY <1>7 DEF ChainStep, Mine, Confirm, NextDay, Evict, AnchorExternally, BecomeDue
<1>8. CASE UNCHANGED vars
  BY <1>8 DEF vars
<1> QED
  BY <1>2, <1>3, <1>4, <1>5, <1>6, <1>7, <1>8 DEF Next

\* What is mined is of a row, and its event was not anchored before.
LEMMA MinesARow ==
  ASSUME TypeOK, TxRecorded, NonceInv, AnchoredIsMined, NEW tx \in pool, Mine(tx)
  PROVE  tx.event \in Rows /\ tx.event \in Events /\ tx.event \notin anchoredEvents
<1>1. /\ tx.event \in Events /\ tx.nonce \in Nat /\ tx.nonce = Len(mined)
      /\ tx.nonce = op[tx.event].nonce
  BY TypeParts, MinedChanges DEF NonceInv, OnlyDurableBroadcast, Tx
<1>2. tx.event \in Rows
  BY <1>1 DEF TxRecorded, HasTx, NoNonce, Rows
<1>3. ASSUME NEW i \in DOMAIN mined, mined[i].event = tx.event PROVE FALSE
  <2>1. op[tx.event].nonce = i - 1 /\ i \in 1..Len(mined) /\ Len(mined) \in Nat
    BY <1>3, MinedElements DEF NonceInv, OnlyDurableBroadcast
  <2> QED
    BY <1>1, <2>1
<1> QED
  BY <1>1, <1>2, <1>3 DEF AnchoredIsMined

LEMMA WasteInvInductive ==
  ASSUME "external" \notin Faults, RelayInv, RelayInv', WasteInv, [Next]_vars
  PROVE  WasteInv'
<1> USE DEF RelayInv, WasteInv
<1>1. \/ UNCHANGED registryVars
      \/ \E tx \in pool : Mine(tx) /\ tx.event \in Events /\ Contract!AnchorEvent(Core[tx.event])
  <2>1. \A e \in Events : ~AnchorExternally(e)
    BY DEF AnchorExternally, Fault
  <2> QED
    BY <2>1, RegistryCalls
<1>2. \A e \in Rows : e \in Rows' /\ e \in Events
  BY RowsStay DEF Rows
<1>3. \A e \in anchoredEvents : e \in anchoredEvents'
  BY <1>1 DEF registryVars, Contract!AnchorEvent
<1>4. \A e \in Events : StageTaken(e) => StageTaken(e)'
  BY <1>2 DEF StageTaken
<1>5. ASSUME NEW e \in Rows', e \notin Rows
      PROVE  /\ e \in Events /\ ~StageTaken(e) /\ UNCHANGED registryVars
             /\ \E w \in Workers : At(w, "acquire") /\ Event(w) = e
             /\ Rows' = Rows \cup {e}
  <2>1. e \in Events /\ op[e].state = "NONE" /\ op'[e].state # "NONE"
    BY <1>5 DEF Rows
  <2>2. \A f \in Events \ {e} : op'[f] = op[f]
    BY <2>1, NewRows
  <2>3. Rows' = Rows \cup {e}
    BY <2>1, <2>2 DEF Rows
  <2> QED
    BY <2>1, <2>3, NewRows
<1>6. AnchoredIsMined'
  <2> SUFFICES ASSUME NEW e \in anchoredEvents' PROVE \E i \in DOMAIN mined' : mined'[i].event = e
    BY DEF AnchoredIsMined
  <2>1. CASE e \in anchoredEvents
    <3>1. PICK i \in DOMAIN mined : mined[i].event = e
      BY <2>1 DEF AnchoredIsMined
    <3>2. /\ i \in 1..Len(mined) /\ Len(mined) \in Nat /\ Len(mined') \in Nat
          /\ DOMAIN mined' = 1..Len(mined')
      BY MinedElements, MinedAfter, <3>1
    <3>3. mined'[i] = mined[i] /\ Len(mined') >= Len(mined)
      BY <3>2, HistoryStays
    <3> QED
      BY <3>1, <3>2, <3>3
  <2>2. CASE e \notin anchoredEvents
    <3>1. PICK tx \in pool : Mine(tx) /\ tx.event \in Events /\ Contract!AnchorEvent(Core[tx.event])
      BY <1>1, <2>2 DEF registryVars
    <3>2. e = tx.event
      BY <2>2, <3>1, RelayAssumption DEF Contract!AnchorEvent
    <3>3. Len(mined') = Len(mined) + 1 /\ mined'[Len(mined) + 1].event = e
      BY <3>1, <3>2, MinedChanges
    <3>4. Len(mined) \in Nat /\ DOMAIN mined' = 1..Len(mined')
      BY MinedElements, MinedAfter
    <3> QED
      BY <3>3, <3>4
  <2> QED
    BY <2>1, <2>2
<1>7. PlacesDiffer'
  <2> SUFFICES ASSUME NEW e \in Rows', NEW f \in Rows', SamePlace(e, f), e # f PROVE FALSE
    BY DEF PlacesDiffer, SamePlace
  <2>1. e \notin Rows \/ f \notin Rows
    BY DEF PlacesDiffer
  <2>2. CASE e \notin Rows
    BY <1>5, <2>2 DEF StageTaken, SamePlace
  <2>3. CASE f \notin Rows
    BY <1>5, <2>3 DEF StageTaken, SamePlace
  <2> QED
    BY <2>1, <2>2, <2>3
<1>8. ASSUME NEW e \in Events, ValidTransition(e)
      PROVE  ValidTransition(e)' \/ e \in Rows \/ StageTaken(e)
  <2>1. CASE UNCHANGED registryVars
    BY <1>8, <2>1 DEF registryVars, ValidTransition
  <2>2. ASSUME NEW tx \in pool, Mine(tx), tx.event \in Events, Contract!AnchorEvent(Core[tx.event])
        PROVE  ValidTransition(e)' \/ e \in Rows \/ StageTaken(e)
    <3>1. tx.event \in Rows
      BY <2>2, MinesARow
    <3>2. ~SamePlace(e, tx.event) => ValidTransition(e)'
      BY <1>8, <2>2, ReadyStays
    <3> QED
      BY <3>1, <3>2 DEF SamePlace, StageTaken
  <2> QED
    BY <1>1, <2>1, <2>2
<1>9. RowsReady'
  <2> SUFFICES ASSUME NEW e \in Rows'
               PROVE  ValidStaticTransition(e) /\ (e \in anchoredEvents' \/ ValidTransition(e)')
    BY DEF RowsReady, ValidStaticTransition
  <2>1. CASE e \notin Rows
    <3>1. PICK w \in Workers : At(w, "acquire") /\ Event(w) = e
      BY <1>5, <2>1
    <3>2. ValidStaticTransition(e) /\ ValidTransition(e)
      BY <1>5, <2>1, <3>1 DEF CallersReady, At
    <3> QED
      BY <1>5, <2>1, <3>2 DEF registryVars, ValidTransition
  <2>2. CASE e \in Rows /\ e \in anchoredEvents
    BY <1>3, <2>2 DEF RowsReady
  <2>3. CASE e \in Rows /\ e \notin anchoredEvents
    <3>1. e \in Events /\ ValidStaticTransition(e) /\ ValidTransition(e)
      BY <1>2, <2>3 DEF RowsReady
    <3>2. CASE UNCHANGED registryVars
      BY <3>1, <3>2 DEF registryVars, ValidTransition
    <3>3. ASSUME NEW tx \in pool, Mine(tx), tx.event \in Events, Contract!AnchorEvent(Core[tx.event])
          PROVE  e \in anchoredEvents' \/ ValidTransition(e)'
      <4>1. tx.event \in Rows
        BY <3>3, MinesARow
      <4>2. CASE SamePlace(e, tx.event)
        <5>1. e = tx.event
          BY <2>3, <4>1, <4>2 DEF PlacesDiffer
        <5> QED
          BY <3>3, <5>1, RelayAssumption DEF Contract!AnchorEvent
      <4>3. CASE ~SamePlace(e, tx.event)
        BY <3>1, <3>3, <4>3, ReadyStays
      <4> QED
        BY <4>2, <4>3
    <3> QED
      BY <1>1, <3>1, <3>2, <3>3
  <2> QED
    BY <2>1, <2>2, <2>3
<1>10. CallersReady'
  <2>1. ASSUME NEW v \in Workers, job'[v].pc \in {"precheck", "acquire"}
        PROVE  /\ ValidStaticTransition(Event(v))'
               /\ At(v, "acquire")' => (Event(v) \in Rows \/ ValidTransition(Event(v)) \/ StageTaken(Event(v)))'
    <3>1. CASE job'[v] = job[v]
      <4>1. Event(v)' = Event(v) /\ Event(v) \in Events /\ ValidStaticTransition(Event(v))
        BY <2>1, <3>1, TypeParts, RunningEvent DEF Event, At, CallersReady
      <4>2. At(v, "acquire")' => At(v, "acquire")
        BY <3>1 DEF At
      <4>3. At(v, "acquire") => Event(v) \in Rows \/ ValidTransition(Event(v)) \/ StageTaken(Event(v))
        BY DEF CallersReady
      <4> DEFINE e == Event(v)
      <4>4. At(v, "acquire") => e \in Rows' \/ ValidTransition(e)' \/ StageTaken(e)'
        BY <1>2, <1>4, <1>8, <4>1, <4>3
      <4> QED
        BY <4>1, <4>2, <4>4 DEF ValidStaticTransition, ValidTransition, StageTaken
    <3>2. ASSUME job'[v].pc = "precheck", NEW r \in Requests, StartRelay(v, r), job'[v].req = r
          PROVE  ValidStaticTransition(Event(v))' /\ ~At(v, "acquire")'
      BY <3>2 DEF StartRelay, ValidStaticTransition, Event, At
    <3>3. CASE job'[v].req = job[v].req /\ Precheck(v) /\ ValidTransition(Event(v))
      <4>1. Event(v)' = Event(v) /\ ValidStaticTransition(Event(v)) /\ UNCHANGED chainVars
        BY <3>3 DEF Precheck, Event, At, CallersReady
      <4> QED
        BY <3>3, <4>1 DEF ValidStaticTransition, ValidTransition, chainVars, registryVars
    <3> QED
      BY <2>1, <3>1, <3>2, <3>3, CallersChecked
  <2> QED
    BY <2>1 DEF CallersReady, At
<1>11. NoWastedFee'
  <2>1. CASE mined' = mined
    BY <2>1 DEF NoWastedFee
  <2>2. ASSUME NEW tx \in pool, Mine(tx) PROVE NoWastedFee'
    <3>1. tx.event \in Rows /\ tx.event \in Events /\ tx.event \notin anchoredEvents
      BY <2>2, MinesARow
    <3>2. Contract!Accepts(Core[tx.event])
      BY <3>1, ReadyIsAccepted DEF RowsReady
    <3>3. /\ Len(mined') = Len(mined) + 1
          /\ mined'[Len(mined) + 1].ok
          /\ \A i \in 1..Len(mined) : mined'[i] = mined[i]
      BY <2>2, <3>2, MinedChanges
    <3>4. Len(mined) \in Nat /\ DOMAIN mined = 1..Len(mined) /\ DOMAIN mined' = 1..Len(mined')
      BY MinedElements, MinedAfter
    <3> QED
      BY <3>3, <3>4 DEF NoWastedFee
  <2> QED
    BY <2>1, <2>2, ChainChanges
<1> QED
  BY <1>6, <1>7, <1>9, <1>10, <1>11

LEMMA WasteInvInitial == Init => WasteInv
BY DEF Init, WasteInv, AnchoredIsMined, PlacesDiffer, RowsReady, CallersReady, NoWastedFee, Rows, NoRow,
   At, Idle, Contract!Init

\* While nobody else calls the contract no transaction of the relay reverts: the
\* contract's state that #validateTransition read is old when the row is inserted
\* and older when the transaction is mined, but only a row of the same place in
\* the receipt could have changed it, and the table holds one.
THEOREM NoFeeWasted ==
  ASSUME "external" \notin Faults
  PROVE  Spec => []NoWastedFee
<1>1. Init => WasteInv
  BY WasteInvInitial
<1>2. RelayInv /\ WasteInv /\ [Next]_vars => (RelayInv /\ WasteInv)'
  BY RelayInvInductive, WasteInvInductive
<1>3. WasteInv => NoWastedFee
  BY DEF WasteInv
<1> QED
  BY RelayInvInductive, <1>1, <1>2, <1>3, PTL DEF Spec

-----------------------------------------------------------------------------
(* The refinement: the relay implements RelayOperation *)

IsPost(w) == job[w].req.body # NoKey

\* Where only a POST gets: before #reconcile, and where it prepares or broadcasts.
PostPc ==
  {"recheck", "precheck", "external", "markExternal", "acquire", "nonce", "prepare", "rebroadcast",
   "broadcast", "submitted", "wait", "abandon"}
Posting(j) == j.pc \in PostPc \/ j.allow

\* What a request knows by the place it is at: that it may broadcast only as a
\* POST, that a GET gives up only an operation with a transaction, and that the
\* event it found anchored is.
Known(w) ==
  /\ Posting(job[w]) => IsPost(w)
  /\ At(w, "retryable") => IsPost(w) \/ HasTx(Event(w))
  /\ job[w].pc \in {"external", "markExternal"} => Event(w) \in anchoredEvents
ViewInv ==
  /\ \A w \in Workers : ~At(w, "idle") => Known(w)
  /\ \A e \in Events : op[e].state = "NONE" => op[e] = NoRow

\* How a running request goes on.
Moved(j, k) ==
  /\ k.req = j.req /\ k.pc # "idle"
  /\ Posting(k) => Posting(j)
  /\ k.pc = "retryable" => j.pc \in PostPc \cup UsesTx
  /\ k.pc \in {"external", "markExternal"} =>
       j.req.event \in anchoredEvents \/ j.pc \in {"external", "markExternal"}

\* A step of a request, or its failure, moves no other request.
LEMMA RequestMoves ==
  ASSUME TypeOK, NEW w \in Workers, Step(w) \/ Fail(w)
  PROVE  /\ ~At(w, "idle")
         /\ \A v \in Workers \ {w} : job'[v] = job[v]
         /\ job'[w] = Idle \/ Moved(job[w], job'[w])
<1> USE TypeParts
<1>1. job \in [Workers -> JobType] /\ job[w] \in JobType
  BY DEF JobsOK
<1> DEFINE Goes == (\A v \in Workers \ {w} : job'[v] = job[v]) /\ (job'[w] = Idle \/ Moved(job[w], job'[w]))
<1>2. ASSUME NEW k, job' = [job EXCEPT ![w] = k], k = Idle \/ Moved(job[w], k) PROVE Goes
  <2>1. job'[w] = k /\ \A v \in Workers \ {w} : job'[v] = job[v]
    BY <1>1, <1>2
  <2> QED
    BY <1>2, <2>1 DEF Moved
<1>3. ~At(w, "idle")
  <2>1. CASE Fail(w)
    BY <2>1 DEF Fail, RequestFails, BroadcastFails, ReconcileFails, Crash, At
  <2>2. CASE Recheck(w) \/ Precheck(w) \/ FindAnchored(w) \/ MarkExternallyAnchored(w) \/ AcquireOperation(w)
    BY <2>2 DEF Recheck, Precheck, FindAnchored, MarkExternallyAnchored, AcquireOperation, At
  <2>3. CASE ReadRow(w) \/ ReadReceipt(w) \/ ReadPendingNonce(w) \/ PrepareNewTransaction(w) \/ Rebroadcast(w)
    BY <2>3 DEF ReadRow, ReadReceipt, ReadPendingNonce, PrepareNewTransaction, Rebroadcast, At
  <2>4. CASE \/ Broadcast(w) \/ MarkSubmitted(w) \/ WaitForReceipt(w) \/ MarkRetryable(w)
             \/ DeferReconciliation(w) \/ RecordMinedCost(w) \/ FinalizeReceipt(w)
    BY <2>4 DEF Broadcast, MarkSubmitted, WaitForReceipt, MarkRetryable, DeferReconciliation, RecordMinedCost,
       FinalizeReceipt, At
  <2> QED
    BY <2>1, <2>2, <2>3, <2>4 DEF Step
<1> SUFFICES Goes
  BY <1>3
<1> HIDE DEF Goes
<1>4. Return(w) => Goes
  BY <1>2 DEF Return
<1>5. ASSUME NEW pc, Goto(w, pc), pc # "idle",
             pc \in PostPc => Posting(job[w]),
             pc = "retryable" => job[w].pc \in PostPc \cup UsesTx,
             pc \in {"external", "markExternal"} => Event(w) \in anchoredEvents \/ At(w, "external")
      PROVE  Goes
  <2> DEFINE k == [Idle EXCEPT !.pc = pc, !.req = job[w].req]
  <2>1. k.pc = pc /\ k.req = job[w].req /\ k.allow = FALSE
    BY DEF Idle
  <2>2. Moved(job[w], k)
    BY <1>5, <2>1 DEF Moved, Posting, Event, At
  <2> QED
    BY <1>2, <1>5, <2>2 DEF Goto
<1>6. ASSUME NEW b, Reconcile(w, job[w].req, b), b => Posting(job[w]) PROVE Goes
  <2> DEFINE k == [Idle EXCEPT !.pc = "reconcile", !.req = job[w].req, !.allow = b]
  <2>1. k.pc = "reconcile" /\ k.req = job[w].req /\ k.allow = b
    BY DEF Idle
  <2>2. Moved(job[w], k)
    BY <1>6, <2>1 DEF Moved, Posting, PostPc
  <2> QED
    BY <1>2, <1>6, <2>2 DEF Reconcile
<1> USE DEF At
<1>7. CASE Recheck(w) \/ Precheck(w) \/ FindAnchored(w) \/ MarkExternallyAnchored(w)
  <2>1. CASE Recheck(w)
    BY <1>6, <2>1 DEF Recheck, Posting, PostPc
  <2>2. CASE Precheck(w)
    BY <1>4, <1>5, <2>2 DEF Precheck, Posting, PostPc
  <2>3. CASE FindAnchored(w)
    BY <1>4, <1>5, <1>6, <2>3 DEF FindAnchored, Posting, PostPc
  <2> QED
    BY <1>4, <1>7, <2>1, <2>2, <2>3 DEF MarkExternallyAnchored
<1>8. CASE AcquireOperation(w)
  BY <1>4, <1>6, <1>8 DEF AcquireOperation, Posting, PostPc
<1>9. CASE ReadRow(w)
  <2>1. \/ Return(w)
        \/ (Goto(w, "abandon") \/ Goto(w, "nonce")) /\ job[w].allow
        \/ job' = [job EXCEPT ![w].pc = "receipt",
                              ![w].row = [state |-> op[Event(w)].state, attempts |-> op[Event(w)].attempts]]
    BY <1>9 DEF ReadRow
  <2>2. CASE (Goto(w, "abandon") \/ Goto(w, "nonce")) /\ job[w].allow
    BY <1>5, <2>2 DEF Posting, PostPc
  <2>3. CASE job' = [job EXCEPT ![w].pc = "receipt",
                       ![w].row = [state |-> op[Event(w)].state, attempts |-> op[Event(w)].attempts]]
    <3>1. /\ \A v \in Workers \ {w} : job'[v] = job[v]
          /\ job'[w].pc = "receipt" /\ job'[w].req = job[w].req /\ job'[w].allow = job[w].allow
      BY <1>1, <2>3 DEF JobType
    <3> QED
      BY <3>1 DEF Goes, Moved, Posting, PostPc
  <2> QED
    BY <1>4, <2>1, <2>2, <2>3
<1>10. CASE ReadPendingNonce(w)
  <2>1. /\ \A v \in Workers \ {w} : job'[v] = job[v]
        /\ job'[w].pc = "prepare" /\ job'[w].req = job[w].req /\ job[w].pc = "nonce"
    BY <1>1, <1>10 DEF ReadPendingNonce, JobType
  <2> QED
    BY <2>1 DEF Goes, Moved, Posting, PostPc
<1>11. CASE ReadReceipt(w) \/ WaitForReceipt(w)
  BY <1>4, <1>5, <1>11 DEF ReadReceipt, WaitForReceipt, Posting, PostPc, UsesTx
<1>12. CASE PrepareNewTransaction(w) \/ Rebroadcast(w) \/ Broadcast(w) \/ MarkSubmitted(w)
  BY <1>4, <1>5, <1>12 DEF PrepareNewTransaction, Rebroadcast, Broadcast, MarkSubmitted, Posting, PostPc
<1>13. CASE MarkRetryable(w) \/ DeferReconciliation(w) \/ RecordMinedCost(w) \/ FinalizeReceipt(w)
  BY <1>4, <1>5, <1>13 DEF MarkRetryable, DeferReconciliation, RecordMinedCost, FinalizeReceipt, PostPc
<1>14. CASE Fail(w)
  BY <1>4, <1>5, <1>14 DEF Fail, RequestFails, BroadcastFails, ReconcileFails, Crash, PostPc, UsesTx
<1> QED
  BY <1>7, <1>8, <1>9, <1>10, <1>11, <1>12, <1>13, <1>14 DEF Step

LEMMA ViewInvInductive ==
  ASSUME RelayInv, RelayInv', ViewInv, [Next]_vars
  PROVE  ViewInv'
<1> USE DEF RelayInv
<1> USE TypeParts
<1>1. ASSUME NEW e \in Events, op'[e].state = "NONE" PROVE op'[e] = NoRow
  <2>1. op[e].state = "NONE"
    BY <1>1, RowsStay
  <2>2. op'[e] # op[e] => op'[e].state = "READY"
    <3> SUFFICES ASSUME op'[e] # op[e] PROVE op'[e].state = "READY"
      OBVIOUS
    <3>1. PICK w \in Workers :
            op'[e] = [NoRow EXCEPT !.state = "READY", !.body = job[w].req.body, !.key = job[w].req.key,
                                   !.reserved = Fee[e], !.day = today]
      BY <2>1, OnlyInserted, Zenon
    <3> QED
      BY <3>1 DEF NoRow
  <2> QED
    BY <1>1, <2>1, <2>2 DEF ViewInv
<1>2. ASSUME NEW e \in Events PROVE (HasTx(e) => HasTx(e)') /\ (e \in anchoredEvents => e \in anchoredEvents')
  <2>1. HasTx(e) => HasTx(e)'
    BY NoncesStay
  <2>2. e \in anchoredEvents => e \in anchoredEvents'
    BY RegistryChanges DEF registryVars, Contract!AnchorEvent
  <2> QED
    BY <2>1, <2>2
<1>3. ASSUME NEW w \in Workers, ~At(w, "idle")', job'[w] = job[w] PROVE Known(w)'
  <2>1. Known(w) /\ Event(w) \in Events
    BY <1>3, RunningEvent DEF ViewInv, At
  <2>2. /\ Event(w)' = Event(w) /\ IsPost(w)' = IsPost(w) /\ Posting(job[w])' = Posting(job[w])
        /\ job'[w].pc = job[w].pc
    BY <1>3 DEF Event, IsPost, Posting
  <2> DEFINE e == Event(w)
  <2>3. (HasTx(e) => HasTx(Event(w))') /\ (e \in anchoredEvents => e \in anchoredEvents')
    BY <1>2, <2>1, <2>2 DEF HasTx
  <2> QED
    BY <2>1, <2>2, <2>3 DEF Known, At
<1>4. ASSUME NEW w \in Workers, Step(w) \/ Fail(w), job'[w] # Idle PROVE Known(w)'
  <2>1. ~At(w, "idle") /\ Moved(job[w], job'[w])
    BY <1>4, RequestMoves
  <2>2. Known(w) /\ Event(w) \in Events
    BY <2>1, RunningEvent DEF ViewInv
  <2> DEFINE e == Event(w)
  <2>3. /\ Event(w)' = e /\ (IsPost(w)' <=> IsPost(w))
        /\ (HasTx(e) => HasTx(Event(w))') /\ (e \in anchoredEvents => Event(w)' \in anchoredEvents')
    BY <1>2, <2>1, <2>2 DEF Moved, Event, IsPost, HasTx
  <2>4. Posting(job'[w]) => IsPost(w)'
    BY <2>1, <2>2, <2>3 DEF Moved, Known
  <2>5. job'[w].pc = "retryable" => IsPost(w)' \/ HasTx(Event(w))'
    <3>1. job[w].pc \in PostPc => IsPost(w)
      BY <2>2 DEF Known, Posting
    <3>2. job[w].pc \in UsesTx => HasTx(e)
      BY DEF TxRecorded
    <3> QED
      BY <2>1, <2>3, <3>1, <3>2 DEF Moved
  <2>6. job'[w].pc \in {"external", "markExternal"} => Event(w)' \in anchoredEvents'
    BY <2>1, <2>2, <2>3 DEF Moved, Known, Event
  <2> QED
    BY <2>4, <2>5, <2>6 DEF Known, At
<1>5. ASSUME NEW w \in Workers, ~At(w, "idle")' PROVE Known(w)'
  <2>1. ASSUME NEW v \in Workers, Step(v) \/ Fail(v) PROVE Known(w)'
    <3>1. w # v => job'[w] = job[w]
      BY <2>1, RequestMoves
    <3>2. job'[w] # Idle
      BY <1>5 DEF At, Idle
    <3> QED
      BY <1>3, <1>4, <1>5, <2>1, <3>1, <3>2
  <2>2. ASSUME NEW v \in Workers, NEW r \in Requests, StartRelay(v, r) PROVE Known(w)'
    <3> DEFINE pc == IF HasTx(r.event) THEN "recheck" ELSE "precheck"
               j == [Idle EXCEPT !.pc = pc, !.req = r]
    <3>1. job' = [job EXCEPT ![v] = j] /\ j.req = r /\ j.pc \in {"recheck", "precheck"}
      BY <2>2 DEF StartRelay, Idle
    <3> HIDE DEF j
    <3>2. job'[w] = job[w] \/ job'[w] = j
      BY <3>1 DEF JobsOK
    <3>3. job'[w] = j => Known(w)'
      BY <3>1, RelayAssumption DEF Known, IsPost, At
    <3> QED
      BY <1>3, <1>5, <3>2, <3>3
  <2>3. ASSUME NEW v \in Workers, NEW e \in Polled, GetOperation(v, e) PROVE Known(w)'
    <3> DEFINE j == [Idle EXCEPT !.pc = "reconcile", !.req = [event |-> e, body |-> NoKey, key |-> NoKey],
                                 !.allow = FALSE]
    <3>1. job' = job \/ job' = [job EXCEPT ![v] = j]
      BY <2>3 DEF GetOperation, Reconcile
    <3>2. j.pc = "reconcile" /\ ~j.allow
      BY DEF Idle
    <3> HIDE DEF j
    <3>3. job'[w] = job[w] \/ job'[w] = j
      BY <3>1 DEF JobsOK
    <3>4. job'[w] = j => Known(w)'
      BY <3>2 DEF Known, Posting, PostPc, At
    <3> QED
      BY <1>3, <1>5, <3>3, <3>4
  <2>4. CASE ChainStep \/ NextDay \/ (\E tx \in pool : Evict(tx))
             \/ (\E f \in Events : AnchorExternally(f) \/ BecomeDue(f))
    <3>1. job' = job
      BY <2>4 DEF ChainStep, Mine, Confirm, NextDay, Evict, AnchorExternally, BecomeDue
    <3> QED
      BY <1>3, <1>5, <3>1
  <2>5. CASE UNCHANGED vars
    BY <1>3, <1>5, <2>5 DEF vars
  <2> QED
    BY <2>1, <2>2, <2>3, <2>4, <2>5 DEF Next
<1> QED
  BY <1>1, <1>5 DEF ViewInv

\* How an operation looks, part by part.
TxOf(e) ==
  IF ~HasTx(e) THEN "none" ELSE IF IsFinal(Tx(e)) THEN "final"
  ELSE IF IsMined(Tx(e)) THEN "mined" ELSE IF Tx(e) \in pool THEN "pending" ELSE "lost"
ByOf(e) ==
  IF e \notin anchoredEvents THEN "nobody"
  ELSE IF IsMined(Tx(e)) /\ mined[op[e].nonce + 1].ok THEN "relay" ELSE "other"
Look(row, tx, by, posting, sending, asking, polls) ==
  [row |-> row, tx |-> tx, by |-> by, posting |-> posting, sending |-> sending, asking |-> asking,
   polls |-> polls]
View == [e \in Events |-> Shown(e)]

LEMMA ShownParts ==
  ASSUME NEW e \in Events
  PROVE  /\ View[e] = Shown(e)
         /\ Shown(e) = Look(op[e].state, TxOf(e), ByOf(e), InFlight(e, TRUE), Sending(e), InFlight(e, FALSE), op[e].polls)
<1>1. View[e] = Shown(e)
  BY DEF View
<1>2. Tx(e).nonce = op[e].nonce
  BY DEF Tx
<1> QED
  BY <1>1, <1>2 DEF Shown, Look, TxOf, ByOf

LEMMA ShownAfter ==
  ASSUME NEW e \in Events
  PROVE  Shown(e)' = Look(op'[e].state, TxOf(e)', ByOf(e)', InFlight(e, TRUE)', Sending(e)', InFlight(e, FALSE)', op'[e].polls)
<1>1. Tx(e)'.nonce = op'[e].nonce
  BY DEF Tx
<1> QED
  BY <1>1 DEF Shown, Look, TxOf, ByOf

\* A request may end in a step of its own.
LEMMA Closes ==
  ASSUME NEW row, NEW tx, NEW by, NEW polls, NEW p, NEW s, NEW a,
         NEW q \in {FALSE, p}, NEW t \in {FALSE, s}, NEW b \in {FALSE, a},
         NEW r, r = Look(row, tx, by, p, s, a, polls)
  PROVE  Look(row, tx, by, q, t, b, polls) \in Operation!Closing(r)
<1>1. r.posting = p /\ r.sending = s /\ r.asking = a
  BY DEF Look
<1>2. PICK u : u = [r EXCEPT !.posting = q]
  OBVIOUS
<1>3. u = Look(row, tx, by, q, s, a, polls)
  BY <1>2 DEF Look
<1>4. PICK v : v = [u EXCEPT !.sending = t]
  OBVIOUS
<1>5. v = Look(row, tx, by, q, t, a, polls)
  BY <1>3, <1>4 DEF Look
<1>6. [v EXCEPT !.asking = b] = Look(row, tx, by, q, t, b, polls)
  BY <1>5 DEF Look
<1>7. [r EXCEPT !.posting = q, !.sending = t, !.asking = b] = [v EXCEPT !.asking = b]
  BY <1>2, <1>4, Zenon
<1> DEFINE Ended(x, y, z) == [r EXCEPT !.posting = x, !.sending = y, !.asking = z]
           Posts == {FALSE, r.posting}
           Sends == {FALSE, r.sending}
           Asks == {FALSE, r.asking}
<1>8. Operation!Closing(r) = {Ended(x, y, z) : x \in Posts, y \in Sends, z \in Asks}
  BY DEF Operation!Closing
<1>9. Look(row, tx, by, q, t, b, polls) = Ended(q, t, b)
  BY <1>6, <1>7
<1>10. q \in Posts /\ t \in Sends /\ b \in Asks
  BY <1>1
<1> HIDE DEF Ended, Posts, Sends, Asks
<1> QED
  BY <1>8, <1>9, <1>10

LEMMA OnlyEnds ==
  ASSUME NEW p \in BOOLEAN, NEW q \in BOOLEAN, q => p
  PROVE  q \in {FALSE, p}
<1>1. CASE q = FALSE
  BY <1>1
<1>2. CASE q = TRUE
  BY <1>2
<1> QED
  BY <1>1, <1>2

\* What a step of a request leaves alone.
LEMMA RequestKeeps ==
  ASSUME RelayInv, ViewInv, NEW w \in Workers, Step(w) \/ Fail(w)
  PROVE  /\ UNCHANGED <<mined, final, registryVars>>
         /\ \A f \in Events \ {Event(w)} : op'[f] = op[f]
         /\ \/ pool' = pool
            \/ (Broadcast(w) \/ BroadcastFails(w)) /\ ~IsMined(Tx(Event(w))) /\ pool' = pool \cup {Tx(Event(w))}
<1> USE DEF RelayInv
<1>1. op \in [Events -> Row]
  BY TypeParts DEF RowsOK
<1>2. ASSUME NEW row, op' = [op EXCEPT ![Event(w)] = row] PROVE \A f \in Events \ {Event(w)} : op'[f] = op[f]
  BY <1>1, <1>2
<1>3. CASE Recheck(w) \/ Precheck(w) \/ FindAnchored(w) \/ ReadRow(w) \/ ReadReceipt(w)
  BY <1>3 DEF Recheck, Precheck, FindAnchored, ReadRow, ReadReceipt, dbVars, chainVars
<1>4. CASE ReadPendingNonce(w) \/ WaitForReceipt(w)
  BY <1>4 DEF ReadPendingNonce, WaitForReceipt, dbVars, chainVars
<1>5. CASE MarkExternallyAnchored(w)
  BY <1>2, <1>5 DEF MarkExternallyAnchored, chainVars
<1>6. CASE AcquireOperation(w)
  BY <1>2, <1>6 DEF AcquireOperation, dbVars, chainVars
<1>7. CASE PrepareNewTransaction(w)
  BY <1>2, <1>7 DEF PrepareNewTransaction, chainVars
<1>8. CASE Rebroadcast(w)
  BY <1>2, <1>8 DEF Rebroadcast, chainVars
<1>9. CASE MarkSubmitted(w)
  BY <1>2, <1>9 DEF MarkSubmitted, chainVars
<1>10. CASE MarkRetryable(w)
  BY <1>2, <1>10 DEF MarkRetryable, chainVars
<1>11. CASE DeferReconciliation(w)
  BY <1>2, <1>11 DEF DeferReconciliation, chainVars
<1>12. CASE RecordMinedCost(w)
  BY <1>2, <1>12 DEF RecordMinedCost, chainVars
<1>13. CASE FinalizeReceipt(w)
  BY <1>2, <1>13 DEF FinalizeReceipt, chainVars
<1>14. CASE Broadcast(w)
  BY <1>14 DEF Broadcast, dbVars, Visible
<1>15. CASE BroadcastFails(w)
  BY <1>15 DEF BroadcastFails, dbVars
<1>16. CASE RequestFails(w) \/ ReconcileFails(w) \/ Crash(w)
  BY <1>16 DEF RequestFails, ReconcileFails, Crash, dbVars, chainVars
<1> QED
  BY <1>3, <1>4, <1>5, <1>6, <1>7, <1>8, <1>9, <1>10, <1>11, <1>12, <1>13, <1>14, <1>15, <1>16 DEF Step, Fail

\* The polls are counted by GETs alone.
LEMMA RequestCountsNoPoll ==
  ASSUME RelayInv, ViewInv, NEW w \in Workers, Step(w) \/ Fail(w)
  PROVE  op'[Event(w)].polls = op[Event(w)].polls
<1> DEFINE e == Event(w)
<1> USE DEF RelayInv
<1>1. ~At(w, "idle") /\ e \in Events
  BY RequestMoves, RunningEvent, TypeParts
<1>2. op \in [Events -> Row] /\ op[e] \in Row
  BY <1>1, TypeParts DEF RowsOK
<1> HIDE DEF e
<1>3. CASE op' = op
  BY <1>3
<1>4. CASE \E row : op' = [op EXCEPT ![e] = row] /\ row.polls = op[e].polls
  BY <1>1, <1>2, <1>4
<1>5. CASE MarkExternallyAnchored(w)
  <2>1. [op[e] EXCEPT !.state = "FAILED_FINAL", !.reserved = 0, !.due = TRUE].polls = op[e].polls
    BY <1>2 DEF Row
  <2> QED
    BY <1>3, <1>4, <1>5, <2>1 DEF MarkExternallyAnchored, e
<1>6. CASE AcquireOperation(w)
  <2> DEFINE row == [NoRow EXCEPT !.state = "READY", !.body = job[w].req.body, !.key = job[w].req.key,
                                  !.reserved = Fee[e], !.day = today]
  <2>1. row.polls = NoRow.polls
    BY DEF NoRow
  <2>2. op' = op \/ (e \notin Rows /\ op' = [op EXCEPT ![e] = row])
    BY <1>6 DEF AcquireOperation, dbVars, e
  <2>3. e \notin Rows => op[e] = NoRow
    BY <1>1 DEF Rows, ViewInv
  <2> HIDE DEF row
  <2> QED
    BY <1>3, <1>4, <2>1, <2>2, <2>3
<1>7. CASE PrepareNewTransaction(w)
  <2>1. [op[e] EXCEPT !.state = "SUBMITTING", !.nonce = NextNonce(w), !.attempts = op[e].attempts + 1,
                      !.due = FALSE].polls = op[e].polls
    BY <1>2 DEF Row
  <2> QED
    BY <1>3, <1>4, <1>7, <2>1 DEF PrepareNewTransaction, e
<1>8. CASE Rebroadcast(w)
  <2>1. Rebroadcasting(op[e]).polls = op[e].polls
    BY <1>2 DEF Row, Rebroadcasting
  <2> QED
    BY <1>3, <1>4, <1>8, <2>1 DEF Rebroadcast, e
<1>9. CASE MarkSubmitted(w)
  <2>1. [op[e] EXCEPT !.state = "SUBMITTED", !.due = FALSE].polls = op[e].polls
    BY <1>2 DEF Row
  <2> QED
    BY <1>3, <1>4, <1>9, <2>1 DEF MarkSubmitted, e
<1>10. CASE MarkRetryable(w)
  <2>1. Retryable(op[e]).polls = op[e].polls
    BY <1>2 DEF Row, Retryable
  <2> QED
    BY <1>4, <1>10, <2>1 DEF MarkRetryable, e
<1>11. CASE DeferReconciliation(w)
  <2>1. [op[e] EXCEPT !.due = FALSE].polls = op[e].polls
    BY <1>2 DEF Row
  <2> QED
    BY <1>3, <1>4, <1>11, <2>1 DEF DeferReconciliation, e
<1>12. CASE RecordMinedCost(w)
  <2>1. [op[e] EXCEPT !.reserved = 0, !.charged = op[e].reserved].polls = op[e].polls
    BY <1>2 DEF Row
  <2> QED
    BY <1>3, <1>4, <1>12, <2>1 DEF RecordMinedCost, e
<1>13. CASE FinalizeReceipt(w)
  <2>1. [op[e] EXCEPT !.state = Outcome(e), !.due = TRUE].polls = op[e].polls
    BY <1>2 DEF Row
  <2> QED
    BY <1>3, <1>4, <1>13, <2>1 DEF FinalizeReceipt, e
<1>14. CASE \/ Recheck(w) \/ Precheck(w) \/ FindAnchored(w) \/ ReadRow(w) \/ ReadReceipt(w)
            \/ ReadPendingNonce(w) \/ WaitForReceipt(w) \/ Broadcast(w) \/ Fail(w)
  <2>1. op' = op
    BY <1>14 DEF Recheck, Precheck, FindAnchored, ReadRow, ReadReceipt, ReadPendingNonce, WaitForReceipt,
       Broadcast, Fail, BroadcastFails, RequestFails, ReconcileFails, Crash, dbVars
  <2> QED
    BY <1>3, <2>1
<1> QED
  BY <1>5, <1>6, <1>7, <1>8, <1>9, <1>10, <1>11, <1>12, <1>13, <1>14 DEF Step, e

\* Requests in flight only end by their own steps, and other events see nothing of it.
LEMMA RequestFlights ==
  ASSUME RelayInv, NEW w \in Workers, Step(w) \/ Fail(w), NEW f \in Events
  PROVE  /\ InFlight(f, TRUE)' \in {FALSE, InFlight(f, TRUE)}
         /\ InFlight(f, FALSE)' \in {FALSE, InFlight(f, FALSE)}
         /\ f # Event(w) => InFlight(f, TRUE)' = InFlight(f, TRUE) /\ InFlight(f, FALSE)' = InFlight(f, FALSE)
<1> USE DEF RelayInv
<1> DEFINE Flies(j, b) == j.pc # "idle" /\ j.req.event = f /\ (j.req.body # NoKey) = b
           Flight(b) == \E v \in Workers : Flies(job[v], b)
           FlightAfter(b) == \E v \in Workers : Flies(job'[v], b)
<1>1. /\ InFlight(f, TRUE) = Flight(TRUE) /\ InFlight(f, TRUE)' = FlightAfter(TRUE)
      /\ InFlight(f, FALSE) = Flight(FALSE) /\ InFlight(f, FALSE)' = FlightAfter(FALSE)
  BY DEF InFlight, At, Event
<1>2. /\ ~At(w, "idle")
      /\ \A v \in Workers \ {w} : job'[v] = job[v]
      /\ job'[w] = Idle \/ (job'[w].req = job[w].req /\ job'[w].pc # "idle")
  BY RequestMoves DEF Moved
<1>3. ASSUME NEW b PROVE FlightAfter(b) \in {FALSE, Flight(b)} /\ (f # Event(w) => FlightAfter(b) = Flight(b))
  <2>1. \A v \in Workers : Flies(job'[v], b) => Flies(job[v], b)
    BY <1>2 DEF Idle, At
  <2>2. f # Event(w) => \A v \in Workers : Flies(job[v], b) => Flies(job'[v], b)
    BY <1>2 DEF Event
  <2> HIDE DEF Flies
  <2>3. (FlightAfter(b) => Flight(b)) /\ (f # Event(w) => FlightAfter(b) = Flight(b))
    BY <2>1, <2>2
  <2>4. FlightAfter(b) \in BOOLEAN /\ Flight(b) \in BOOLEAN
    OBVIOUS
  <2> HIDE DEF Flight, FlightAfter
  <2> QED
    BY <2>3, <2>4, OnlyEnds
<1> HIDE DEF Flies, Flight, FlightAfter
<1> QED
  BY <1>1, <1>3

\* Where a request has the transaction in hand, and the step that gives it that.
SendPc == {"broadcast", "submitted"}
Takes(w) == job[w].pc \in {"prepare", "rebroadcast"} /\ job'[w].pc \in SendPc

LEMMA StartsSending ==
  ASSUME TypeOK, NEW w \in Workers, Step(w) \/ Fail(w), job'[w].pc \in SendPc
  PROVE  job[w].pc \in SendPc \/ Takes(w)
<1>1. job \in [Workers -> JobType]
  BY TypeParts DEF JobsOK
<1>2. ASSUME NEW k, job' = [job EXCEPT ![w] = k], k.pc \notin SendPc PROVE FALSE
  BY <1>1, <1>2
<1>3. ~Return(w)
  BY <1>2 DEF Return, Idle, SendPc
<1>4. ASSUME NEW pc, Goto(w, pc), pc \notin SendPc PROVE FALSE
  <2>1. [Idle EXCEPT !.pc = pc, !.req = job[w].req].pc = pc
    BY DEF Idle
  <2> QED
    BY <1>2, <1>4, <2>1 DEF Goto
<1>5. ASSUME NEW b, Reconcile(w, job[w].req, b) PROVE FALSE
  <2>1. [Idle EXCEPT !.pc = "reconcile", !.req = job[w].req, !.allow = b].pc = "reconcile"
    BY DEF Idle
  <2> QED
    BY <1>2, <1>5, <2>1 DEF Reconcile, SendPc
<1> USE <1>3, <1>4, <1>5 DEF At, SendPc
<1>6. CASE Recheck(w) \/ Precheck(w) \/ FindAnchored(w) \/ MarkExternallyAnchored(w)
  BY <1>6 DEF Recheck, Precheck, FindAnchored, MarkExternallyAnchored
<1>7. CASE AcquireOperation(w)
  BY <1>7 DEF AcquireOperation
<1>8. CASE ReadRow(w)
  <2>1. ASSUME job' = [job EXCEPT ![w].pc = "receipt",
                         ![w].row = [state |-> op[Event(w)].state, attempts |-> op[Event(w)].attempts]]
        PROVE  FALSE
    BY <1>1, <2>1 DEF JobType
  <2> QED
    BY <1>8, <2>1 DEF ReadRow
<1>9. CASE ReadPendingNonce(w)
  <2>1. job'[w].pc = "prepare"
    BY <1>1, <1>9 DEF ReadPendingNonce, JobType
  <2> QED
    BY <2>1
<1>10. CASE ReadReceipt(w) \/ WaitForReceipt(w)
  BY <1>10 DEF ReadReceipt, WaitForReceipt
<1>11. CASE Broadcast(w) \/ MarkSubmitted(w)
  BY <1>11 DEF Broadcast, MarkSubmitted
<1>12. CASE MarkRetryable(w) \/ DeferReconciliation(w) \/ RecordMinedCost(w) \/ FinalizeReceipt(w)
  BY <1>12 DEF MarkRetryable, DeferReconciliation, RecordMinedCost, FinalizeReceipt
<1>13. CASE Fail(w)
  BY <1>13 DEF Fail, RequestFails, BroadcastFails, ReconcileFails, Crash
<1>14. CASE PrepareNewTransaction(w) \/ Rebroadcast(w)
  BY <1>14 DEF PrepareNewTransaction, Rebroadcast, Takes
<1> QED
  BY <1>6, <1>7, <1>8, <1>9, <1>10, <1>11, <1>12, <1>13, <1>14 DEF Step

\* Only a POST that prepares a transaction or sends it again gets it in hand.
LEMMA RequestSends ==
  ASSUME RelayInv, NEW w \in Workers, Step(w) \/ Fail(w), NEW f \in Events
  PROVE  /\ Sending(f)' \in BOOLEAN
         /\ Takes(w) \/ Sending(f)' \in {FALSE, Sending(f)}
         /\ f # Event(w) => Sending(f)' = Sending(f)
<1> USE DEF RelayInv
<1> DEFINE Sends(j) == j.pc \in SendPc /\ j.req.event = f
           Any == \E v \in Workers : Sends(job[v])
           AnyAfter == \E v \in Workers : Sends(job'[v])
<1>1. Sending(f) = Any /\ Sending(f)' = AnyAfter
  BY DEF Sending, Event, SendPc
<1>2. /\ \A v \in Workers \ {w} : job'[v] = job[v]
      /\ job'[w] = Idle \/ job'[w].req = job[w].req
  BY RequestMoves DEF Moved
<1>3. job'[w].pc \in SendPc => /\ job[w].pc \in SendPc \/ Takes(w)
                               /\ job'[w].req = job[w].req
  BY <1>2, StartsSending DEF Idle, SendPc
<1>4. Takes(w) \/ \A v \in Workers : Sends(job'[v]) => Sends(job[v])
  BY <1>2, <1>3
<1>5. f # Event(w) => \A v \in Workers : Sends(job'[v]) <=> Sends(job[v])
  BY <1>2, <1>3 DEF Event
<1> HIDE DEF Sends
<1>6. (Takes(w) \/ (AnyAfter => Any)) /\ (f # Event(w) => AnyAfter = Any)
  BY <1>4, <1>5
<1>7. AnyAfter \in BOOLEAN /\ Any \in BOOLEAN
  OBVIOUS
<1> HIDE DEF Any, AnyAfter
<1> QED
  BY <1>1, <1>6, <1>7, OnlyEnds

\* A request that starts, or ends unseen, sends nothing.
LEMMA SendsNothing ==
  ASSUME TypeOK, NEW w \in Workers, At(w, "idle"), NEW j, j.pc \notin SendPc, job' = [job EXCEPT ![w] = j], NEW f
  PROVE  Sending(f)' = Sending(f)
<1> DEFINE Sends(k) == k.pc \in SendPc /\ k.req.event = f
<1>1. Sending(f) = (\E v \in Workers : Sends(job[v])) /\ Sending(f)' = (\E v \in Workers : Sends(job'[v]))
  BY DEF Sending, Event, SendPc
<1>2. job'[w] = j /\ (\A v \in Workers \ {w} : job'[v] = job[v]) /\ job[w].pc \notin SendPc
  BY TypeParts DEF JobsOK, At, SendPc
<1>3. \A v \in Workers : Sends(job'[v]) <=> Sends(job[v])
  BY <1>2
<1> HIDE DEF Sends
<1> QED
  BY <1>1, <1>3

\* A request that runs is in flight.
LEMMA Runs ==
  ASSUME NEW w \in Workers, ~At(w, "idle"), NEW b \in BOOLEAN, IsPost(w) = b
  PROVE  InFlight(Event(w), b)
BY DEF InFlight, IsPost

\* Whether the relay's transaction of an event is mined, as long as the blocks stay.
LEMMA MinedStays ==
  ASSUME RelayInv, [Next]_vars, mined' = mined, NEW e \in Events
  PROVE  /\ IsMined(Tx(e))' = IsMined(Tx(e))
         /\ IsMined(Tx(e)) => op'[e].nonce = op[e].nonce /\ HasTx(e)
         /\ HasTx(e) => Tx(e)' = Tx(e) /\ HasTx(e)'
<1> USE DEF RelayInv
<1>1. HasTx(e) => op'[e].nonce = op[e].nonce /\ Tx(e)' = Tx(e) /\ HasTx(e)'
  BY NoncesStay DEF Tx
<1>2. CASE HasTx(e)
  <2>1. Tx(e)' = Tx(e)
    BY <1>1, <1>2
  <2> QED
    BY <1>1, <1>2, <2>1 DEF IsMined
<1>3. CASE ~HasTx(e)
  <2>1. ~IsMined(Tx(e))
    BY <1>3, MinedElements DEF HasTx, IsMined, Tx, NoNonce
  <2>2. ASSUME IsMined(Tx(e))' PROVE FALSE
    <3> DEFINE n == op'[e].nonce
    <3>1. n \in 0..(Len(mined) - 1) /\ mined[n + 1].event = e
      BY <2>2 DEF IsMined, Tx
    <3>2. Len(mined) \in Nat /\ n + 1 \in DOMAIN mined
      BY <3>1, MinedElements
    <3>3. op[e].nonce = n
      BY <3>1, <3>2 DEF NonceInv, OnlyDurableBroadcast
    <3> QED
      BY <1>3, <3>1, <3>2, <3>3 DEF HasTx, NoNonce
  <2>3. ~IsMined(Tx(e))'
    BY <2>2
  <2>4. IsMined(Tx(e))' = IsMined(Tx(e))
    BY <2>1, <2>3 DEF IsMined
  <2> QED
    BY <1>3, <2>1, <2>4
<1> QED
  BY <1>2, <1>3

\* Who anchored an event does not change while the chain does not.
LEMMA AnchorStays ==
  ASSUME RelayInv, [Next]_vars, mined' = mined, anchoredEvents' = anchoredEvents, NEW e \in Events
  PROVE  ByOf(e)' = ByOf(e)
<1>1. (IsMined(Tx(e)) /\ mined[op[e].nonce + 1].ok)' = (IsMined(Tx(e)) /\ mined[op[e].nonce + 1].ok)
  BY MinedStays
<1> QED
  BY <1>1 DEF ByOf

\* The transaction of an event looks the same while its nonce, the blocks, the
\* confirmations and its place in the mempool stay.
LEMMA TxStays ==
  ASSUME NEW e \in Events, op'[e].nonce = op[e].nonce, mined' = mined, final' = final,
         Tx(e) \in pool' <=> Tx(e) \in pool
  PROVE  TxOf(e)' = TxOf(e)
<1>1. Tx(e)' = Tx(e) /\ HasTx(e)' = HasTx(e)
  BY DEF Tx, HasTx
<1>2. IsMined(Tx(e))' = IsMined(Tx(e)) /\ IsFinal(Tx(e))' = IsFinal(Tx(e))
  BY <1>1 DEF IsMined, IsFinal
<1> QED
  BY <1>1, <1>2 DEF TxOf

\* After the step a request has the transaction in hand only if s.
InHand(e, s) == Sending(e)' \in {FALSE, s}

\* A step of a request shows on its own event only: its row and its transaction,
\* and that requests are over.
LEMMA RequestShows ==
  ASSUME RelayInv, ViewInv, [Next]_vars, NEW w \in Workers, Step(w) \/ Fail(w), NEW e \in Events, Event(w) = e,
         NEW s, InHand(e, s)
  PROVE  /\ \A f \in Events \ {e} : Shown(f)' = Shown(f)
         /\ \A r : r = Look(op'[e].state, TxOf(e)', ByOf(e), InFlight(e, TRUE), s, InFlight(e, FALSE), op[e].polls)
                     => Shown(e)' \in Operation!Closing(r)
<1>1. /\ mined' = mined /\ final' = final /\ anchoredEvents' = anchoredEvents
      /\ \A f \in Events \ {e} : op'[f] = op[f]
      /\ pool' = pool \/ pool' = pool \cup {Tx(e)}
  BY RequestKeeps DEF registryVars
<1>2. \A f \in Events : ByOf(f)' = ByOf(f)
  BY <1>1, AnchorStays
<1>3. ASSUME NEW f \in Events, f # e PROVE Shown(f)' = Shown(f)
  <2>1. op'[f] = op[f]
    BY <1>1, <1>3
  <2>2. Tx(f) # Tx(e)
    BY <1>3 DEF Tx
  <2>3. TxOf(f)' = TxOf(f)
    BY <1>1, <2>1, <2>2, TxStays
  <2>4. InFlight(f, TRUE)' = InFlight(f, TRUE) /\ InFlight(f, FALSE)' = InFlight(f, FALSE)
    BY <1>3, RequestFlights
  <2>5. Sending(f)' = Sending(f)
    BY <1>3, RequestSends
  <2>6. Shown(f)' = Look(op'[f].state, TxOf(f)', ByOf(f)', InFlight(f, TRUE)', Sending(f)', InFlight(f, FALSE)', op'[f].polls)
    BY ShownAfter
  <2>7. Shown(f) = Look(op[f].state, TxOf(f), ByOf(f), InFlight(f, TRUE), Sending(f), InFlight(f, FALSE), op[f].polls)
    BY ShownParts
  <2> QED
    BY <1>2, <2>1, <2>3, <2>4, <2>5, <2>6, <2>7
<1>4. ASSUME NEW r,
             r = Look(op'[e].state, TxOf(e)', ByOf(e), InFlight(e, TRUE), s, InFlight(e, FALSE), op[e].polls)
      PROVE  Shown(e)' \in Operation!Closing(r)
  <2>1. InFlight(e, TRUE)' \in {FALSE, InFlight(e, TRUE)} /\ InFlight(e, FALSE)' \in {FALSE, InFlight(e, FALSE)}
    BY RequestFlights
  <2>2. op'[e].polls = op[e].polls
    BY RequestCountsNoPoll
  <2>3. Shown(e)' = Look(op'[e].state, TxOf(e)', ByOf(e), InFlight(e, TRUE)', Sending(e)', InFlight(e, FALSE)', op[e].polls)
    <3>1. Shown(e)' = Look(op'[e].state, TxOf(e)', ByOf(e)', InFlight(e, TRUE)', Sending(e)', InFlight(e, FALSE)', op'[e].polls)
      BY ShownAfter
    <3> QED
      BY <1>2, <2>2, <3>1
  <2>4. Sending(e)' \in {FALSE, s}
    BY DEF InHand
  <2>5. PICK p, a, q, t, b : /\ p = InFlight(e, TRUE) /\ a = InFlight(e, FALSE)
                           /\ q = InFlight(e, TRUE)' /\ t = Sending(e)' /\ b = InFlight(e, FALSE)'
    OBVIOUS
  <2>6. PICK row, tx, by, polls : row = op'[e].state /\ tx = TxOf(e)' /\ by = ByOf(e) /\ polls = op[e].polls
    OBVIOUS
  <2>7. q \in {FALSE, p} /\ t \in {FALSE, s} /\ b \in {FALSE, a} /\ r = Look(row, tx, by, p, s, a, polls)
    BY <1>4, <2>1, <2>5, <2>6, <2>4
  <2>8. Shown(e)' = Look(row, tx, by, q, t, b, polls)
    BY <2>3, <2>5, <2>6
  <2>9. Look(row, tx, by, q, t, b, polls) \in Operation!Closing(r)
    BY <2>7, Closes, ZenonT(60)
  <2> QED
    BY <2>8, <2>9
<1> QED
  BY <1>3, <1>4

\* A step that shows on one event only.
LEMMA ViewChanges ==
  ASSUME NEW e \in Events, \A f \in Events \ {e} : Shown(f)' = Shown(f)
  PROVE  View' = [View EXCEPT ![e] = Shown(e)']
BY DEF View

\* A step of the abstract operation of an event.
OperationStep(e) ==
  \/ Operation!Post(e) \/ Operation!Ask(e) \/ Operation!End(e) \/ Operation!Work(e) \/ Operation!Retry(e)
  \/ Operation!ChainStep(e) \/ Operation!Evict(e) \/ Operation!AnchorExternally(e)

LEMMA OperationMoves ==
  ASSUME UNCHANGED View \/ \E e \in Events : OperationStep(e)
  PROVE  [Operation!Next]_View
BY DEF OperationStep, Operation!Next, View

\* How a step of a request becomes a step of the operation.
LEMMA RequestBecomes ==
  ASSUME RelayInv, ViewInv, [Next]_vars, NEW w \in Workers, Step(w) \/ Fail(w), NEW e \in Events, Event(w) = e,
         NEW s, InHand(e, s),
         NEW r, r = Look(op'[e].state, TxOf(e)', ByOf(e), InFlight(e, TRUE), s, InFlight(e, FALSE), op[e].polls)
  PROVE  Operation!Becomes(e, r)
<1>1. /\ \A f \in Events \ {e} : Shown(f)' = Shown(f)
      /\ \A q : q = Look(op'[e].state, TxOf(e)', ByOf(e), InFlight(e, TRUE), s, InFlight(e, FALSE), op[e].polls)
                  => Shown(e)' \in Operation!Closing(q)
  BY RequestShows
<1>2. Shown(e)' \in Operation!Closing(r)
  BY <1>1
<1>3. View' = [View EXCEPT ![e] = Shown(e)']
  BY <1>1, ViewChanges
<1> QED
  BY <1>2, <1>3 DEF Operation!Becomes, View

\* The operation of an event, field by field.
LEMMA Seen ==
  ASSUME NEW e \in Events
  PROVE  /\ View[e] = Look(op[e].state, TxOf(e), ByOf(e), InFlight(e, TRUE), Sending(e), InFlight(e, FALSE), op[e].polls)
         /\ View[e].row = op[e].state /\ View[e].tx = TxOf(e) /\ View[e].by = ByOf(e)
         /\ View[e].posting = InFlight(e, TRUE) /\ View[e].sending = Sending(e)
         /\ View[e].asking = InFlight(e, FALSE) /\ View[e].polls = op[e].polls
<1>1. PICK r, p, s, a : r = View[e] /\ p = InFlight(e, TRUE) /\ s = Sending(e) /\ a = InFlight(e, FALSE)
  OBVIOUS
<1>2. r = Look(op[e].state, TxOf(e), ByOf(e), p, s, a, op[e].polls)
  BY <1>1, ShownParts
<1>3. /\ r.row = op[e].state /\ r.tx = TxOf(e) /\ r.by = ByOf(e) /\ r.posting = p /\ r.sending = s
      /\ r.asking = a /\ r.polls = op[e].polls
  BY <1>2 DEF Look
<1> QED
  BY <1>1, <1>2, <1>3

\* A request that keeps the transaction as it is changes the row or nothing.
LEMMA RowMoves ==
  ASSUME RelayInv, ViewInv, [Next]_vars, NEW w \in Workers, Step(w) \/ Fail(w), NEW e \in Events, Event(w) = e,
         op'[e].nonce = op[e].nonce, pool' = pool, ~Takes(w)
  PROVE  /\ Operation!Becomes(e, [View[e] EXCEPT !.row = op'[e].state])
         /\ op'[e].state = op[e].state => Operation!End(e)
<1>1. TxOf(e)' = TxOf(e)
  BY RequestKeeps, TxStays
<1>2. PICK p, s, a : p = InFlight(e, TRUE) /\ s = Sending(e) /\ a = InFlight(e, FALSE)
  OBVIOUS
<1>3. View[e] = Look(op[e].state, TxOf(e), ByOf(e), p, s, a, op[e].polls)
  BY <1>2, Seen
<1>4. [View[e] EXCEPT !.row = op'[e].state] = Look(op'[e].state, TxOf(e)', ByOf(e), p, s, a, op[e].polls)
  BY <1>1, <1>3 DEF Look
<1>5. InHand(e, s)
  BY <1>2, RequestSends DEF InHand
<1> DEFINE After == Look(op'[e].state, TxOf(e)', ByOf(e), InFlight(e, TRUE), s, InFlight(e, FALSE), op[e].polls)
<1>6. [View[e] EXCEPT !.row = op'[e].state] = After
  BY <1>2, <1>4
<1>7. op'[e].state = op[e].state => View[e] = After
  BY <1>1, <1>2, <1>3
<1>8. \A r : r = After => Operation!Becomes(e, r)
  BY <1>5, RequestBecomes
<1> HIDE DEF After
<1>9. Operation!Becomes(e, [View[e] EXCEPT !.row = op'[e].state])
  BY <1>6, <1>8
<1>10. op'[e].state = op[e].state => Operation!Becomes(e, View[e])
  BY <1>7, <1>8
<1> QED
  BY <1>9, <1>10 DEF Operation!End, View

\* A request that keeps the row changes the transaction.
LEMMA TxMoves ==
  ASSUME RelayInv, ViewInv, [Next]_vars, NEW w \in Workers, Step(w) \/ Fail(w), NEW e \in Events, Event(w) = e,
         op'[e].state = op[e].state, ~Takes(w)
  PROVE  Operation!Becomes(e, [View[e] EXCEPT !.tx = TxOf(e)'])
<1>1. PICK p, s, a : p = InFlight(e, TRUE) /\ s = Sending(e) /\ a = InFlight(e, FALSE)
  OBVIOUS
<1>2. View[e] = Look(op[e].state, TxOf(e), ByOf(e), p, s, a, op[e].polls)
  BY <1>1, Seen
<1>3. [View[e] EXCEPT !.tx = TxOf(e)'] = Look(op'[e].state, TxOf(e)', ByOf(e), p, s, a, op[e].polls)
  BY <1>2 DEF Look
<1>4. InHand(e, s)
  BY <1>1, RequestSends DEF InHand
<1> DEFINE After == Look(op'[e].state, TxOf(e)', ByOf(e), InFlight(e, TRUE), s, InFlight(e, FALSE), op[e].polls)
<1>5. [View[e] EXCEPT !.tx = TxOf(e)'] = After
  BY <1>1, <1>3
<1>6. \A r : r = After => Operation!Becomes(e, r)
  BY <1>4, RequestBecomes
<1> HIDE DEF After
<1> QED
  BY <1>5, <1>6

\* What the abstract operation shows of a running request.
LEMMA PostsSeen ==
  ASSUME RelayInv, ViewInv, NEW w \in Workers, NEW e \in Events, Event(w) = e, ~At(w, "idle")
  PROVE  /\ Posting(job[w]) => View[e].posting
         /\ View[e].posting \/ View[e].asking
         /\ At(w, "retryable") => View[e].posting \/ (View[e].asking /\ HasTx(e))
<1>1. (IsPost(w) => InFlight(e, TRUE)) /\ (~IsPost(w) => InFlight(e, FALSE))
  BY Runs DEF IsPost, InFlight
<1> QED
  BY <1>1, Seen DEF ViewInv, Known

\* Every step of a request is a step of the operation of its event.
LEMMA RequestRefines ==
  ASSUME RelayInv, RelayInv', ViewInv, [Next]_vars, NEW w \in Workers, Step(w) \/ Fail(w),
         NEW e \in Events, Event(w) = e
  PROVE  OperationStep(e)
<1> USE DEF RelayInv
<1>1. ~At(w, "idle") /\ op \in [Events -> Row] /\ op[e] \in Row
  BY RequestMoves, TypeParts DEF RowsOK
<1>2. job[w].pc \in UsesRow => op[e].state # "NONE"
  BY DEF RowsFound, Rows
<1>3. job[w].pc \in UsesTx => HasTx(e)
  BY DEF TxRecorded
<1>4. TxOf(e) = "none" <=> ~HasTx(e)
  BY DEF TxOf
<1>5. op'[e].state = op[e].state /\ op'[e].nonce = op[e].nonce /\ pool' = pool /\ ~Takes(w) => OperationStep(e)
  BY RowMoves DEF OperationStep
<1>6. ASSUME Return(w) \/ Goto(w, "retryable") PROVE ~Takes(w)
  <2>1. Idle.pc = "idle" /\ [Idle EXCEPT !.pc = "retryable", !.req = job[w].req].pc = "retryable"
    BY DEF Idle
  <2>2. job'[w] = Idle \/ job'[w] = [Idle EXCEPT !.pc = "retryable", !.req = job[w].req]
    BY <1>6, TypeParts DEF JobsOK, Return, Goto
  <2>3. job'[w].pc \notin SendPc
    BY <2>1, <2>2 DEF SendPc
  <2> QED
    BY <2>3 DEF Takes
<1>7. job[w].pc \notin {"prepare", "rebroadcast"} => ~Takes(w)
  BY DEF Takes
<1>8. CASE \/ Recheck(w) \/ Precheck(w) \/ FindAnchored(w) \/ ReadRow(w) \/ ReadReceipt(w)
           \/ ReadPendingNonce(w) \/ WaitForReceipt(w) \/ RequestFails(w) \/ ReconcileFails(w) \/ Crash(w)
  <2>1. op' = op /\ pool' = pool
    BY <1>8 DEF Recheck, Precheck, FindAnchored, ReadRow, ReadReceipt, ReadPendingNonce,
       WaitForReceipt, RequestFails, ReconcileFails, Crash, dbVars, chainVars
  <2>2. ~Takes(w)
    <3>1. CASE RequestFails(w) \/ ReconcileFails(w) \/ Crash(w)
      BY <1>6, <3>1 DEF RequestFails, ReconcileFails, Crash
    <3>2. CASE Recheck(w) \/ Precheck(w) \/ FindAnchored(w) \/ ReadRow(w) \/ ReadReceipt(w)
      BY <1>7, <3>2 DEF Recheck, Precheck, FindAnchored, ReadRow, ReadReceipt, At
    <3>3. CASE ReadPendingNonce(w) \/ WaitForReceipt(w)
      BY <1>7, <3>3 DEF ReadPendingNonce, WaitForReceipt, At
    <3> QED
      BY <1>8, <3>1, <3>2, <3>3
  <2> QED
    BY <1>5, <2>1, <2>2
<1>9. CASE DeferReconciliation(w)
  <2>1. op' = op \/ op' = [op EXCEPT ![e] = [op[e] EXCEPT !.due = FALSE]]
    BY <1>9 DEF DeferReconciliation
  <2>2. op'[e].state = op[e].state /\ op'[e].nonce = op[e].nonce
    BY <1>1, <2>1 DEF Row
  <2> QED
    BY <1>5, <1>9, <1>7, <2>2 DEF DeferReconciliation, chainVars, At
<1>10. CASE RecordMinedCost(w)
  <2>1. op' = op \/ op' = [op EXCEPT ![e] = [op[e] EXCEPT !.reserved = 0, !.charged = op[e].reserved]]
    BY <1>10 DEF RecordMinedCost
  <2>2. op'[e].state = op[e].state /\ op'[e].nonce = op[e].nonce
    BY <1>1, <2>1 DEF Row
  <2> QED
    BY <1>5, <1>10, <1>7, <2>2 DEF RecordMinedCost, chainVars, At
<1>11. CASE MarkSubmitted(w)
  <2>1. pool' = pool /\ ~Takes(w) /\ At(w, "submitted")
    BY <1>11, <1>7 DEF MarkSubmitted, chainVars, At
  <2>2. CASE op[e].state = "SUBMITTING"
    <3>1. op'[e].state = "SUBMITTED" /\ op'[e].nonce = op[e].nonce
      BY <1>1, <1>11, <2>2 DEF MarkSubmitted, Row
    <3>2. View[e].sending /\ View[e].row = "SUBMITTING"
      BY <2>1, <2>2, Seen DEF Sending, At
    <3>3. Operation!Becomes(e, [View[e] EXCEPT !.row = "SUBMITTED"])
      BY <2>1, <3>1, RowMoves
    <3> QED
      BY <3>2, <3>3 DEF OperationStep, Operation!Work, Operation!Submitted, View
  <2>3. CASE op[e].state # "SUBMITTING"
    BY <1>5, <1>11, <2>1, <2>3 DEF MarkSubmitted
  <2> QED
    BY <2>2, <2>3
<1>12. CASE Rebroadcast(w)
  <2>1. pool' = pool /\ At(w, "rebroadcast")
    BY <1>12 DEF Rebroadcast, chainVars
  <2>2. CASE MayRebroadcast(e)
    <3>1. /\ op'[e].state = (IF op[e].state = "FAILED_RETRYABLE" THEN "SUBMITTING" ELSE op[e].state)
          /\ op'[e].nonce = op[e].nonce
      <4>1. op'[e] = Rebroadcasting(op[e])
        BY <1>1, <1>12, <2>2 DEF Rebroadcast
      <4> QED
        BY <1>1, <4>1 DEF Rebroadcasting, Row
    <3>2. View[e].posting /\ View[e].tx # "none" /\ View[e].row \notin Terminal \cup {"NONE"}
      BY <1>1, <1>3, <1>4, <2>1, <2>2, PostsSeen, Seen
      DEF MayRebroadcast, Terminal, Posting, PostPc, UsesTx, At
    <3>3. TxOf(e)' = TxOf(e)
      BY <2>1, <3>1, RequestKeeps, TxStays
    <3>4. PICK p, s, a, t, x : /\ p = InFlight(e, TRUE) /\ s = Sending(e) /\ a = InFlight(e, FALSE)
                              /\ t = TRUE /\ x = op'[e].state
      OBVIOUS
    <3>5. PICK r : r = [View[e] EXCEPT !.row = x]
      OBVIOUS
    <3>6. View[e] = Look(op[e].state, TxOf(e), ByOf(e), p, s, a, op[e].polls)
      BY <3>4, Seen
    <3>7. r = Look(x, TxOf(e), ByOf(e), p, s, a, op[e].polls)
      BY <3>5, <3>6 DEF Look
    <3>8. [r EXCEPT !.sending = t] = Look(x, TxOf(e), ByOf(e), p, t, a, op[e].polls)
      BY <3>7 DEF Look
    <3>9. InHand(e, t)
      <4>1. Sending(e)' \in BOOLEAN
        BY DEF Sending
      <4> QED
        BY <3>4, <4>1 DEF InHand
    <3>10. Operation!Becomes(e, [r EXCEPT !.sending = t])
      <4>1. [r EXCEPT !.sending = t]
              = Look(op'[e].state, TxOf(e)', ByOf(e), InFlight(e, TRUE), t, InFlight(e, FALSE), op[e].polls)
        BY <3>3, <3>4, <3>8
      <4> QED
        BY <3>9, <4>1, RequestBecomes
    <3>11. [View[e] EXCEPT !.row = IF @ = "FAILED_RETRYABLE" THEN "SUBMITTING" ELSE @, !.sending = TRUE]
             = [r EXCEPT !.sending = t]
      <4>1. x = (IF View[e].row = "FAILED_RETRYABLE" THEN "SUBMITTING" ELSE View[e].row)
        BY <3>1, <3>4, Seen
      <4> QED
        BY <3>4, <3>5, <4>1, Zenon
    <3> QED
      BY <3>2, <3>10, <3>11 DEF OperationStep, Operation!Work, Operation!Resubmit, Operation!Open,
         Operation!Terminal, Terminal, View
  <2>3. CASE ~MayRebroadcast(e)
    BY <1>5, <1>12, <1>6, <2>1, <2>3 DEF Rebroadcast
  <2> QED
    BY <2>2, <2>3
<1>13. CASE MarkRetryable(w)
  <2>1. pool' = pool /\ At(w, "retryable") /\ op'[e] = Retryable(op[e]) /\ ~Takes(w)
    BY <1>1, <1>13, <1>7 DEF MarkRetryable, chainVars, At
  <2>2. CASE op[e].state \in Terminal
    BY <1>5, <2>1, <2>2 DEF Retryable
  <2>3. CASE op[e].state \notin Terminal
    <3>1. op'[e].state = "FAILED_RETRYABLE" /\ op'[e].nonce = op[e].nonce
      BY <1>1, <2>1, <2>3 DEF Retryable, Row
    <3>2. View[e].row \notin Terminal \cup {"NONE"}
      BY <1>2, <2>1, <2>3, Seen DEF At, UsesRow, PcLabel
    <3>3. View[e].posting \/ (View[e].asking /\ View[e].tx # "none")
      BY <1>1, <1>4, <2>1, PostsSeen, Seen
    <3>4. Operation!Becomes(e, [View[e] EXCEPT !.row = "FAILED_RETRYABLE"])
      BY <2>1, <3>1, RowMoves
    <3> QED
      BY <3>2, <3>3, <3>4 DEF OperationStep, Operation!Retry, Operation!Open, Operation!Terminal, Terminal, View
  <2> QED
    BY <2>2, <2>3
<1>14. CASE FinalizeReceipt(w)
  <2>1. pool' = pool /\ At(w, "settle") /\ ~Takes(w)
    BY <1>14, <1>7 DEF FinalizeReceipt, chainVars, At
  <2>2. CASE Outcome(e) = op[e].state
    BY <1>5, <1>14, <2>1, <2>2 DEF FinalizeReceipt
  <2>3. CASE Outcome(e) # op[e].state
    <3>1. op'[e].state = Outcome(e) /\ op'[e].nonce = op[e].nonce
      BY <1>1, <1>14, <2>3 DEF FinalizeReceipt, Row
    <3>2. IsFinal(Tx(e)) /\ HasTx(e)
      BY <1>3, <2>1 DEF OutcomeInv, FinalJobs, At, UsesTx
    <3>3. IsMined(Tx(e)) /\ op[e].nonce + 1 \in DOMAIN mined /\ mined[op[e].nonce + 1].event = e
      BY <3>2, MinedElements DEF IsFinal, IsMined, Tx
    <3>4. mined[op[e].nonce + 1].ok => RegistryMatches(e)
      BY <3>3 DEF OutcomeInv, MinedMatches
    <3>5. op[e].state \in {"SUBMITTED", "FAILED_RETRYABLE"}
      BY <2>3 DEF Outcome
    <3>6. Outcome(e) = IF ByOf(e) = "relay" THEN "CONFIRMED" ELSE "REVERTED"
      <4>1. CASE mined[op[e].nonce + 1].ok
        BY <3>3, <3>4, <3>5, <4>1 DEF Outcome, ByOf, RegistryMatches
      <4>2. CASE ~mined[op[e].nonce + 1].ok
        BY <3>5, <4>2 DEF Outcome, ByOf
      <4> QED
        BY <4>1, <4>2
    <3>7. /\ View[e].posting \/ View[e].asking
          /\ View[e].tx = "final" /\ View[e].row \in {"SUBMITTED", "FAILED_RETRYABLE"}
          /\ View[e].by = ByOf(e)
      BY <1>1, <3>2, <3>5, PostsSeen, Seen DEF TxOf
    <3>8. Operation!Becomes(e, [View[e] EXCEPT !.row = IF View[e].by = "relay" THEN "CONFIRMED" ELSE "REVERTED"])
      BY <2>1, <3>1, <3>6, <3>7, RowMoves
    <3> QED
      BY <3>7, <3>8 DEF OperationStep, Operation!Work, Operation!Settle, View
  <2> QED
    BY <2>2, <2>3
<1>15. CASE MarkExternallyAnchored(w)
  <2>1. pool' = pool /\ At(w, "markExternal") /\ ~Takes(w)
    BY <1>15, <1>7 DEF MarkExternallyAnchored, chainVars, At
  <2>2. CASE Unprepared(e)
    <3>1. op'[e].state = "FAILED_FINAL" /\ op'[e].nonce = op[e].nonce
      <4>1. op' = [op EXCEPT ![e] = [op[e] EXCEPT !.state = "FAILED_FINAL", !.reserved = 0, !.due = TRUE]]
        BY <1>15, <2>2 DEF MarkExternallyAnchored
      <4> QED
        BY <1>1, <4>1 DEF Row
    <3>2. e \in anchoredEvents
      BY <1>1, <2>1 DEF ViewInv, Known, At
    <3>3. View[e].by # "nobody"
      BY <3>2, Seen DEF ByOf
    <3>4. View[e].posting
      BY <1>1, <2>1, PostsSeen DEF Posting, PostPc, At
    <3>5. View[e].tx = "none" /\ View[e].row \notin Terminal \cup {"NONE"}
      BY <1>2, <1>4, <2>1, <2>2, Seen DEF Unprepared, At, UsesRow, PcLabel
    <3>6. Operation!Becomes(e, [View[e] EXCEPT !.row = "FAILED_FINAL"])
      BY <2>1, <3>1, RowMoves
    <3> QED
      BY <3>3, <3>4, <3>5, <3>6 DEF OperationStep, Operation!Work, Operation!GiveUp, Operation!Open,
         Operation!Terminal, Terminal, View
  <2>3. CASE ~Unprepared(e)
    BY <1>5, <1>15, <2>1, <2>3 DEF MarkExternallyAnchored
  <2> QED
    BY <2>2, <2>3
<1>16. CASE AcquireOperation(w)
  <2>1. pool' = pool /\ At(w, "acquire") /\ ~Takes(w)
    BY <1>16, <1>7 DEF AcquireOperation, chainVars, At
  <2> DEFINE row == [NoRow EXCEPT !.state = "READY", !.body = job[w].req.body, !.key = job[w].req.key,
                                  !.reserved = Fee[e], !.day = today]
  <2>2. op' = op \/ (e \notin Rows /\ op' = [op EXCEPT ![e] = row])
    BY <1>16 DEF AcquireOperation, dbVars
  <2>3. CASE op' = op
    BY <1>5, <2>1, <2>3
  <2>4. CASE e \notin Rows /\ op' = [op EXCEPT ![e] = row]
    <3>1. row.state = "READY" /\ row.nonce = NoRow.nonce
      BY DEF NoRow
    <3>2. op[e] = NoRow /\ op[e].state = "NONE"
      BY <2>4 DEF Rows, ViewInv
    <3> HIDE DEF row
    <3>3. op'[e].state = "READY" /\ op'[e].nonce = op[e].nonce
      BY <1>1, <2>4, <3>1, <3>2
    <3>4. View[e].posting /\ View[e].row = "NONE"
      BY <1>1, <2>1, <3>2, PostsSeen, Seen DEF Posting, PostPc, At
    <3>5. Operation!Becomes(e, [View[e] EXCEPT !.row = "READY"])
      BY <2>1, <3>3, RowMoves
    <3> QED
      BY <3>4, <3>5 DEF OperationStep, Operation!Work, Operation!Accept, View
  <2> QED
    BY <2>2, <2>3, <2>4
<1>17. CASE PrepareNewTransaction(w)
  <2>1. pool' = pool /\ At(w, "prepare")
    BY <1>17 DEF PrepareNewTransaction, chainVars
  <2>2. CASE Unprepared(e)
    <3>1. op'[e].state = "SUBMITTING" /\ op'[e].nonce = NextNonce(w)
      <4>1. op' = [op EXCEPT ![e] = [op[e] EXCEPT !.state = "SUBMITTING", !.nonce = NextNonce(w),
                                                 !.attempts = op[e].attempts + 1, !.due = FALSE]]
        BY <1>17, <2>2 DEF PrepareNewTransaction
      <4> QED
        BY <1>1, <4>1 DEF Row
    <3>2. HasTx(e)'
      <4>1. NextNonce(w) \in Nat
        BY <1>17, TypeParts DEF PrepareNewTransaction, NextNonce, JobsOK, JobType, RowsOK, NoNonce
      <4> QED
        BY <3>1, <4>1 DEF HasTx, NoNonce
    <3>3. ~IsMined(Tx(e))'
      <4>1. ~IsMined(Tx(e))
        BY <2>2, MinedElements DEF Unprepared, HasTx, IsMined, Tx, NoNonce
      <4> QED
        BY <4>1, RequestKeeps, MinedStays
    <3>4. Tx(e)' \notin pool'
      <4>1. ASSUME NEW tx \in pool, tx.event = e PROVE FALSE
        <5>1. tx = Tx(e) /\ tx.nonce \in Nat
          BY <4>1, TypeParts DEF NonceInv, OnlyDurableBroadcast, ChainOK
        <5> QED
          BY <2>2, <5>1 DEF Unprepared, HasTx, Tx, NoNonce
      <4> QED
        BY <2>1, <4>1 DEF Tx
    <3>5. TxOf(e)' = "lost"
      BY <3>2, <3>3, <3>4 DEF TxOf, IsFinal
    <3>6. View[e].posting /\ View[e].tx = "none" /\ View[e].row \notin Terminal \cup {"NONE"}
      BY <1>1, <1>2, <1>4, <2>1, <2>2, PostsSeen, Seen DEF Unprepared, Posting, PostPc, At, UsesRow, PcLabel
    <3>7. Operation!Becomes(e, [View[e] EXCEPT !.row = "SUBMITTING", !.tx = "lost", !.sending = TRUE])
      <4>1. PICK p, s, a, t : p = InFlight(e, TRUE) /\ s = Sending(e) /\ a = InFlight(e, FALSE) /\ t = TRUE
        OBVIOUS
      <4>2. PICK r, q : r = [View[e] EXCEPT !.row = "SUBMITTING"] /\ q = [r EXCEPT !.tx = "lost"]
        OBVIOUS
      <4>3. View[e] = Look(op[e].state, TxOf(e), ByOf(e), p, s, a, op[e].polls)
        BY <4>1, Seen
      <4>4. r = Look("SUBMITTING", TxOf(e), ByOf(e), p, s, a, op[e].polls)
        BY <4>2, <4>3 DEF Look
      <4>5. q = Look("SUBMITTING", "lost", ByOf(e), p, s, a, op[e].polls)
        <5>1. [r EXCEPT !.tx = "lost"] = Look("SUBMITTING", "lost", ByOf(e), p, s, a, op[e].polls)
          BY <4>4 DEF Look
        <5> QED
          BY <4>2, <5>1
      <4>6. [q EXCEPT !.sending = t] = Look("SUBMITTING", "lost", ByOf(e), p, t, a, op[e].polls)
        BY <4>5 DEF Look
      <4>7. InHand(e, t)
        <5>1. Sending(e)' \in BOOLEAN
          BY DEF Sending
        <5> QED
          BY <4>1, <5>1 DEF InHand
      <4>8. [View[e] EXCEPT !.row = "SUBMITTING", !.tx = "lost", !.sending = TRUE] = [q EXCEPT !.sending = t]
        BY <4>1, <4>2, Zenon
      <4>9. [q EXCEPT !.sending = t]
              = Look(op'[e].state, TxOf(e)', ByOf(e), InFlight(e, TRUE), t, InFlight(e, FALSE), op[e].polls)
        BY <3>1, <3>5, <4>1, <4>6
      <4> QED
        BY <4>7, <4>8, <4>9, RequestBecomes
    <3> QED
      BY <3>6, <3>7 DEF OperationStep, Operation!Work, Operation!Prepare, Operation!Open,
         Operation!Terminal, Terminal, View
  <2>3. CASE ~Unprepared(e)
    BY <1>5, <1>17, <1>6, <2>1, <2>3 DEF PrepareNewTransaction
  <2> QED
    BY <2>2, <2>3
<1>18. CASE Broadcast(w) \/ BroadcastFails(w)
  <2>1. op' = op /\ At(w, "broadcast") /\ ~Takes(w)
    BY <1>18, <1>7 DEF Broadcast, BroadcastFails, dbVars, At
  <2>2. CASE pool' = pool
    BY <1>5, <2>1, <2>2
  <2>3. CASE pool' # pool
    <3>1. ~IsMined(Tx(e)) /\ pool' = pool \cup {Tx(e)} /\ Tx(e) \notin pool
      BY <2>3, RequestKeeps
    <3>2. HasTx(e)
      BY <1>3, <2>1 DEF At, UsesTx
    <3>3. TxOf(e) = "lost"
      BY <3>1, <3>2 DEF TxOf, IsFinal
    <3>4. TxOf(e)' = "pending"
      <4>1. Tx(e)' = Tx(e) /\ HasTx(e)' /\ ~IsMined(Tx(e))'
        BY <3>1, <3>2, RequestKeeps, MinedStays
      <4> QED
        BY <3>1, <4>1 DEF TxOf, IsFinal
    <3>5. View[e].sending /\ View[e].tx = "lost"
      BY <2>1, <3>3, Seen DEF Sending, At
    <3>6. Operation!Becomes(e, [View[e] EXCEPT !.tx = "pending"])
      BY <2>1, <3>4, TxMoves
    <3> QED
      BY <3>5, <3>6 DEF OperationStep, Operation!Work, Operation!Broadcast, View
  <2> QED
    BY <2>2, <2>3
<1> QED
  BY <1>8, <1>9, <1>10, <1>11, <1>12, <1>13, <1>14, <1>15, <1>16, <1>17, <1>18 DEF Step, Fail

\* An event of which no part changes.
LEMMA ShowsSame ==
  ASSUME NEW f \in Events, op'[f].state = op[f].state, op'[f].polls = op[f].polls,
         TxOf(f)' = TxOf(f), ByOf(f)' = ByOf(f),
         InFlight(f, TRUE)' = InFlight(f, TRUE), Sending(f)' = Sending(f), InFlight(f, FALSE)' = InFlight(f, FALSE)
  PROVE  Shown(f)' = Shown(f)
BY ShownParts, ShownAfter

LEMMA FlightsSame ==
  ASSUME job' = job, NEW f
  PROVE  /\ InFlight(f, TRUE)' = InFlight(f, TRUE) /\ InFlight(f, FALSE)' = InFlight(f, FALSE)
         /\ Sending(f)' = Sending(f)
BY DEF InFlight, Sending, At, Event

\* What only an idle worker's new request shows.
LEMMA FlightStarts ==
  ASSUME TypeOK, NEW w \in Workers, At(w, "idle"), NEW j, job' = [job EXCEPT ![w] = j], j.pc # "idle",
         NEW e, j.req.event = e
  PROVE  /\ \A f \in Events : f # e =>
              InFlight(f, TRUE)' = InFlight(f, TRUE) /\ InFlight(f, FALSE)' = InFlight(f, FALSE)
         /\ j.req.body # NoKey => InFlight(e, TRUE)' = TRUE /\ InFlight(e, FALSE)' = InFlight(e, FALSE)
         /\ j.req.body = NoKey => InFlight(e, FALSE)' = TRUE /\ InFlight(e, TRUE)' = InFlight(e, TRUE)
<1> DEFINE Flies(k, f, b) == k.pc # "idle" /\ k.req.event = f /\ (k.req.body # NoKey) = b
           Flight(f, b) == \E v \in Workers : Flies(job[v], f, b)
           FlightAfter(f, b) == \E v \in Workers : Flies(job'[v], f, b)
<1>1. ASSUME NEW f
      PROVE  /\ InFlight(f, TRUE) = Flight(f, TRUE) /\ InFlight(f, TRUE)' = FlightAfter(f, TRUE)
             /\ InFlight(f, FALSE) = Flight(f, FALSE) /\ InFlight(f, FALSE)' = FlightAfter(f, FALSE)
  BY DEF InFlight, At, Event
<1>2. job'[w] = j /\ (\A v \in Workers \ {w} : job'[v] = job[v]) /\ job[w].pc = "idle"
  BY TypeParts DEF JobsOK, At
<1>3. ASSUME NEW f, NEW b, ~Flies(j, f, b) PROVE FlightAfter(f, b) = Flight(f, b)
  <2>1. ~Flies(job[w], f, b)
    BY <1>2
  <2> HIDE DEF Flies
  <2>2. \A v \in Workers : Flies(job'[v], f, b) <=> Flies(job[v], f, b)
    BY <1>2, <1>3, <2>1
  <2> QED
    BY <2>2
<1>4. ASSUME NEW f, NEW b, Flies(j, f, b) PROVE FlightAfter(f, b) = TRUE
  BY <1>2, <1>4
<1>5. /\ \A f : f # e => ~Flies(j, f, TRUE) /\ ~Flies(j, f, FALSE)
      /\ j.req.body # NoKey => Flies(j, e, TRUE) /\ ~Flies(j, e, FALSE)
      /\ j.req.body = NoKey => Flies(j, e, FALSE) /\ ~Flies(j, e, TRUE)
  OBVIOUS
<1> HIDE DEF Flies, Flight, FlightAfter
<1>6. \A f : f # e => FlightAfter(f, TRUE) = Flight(f, TRUE) /\ FlightAfter(f, FALSE) = Flight(f, FALSE)
  BY <1>3, <1>5
<1>7. j.req.body # NoKey => FlightAfter(e, TRUE) = TRUE /\ FlightAfter(e, FALSE) = Flight(e, FALSE)
  BY <1>3, <1>4, <1>5
<1>8. j.req.body = NoKey => FlightAfter(e, FALSE) = TRUE /\ FlightAfter(e, TRUE) = Flight(e, TRUE)
  BY <1>3, <1>4, <1>5
<1> QED
  BY <1>1, <1>6, <1>7, <1>8

\* A POST that starts.
LEMMA PostRefines ==
  ASSUME RelayInv, [Next]_vars, NEW w \in Workers, NEW r \in Requests, StartRelay(w, r)
  PROVE  OperationStep(r.event)
<1> USE DEF RelayInv
<1> DEFINE e == r.event
           pc == IF HasTx(e) THEN "recheck" ELSE "precheck"
           j == [Idle EXCEPT !.pc = pc, !.req = r]
<1>1. e \in Events /\ r.body # NoKey
  BY RelayAssumption
<1>2. /\ At(w, "idle") /\ job' = [job EXCEPT ![w] = j] /\ j.req = r /\ j.pc # "idle" /\ j.pc \notin SendPc
      /\ op[e].state \notin Terminal /\ UNCHANGED <<dbVars, chainVars>>
  BY DEF StartRelay, Idle, SendPc
<1> HIDE DEF e, j
<1>3. ASSUME NEW f \in Events
      PROVE  op'[f] = op[f] /\ TxOf(f)' = TxOf(f) /\ ByOf(f)' = ByOf(f)
  BY <1>2, TxStays, AnchorStays DEF dbVars, chainVars, registryVars
<1>4. /\ \A f \in Events \ {e} : InFlight(f, TRUE)' = InFlight(f, TRUE) /\ InFlight(f, FALSE)' = InFlight(f, FALSE)
      /\ InFlight(e, TRUE)' = TRUE /\ InFlight(e, FALSE)' = InFlight(e, FALSE)
      /\ \A f : Sending(f)' = Sending(f)
  BY <1>1, <1>2, FlightStarts, SendsNothing DEF e
<1>5. \A f \in Events \ {e} : Shown(f)' = Shown(f)
  BY <1>3, <1>4, ShowsSame
<1>6. Shown(e)' = [View[e] EXCEPT !.posting = TRUE]
  <2>1. PICK p, s, a, t : p = InFlight(e, TRUE) /\ s = Sending(e) /\ a = InFlight(e, FALSE) /\ t = TRUE
    OBVIOUS
  <2>2. View[e] = Look(op[e].state, TxOf(e), ByOf(e), p, s, a, op[e].polls)
    BY <1>1, <2>1, Seen
  <2>3. [View[e] EXCEPT !.posting = t] = Look(op[e].state, TxOf(e), ByOf(e), t, s, a, op[e].polls)
    BY <2>2 DEF Look
  <2>4. Shown(e)' = Look(op[e].state, TxOf(e), ByOf(e), t, s, a, op[e].polls)
    BY <1>1, <1>3, <1>4, <2>1, ShownAfter
  <2>5. [View[e] EXCEPT !.posting = TRUE] = [View[e] EXCEPT !.posting = t]
    BY <2>1
  <2> QED
    BY <2>3, <2>4, <2>5
<1>7. View' = [View EXCEPT ![e].posting = TRUE]
  BY <1>1, <1>5, <1>6, ViewChanges
<1>8. View[e].row \notin Terminal
  BY <1>1, <1>2, Seen
<1> QED
  BY <1>7, <1>8 DEF OperationStep, Operation!Post, Operation!Terminal, Terminal, View, e

\* A GET: it is counted, and reconciles until the cap.
LEMMA GetRefines ==
  ASSUME RelayInv, [Next]_vars, NEW w \in Workers, NEW e \in Polled, GetOperation(w, e)
  PROVE  OperationStep(e)
<1> USE DEF RelayInv
<1> DEFINE get == [event |-> e, body |-> NoKey, key |-> NoKey]
           j == [Idle EXCEPT !.pc = "reconcile", !.req = get, !.allow = FALSE]
           capped == op[e].polls + 1 > MaxPolls
<1>1. e \in Events /\ op \in [Events -> Row] /\ op[e] \in Row /\ MaxPolls \in Nat
  BY RelayAssumption, TypeParts DEF RowsOK
<1>2. /\ At(w, "idle") /\ Open(e) /\ op[e].polls <= MaxPolls /\ op[e].polls \in Nat
      /\ op' = [op EXCEPT ![e] = [op[e] EXCEPT !.polls = op[e].polls + 1]]
      /\ (capped => job' = job) /\ (~capped => job' = [job EXCEPT ![w] = j])
      /\ UNCHANGED chainVars
  BY <1>1 DEF GetOperation, Reconcile, Row
<1>3. j.req.event = e /\ j.req.body = NoKey /\ j.pc # "idle" /\ j.pc \notin SendPc
  BY DEF Idle, SendPc
<1> HIDE DEF j
<1>4. /\ op'[e].polls = op[e].polls + 1 /\ op'[e].state = op[e].state /\ op'[e].nonce = op[e].nonce
      /\ \A f \in Events \ {e} : op'[f] = op[f]
  BY <1>1, <1>2 DEF Row
<1>5. ASSUME NEW f \in Events PROVE TxOf(f)' = TxOf(f) /\ ByOf(f)' = ByOf(f)
  BY <1>2, <1>4, TxStays, AnchorStays DEF chainVars, registryVars
<1>6. /\ \A f \in Events \ {e} : InFlight(f, TRUE)' = InFlight(f, TRUE) /\ InFlight(f, FALSE)' = InFlight(f, FALSE)
      /\ InFlight(e, TRUE)' = InFlight(e, TRUE)
      /\ capped => InFlight(e, FALSE)' = InFlight(e, FALSE)
      /\ ~capped => InFlight(e, FALSE)' = TRUE
      /\ \A f : Sending(f)' = Sending(f)
  <2>1. CASE capped
    BY <1>2, <2>1, FlightsSame
  <2>2. CASE ~capped
    BY <1>2, <1>3, <2>2, FlightStarts, SendsNothing
  <2> QED
    BY <2>1, <2>2
<1>7. \A f \in Events \ {e} : Shown(f)' = Shown(f)
  BY <1>4, <1>5, <1>6, ShowsSame
<1> DEFINE n == op[e].polls + 1
<1>8. PICK p, s, a, b : p = InFlight(e, TRUE) /\ s = Sending(e) /\ a = InFlight(e, FALSE) /\ b = InFlight(e, FALSE)'
  OBVIOUS
<1>9. View[e] = Look(op[e].state, TxOf(e), ByOf(e), p, s, a, op[e].polls)
  BY <1>1, <1>8, Seen
<1>10. Shown(e)' = Look(op[e].state, TxOf(e), ByOf(e), p, s, b, n)
  BY <1>1, <1>4, <1>5, <1>6, <1>8, ShownAfter
<1>11. PICK r : r = [View[e] EXCEPT !.asking = b]
  OBVIOUS
<1>12. Shown(e)' = [r EXCEPT !.polls = n]
  <2>1. r = Look(op[e].state, TxOf(e), ByOf(e), p, s, b, op[e].polls)
    BY <1>9, <1>11 DEF Look
  <2>2. [r EXCEPT !.polls = n] = Look(op[e].state, TxOf(e), ByOf(e), p, s, b, n)
    BY <2>1 DEF Look
  <2> QED
    BY <1>10, <2>2
<1> HIDE DEF capped, n
<1>13. View' = [View EXCEPT ![e].asking = b, ![e].polls = n]
  <2>1. View' = [View EXCEPT ![e] = [r EXCEPT !.polls = n]]
    BY <1>1, <1>7, <1>12, ViewChanges
  <2>2. DOMAIN View = Events
    BY DEF View
  <2>3. PICK V : V = [View EXCEPT ![e] = r]
    OBVIOUS
  <2>4. V[e] = r /\ [V EXCEPT ![e] = [V[e] EXCEPT !.polls = n]] = [View EXCEPT ![e] = [r EXCEPT !.polls = n]]
    BY <1>1, <2>2, <2>3
  <2>5. V = [View EXCEPT ![e].asking = b]
    BY <1>11, <2>3
  <2>6. [V EXCEPT ![e].polls = n] = [View EXCEPT ![e].asking = b, ![e].polls = n]
    BY <2>5, Zenon
  <2> QED
    BY <2>1, <2>4, <2>6
<1>14. Open(e) /\ View[e].row = op[e].state /\ View[e].polls = op[e].polls /\ View[e].asking = a
  BY <1>1, <1>2, <1>8, Seen
<1>15. n = IF MaxPolls = -1 \/ View[e].polls > MaxPolls THEN View[e].polls ELSE View[e].polls + 1
  BY <1>1, <1>2, <1>14 DEF n
<1>16. b = (Operation!UnderCap(e) \/ View[e].asking)
  <2>1. Operation!UnderCap(e) <=> ~capped
    BY <1>1, <1>2, <1>14 DEF Operation!UnderCap, View, capped
  <2> QED
    BY <1>6, <1>8, <1>14, <2>1 DEF InFlight
<1>17. Operation!Open(e)
  BY <1>14 DEF Open, Operation!Open, Operation!Terminal, Terminal, View
<1>18. Operation!Ask(e)
  BY <1>13, <1>15, <1>16, <1>17 DEF Operation!Ask, View
<1> QED
  BY <1>18 DEF OperationStep

\* The mempool holds transactions of rows, and what it holds may be mined already
\* only if it does not look pending.
LEMMA PoolSeen ==
  ASSUME RelayInv, NEW tx \in pool
  PROVE  /\ tx.event \in Events /\ tx = Tx(tx.event) /\ HasTx(tx.event) /\ tx.nonce \in Nat
         /\ op[tx.event].nonce = tx.nonce
         /\ ~IsMined(tx) => View[tx.event].tx = "pending"
<1> DEFINE e == tx.event
<1>1. e \in Events /\ tx.nonce \in Nat /\ tx = Tx(e)
  BY TypeParts DEF RelayInv, ChainOK, NonceInv, OnlyDurableBroadcast
<1>2. op[e].nonce = tx.nonce /\ HasTx(e)
  BY <1>1 DEF Tx, HasTx, NoNonce
<1> HIDE DEF e
<1>3. ~IsMined(tx) => TxOf(e) = "pending"
  BY <1>1, <1>2 DEF TxOf, IsFinal
<1> QED
  BY <1>1, <1>2, <1>3, Seen DEF e

\* A transaction that is mined.
LEMMA MineRefines ==
  ASSUME RelayInv, "external" \notin Faults => WasteInv, [Next]_vars, NEW tx \in pool, Mine(tx)
  PROVE  OperationStep(tx.event)
<1> USE DEF RelayInv
<1> DEFINE e == tx.event
           ok == Contract!Accepts(Core[e])
<1>1. /\ e \in Events /\ tx = Tx(e) /\ HasTx(e) /\ tx.nonce = Len(mined) /\ op[e].nonce = tx.nonce
      /\ Len(mined) \in Nat
  BY PoolSeen, MinedElements DEF Mine
<1>2. /\ Len(mined') = Len(mined) + 1 /\ mined'[Len(mined) + 1].event = e /\ mined'[Len(mined) + 1].ok = ok
      /\ \A i \in 1..Len(mined) : mined'[i] = mined[i]
  BY MinedChanges
<1>3. /\ pool' = {t \in pool : t.nonce # tx.nonce} /\ final' = final /\ op' = op /\ job' = job
      /\ ok => Contract!AnchorEvent(Core[e])
      /\ ~ok => UNCHANGED registryVars
  BY DEF Mine, dbVars
<1> HIDE DEF e, ok
<1>4. /\ ok => e \notin anchoredEvents /\ anchoredEvents' = anchoredEvents \cup {e}
      /\ ~ok => anchoredEvents' = anchoredEvents
  <2>1. Core[e].eventHash = e
    BY <1>1, RelayAssumption
  <2> QED
    BY <1>3, <2>1 DEF Contract!AnchorEvent, Contract!Accepts, registryVars, ok
<1>5. \A f \in Events : Tx(f)' = Tx(f) /\ HasTx(f)' = HasTx(f)
  BY <1>3 DEF Tx, HasTx
<1>6. ASSUME NEW f \in Events, f # e PROVE Shown(f)' = Shown(f)
  <2> DEFINE n == op[f].nonce
  <2>1. IsMined(Tx(f))' = IsMined(Tx(f))
    <3>1. IsMined(Tx(f)) = (n \in 0..(Len(mined) - 1) /\ mined[n + 1].event = f)
      BY DEF IsMined, Tx
    <3>2. IsMined(Tx(f))' = (n \in 0..(Len(mined') - 1) /\ mined'[n + 1].event = f)
      BY <1>3 DEF IsMined, Tx
    <3>3. n \in 0..(Len(mined) - 1) => n + 1 \in 1..Len(mined)
      BY <1>1
    <3>4. n \in 0..(Len(mined') - 1) <=> n \in 0..(Len(mined) - 1) \/ n = Len(mined)
      BY <1>1, <1>2
    <3>5. n = Len(mined) => mined'[n + 1].event # f /\ n \notin 0..(Len(mined) - 1)
      BY <1>1, <1>2, <1>6
    <3> HIDE DEF n
    <3>6. CASE n \in 0..(Len(mined) - 1)
      BY <1>2, <3>1, <3>2, <3>3, <3>4, <3>6
    <3>7. CASE n \notin 0..(Len(mined) - 1)
      BY <3>1, <3>2, <3>4, <3>5, <3>7
    <3> QED
      BY <3>6, <3>7
  <2>2. IsFinal(Tx(f))' = IsFinal(Tx(f))
    <3>1. Tx(f)'.nonce = Tx(f).nonce
      BY <1>5, <1>6
    <3> QED
      BY <1>3, <2>1, <3>1 DEF IsFinal
  <2>3. HasTx(f) => (Tx(f) \in pool' <=> Tx(f) \in pool)
    <3>1. HasTx(f) => op[f].nonce # op[e].nonce
      BY <1>1, <1>6 DEF NonceInv, NoncesDistinct
    <3> QED
      BY <1>1, <1>3, <3>1 DEF Tx
  <2>4. TxOf(f)' = TxOf(f)
    BY <1>5, <2>1, <2>2, <2>3 DEF TxOf
  <2>5. IsMined(Tx(f)) => op'[f].nonce = op[f].nonce /\ mined'[op[f].nonce + 1] = mined[op[f].nonce + 1]
    <3>1. IsMined(Tx(f)) => op[f].nonce + 1 \in 1..Len(mined)
      BY <1>1 DEF IsMined, Tx
    <3> QED
      BY <1>2, <1>3, <3>1
  <2>6. f \in anchoredEvents' <=> f \in anchoredEvents
    BY <1>4, <1>6
  <2>7. ByOf(f)' = ByOf(f)
    BY <1>3, <2>1, <2>5, <2>6 DEF ByOf
  <2> QED
    BY <1>3, <2>4, <2>7, FlightsSame, ShowsSame
<1>7. ~IsMined(Tx(e)) /\ IsMined(Tx(e))'
  <2>1. ~IsMined(Tx(e))
    BY <1>1 DEF IsMined
  <2>2. op'[e].nonce = Len(mined)
    BY <1>1, <1>3
  <2>3. Len(mined) \in 0..(Len(mined') - 1)
    BY <1>1, <1>2
  <2> QED
    BY <1>2, <2>1, <2>2, <2>3 DEF IsMined, Tx
<1>8. TxOf(e)' = "mined"
  <2>1. HasTx(e)' /\ ~(op'[e].nonce < final')
    BY <1>1, <1>3, <1>5, TypeParts DEF ChainOK
  <2> QED
    BY <1>7, <2>1 DEF TxOf, IsFinal, Tx
<1>9. /\ e \in anchoredEvents => ByOf(e) = "other" /\ ByOf(e)' = "other"
      /\ e \notin anchoredEvents => ByOf(e) = "nobody" /\ ByOf(e)' = IF ok THEN "relay" ELSE "nobody"
  <2>1. mined'[op'[e].nonce + 1].ok = ok
    BY <1>1, <1>2, <1>3
  <2> QED
    BY <1>4, <1>7, <2>1 DEF ByOf
<1>10. "external" \in Faults \/ ok
  <2>1. CASE "external" \notin Faults
    <3>1. e \in Rows /\ e \notin anchoredEvents
      BY <2>1, MinesARow DEF WasteInv, e
    <3> QED
      BY <1>1, <2>1, <3>1, ReadyIsAccepted DEF WasteInv, RowsReady, ok
  <2> QED
    BY <2>1
<1>11. PICK by : by = ByOf(e)'
  OBVIOUS
<1>12. by \in IF View[e].by # "nobody" THEN {View[e].by}
              ELSE {"relay"} \cup (IF "external" \in Faults THEN {"nobody"} ELSE {})
  BY <1>1, <1>9, <1>10, <1>11, Seen
<1>13. View[e].tx = "pending"
  BY <1>1, <1>7, PoolSeen DEF e
<1>14. View' = [View EXCEPT ![e] = [View[e] EXCEPT !.tx = "mined", !.by = by]]
  <2>1. PICK p, s, a : p = InFlight(e, TRUE) /\ s = Sending(e) /\ a = InFlight(e, FALSE)
    OBVIOUS
  <2>2. View[e] = Look(op[e].state, TxOf(e), ByOf(e), p, s, a, op[e].polls)
    BY <1>1, <2>1, Seen
  <2>3. Shown(e)' = Look(op[e].state, "mined", by, p, s, a, op[e].polls)
    BY <1>1, <1>3, <1>8, <1>11, <2>1, FlightsSame, ShownAfter
  <2>4. PICK r : r = [View[e] EXCEPT !.tx = "mined"]
    OBVIOUS
  <2>5. r = Look(op[e].state, "mined", ByOf(e), p, s, a, op[e].polls)
    BY <2>2, <2>4 DEF Look
  <2>6. [r EXCEPT !.by = by] = Look(op[e].state, "mined", by, p, s, a, op[e].polls)
    BY <2>5 DEF Look
  <2>7. [View[e] EXCEPT !.tx = "mined", !.by = by] = [r EXCEPT !.by = by]
    BY <2>4, Zenon
  <2>8. View' = [View EXCEPT ![e] = Shown(e)']
    BY <1>1, <1>6, ViewChanges
  <2> QED
    BY <2>3, <2>6, <2>7, <2>8
<1>15. Operation!Mine(e)
  <2>1. View' = [View EXCEPT ![e] = [@ EXCEPT !.tx = "mined", !.by = by]]
    BY <1>14
  <2>2. \E b \in IF View[e].by # "nobody" THEN {View[e].by}
                 ELSE {"relay"} \cup (IF "external" \in Faults THEN {"nobody"} ELSE {}) :
          View' = [View EXCEPT ![e] = [@ EXCEPT !.tx = "mined", !.by = b]]
    BY <1>12, <2>1, Zenon
  <2> QED
    BY <1>13, <2>2, Zenon DEF Operation!Mine, View
<1> QED
  BY <1>15 DEF OperationStep, Operation!ChainStep, e

\* A step of the chain that shows on the transaction of one event.
LEMMA TxAlone ==
  ASSUME NEW e \in Events, UNCHANGED <<op, job>>, \A f \in Events : ByOf(f)' = ByOf(f),
         \A f \in Events \ {e} : TxOf(f)' = TxOf(f)
  PROVE  View' = [View EXCEPT ![e].tx = TxOf(e)']
<1>1. \A f \in Events \ {e} : Shown(f)' = Shown(f)
  BY FlightsSame, ShowsSame
<1>2. PICK p, s, a : p = InFlight(e, TRUE) /\ s = Sending(e) /\ a = InFlight(e, FALSE)
  OBVIOUS
<1>3. View[e] = Look(op[e].state, TxOf(e), ByOf(e), p, s, a, op[e].polls)
  BY <1>2, Seen
<1>4. Shown(e)' = Look(op[e].state, TxOf(e)', ByOf(e), p, s, a, op[e].polls)
  BY <1>2, FlightsSame, ShownAfter
<1>5. [View[e] EXCEPT !.tx = TxOf(e)'] = Look(op[e].state, TxOf(e)', ByOf(e), p, s, a, op[e].polls)
  BY <1>3 DEF Look
<1> QED
  BY <1>1, <1>4, <1>5, ViewChanges

\* A transaction that reaches the confirmation target.
LEMMA ConfirmRefines ==
  ASSUME RelayInv, [Next]_vars, Confirm
  PROVE  \E e \in Events : OperationStep(e)
<1> USE DEF RelayInv
<1>1. /\ final < Len(mined) /\ final' = final + 1 /\ UNCHANGED <<op, job, pool, mined, registryVars>>
      /\ final \in Nat /\ Len(mined) \in Nat
  BY MinedElements, TypeParts DEF Confirm, ChainOK, dbVars
<1>2. PICK e \in Events : e = mined[final + 1].event
  BY <1>1, MinedElements
<1>3. op[e].nonce = final /\ HasTx(e)
  <2>1. final + 1 \in DOMAIN mined
    BY <1>1, MinedElements
  <2> QED
    BY <1>1, <1>2, <2>1 DEF NonceInv, OnlyDurableBroadcast, HasTx, NoNonce
<1>4. \A f \in Events : Tx(f)' = Tx(f) /\ HasTx(f)' = HasTx(f) /\ IsMined(Tx(f))' = IsMined(Tx(f))
  BY <1>1 DEF Tx, HasTx, IsMined
<1>5. \A f \in Events : ByOf(f)' = ByOf(f)
  BY <1>1, AnchorStays DEF registryVars
<1>6. ASSUME NEW f \in Events, f # e PROVE TxOf(f)' = TxOf(f)
  <2>1. IsMined(Tx(f)) => op[f].nonce \in Nat /\ op[f].nonce # final
    BY <1>1, <1>2, <1>6 DEF IsMined, Tx
  <2>2. IsFinal(Tx(f))' = (IsMined(Tx(f)) /\ op[f].nonce < final + 1)
    BY <1>1, <1>4 DEF IsFinal, Tx
  <2>3. IsFinal(Tx(f)) = (IsMined(Tx(f)) /\ op[f].nonce < final)
    BY DEF IsFinal, Tx
  <2>4. IsFinal(Tx(f))' = IsFinal(Tx(f))
    BY <1>1, <2>1, <2>2, <2>3
  <2> QED
    BY <1>1, <1>4, <2>4 DEF TxOf
<1>7. IsMined(Tx(e))
  BY <1>1, <1>2, <1>3 DEF IsMined, Tx
<1>8. TxOf(e) = "mined"
  BY <1>1, <1>3, <1>7 DEF TxOf, IsFinal, Tx
<1>9. TxOf(e)' = "final"
  BY <1>1, <1>3, <1>4, <1>7 DEF TxOf, IsFinal, Tx
<1>10. View' = [View EXCEPT ![e].tx = "final"] /\ View[e].tx = "mined"
  BY <1>1, <1>5, <1>6, <1>8, <1>9, Seen, TxAlone
<1>11. Operation!Confirm(e)
  BY <1>10 DEF Operation!Confirm, View
<1> QED
  BY <1>11 DEF OperationStep, Operation!ChainStep

\* A transaction the node drops.
LEMMA EvictRefines ==
  ASSUME RelayInv, [Next]_vars, NEW tx \in pool, Evict(tx)
  PROVE  UNCHANGED View \/ OperationStep(tx.event)
<1> DEFINE e == tx.event
<1>1. e \in Events /\ tx = Tx(e) /\ HasTx(e) /\ (~IsMined(tx) => View[e].tx = "pending")
  BY PoolSeen
<1>2. pool' = pool \ {tx} /\ UNCHANGED <<op, job, mined, final, registryVars>>
  BY DEF Evict, dbVars
<1> HIDE DEF e
<1>3. \A f \in Events : ByOf(f)' = ByOf(f)
  BY <1>2, AnchorStays DEF registryVars
<1>4. \A f \in Events \ {e} : TxOf(f)' = TxOf(f)
  <2>1. \A f \in Events \ {e} : Tx(f) # tx
    BY <1>1 DEF Tx
  <2> QED
    BY <1>2, <2>1, TxStays
<1>5. Tx(e)' = Tx(e) /\ HasTx(e)' = HasTx(e) /\ IsMined(Tx(e))' = IsMined(Tx(e)) /\ IsFinal(Tx(e))' = IsFinal(Tx(e))
  BY <1>2 DEF Tx, HasTx, IsMined, IsFinal
<1>6. CASE IsMined(tx)
  <2>1. TxOf(e)' = TxOf(e)
    BY <1>1, <1>5, <1>6 DEF TxOf
  <2>2. \A f \in Events : Shown(f)' = Shown(f)
    BY <1>2, <1>3, <1>4, <2>1, FlightsSame, ShowsSame
  <2> QED
    BY <2>2 DEF View
<1>7. CASE ~IsMined(tx)
  <2>1. TxOf(e)' = "lost"
    BY <1>1, <1>2, <1>5, <1>7 DEF TxOf, IsFinal
  <2>2. View' = [View EXCEPT ![e].tx = "lost"]
    BY <1>1, <1>2, <1>3, <1>4, <2>1, TxAlone
  <2>3. Operation!Evict(e)
    BY <1>1, <1>7, <2>2 DEF Operation!Evict, View
  <2> QED
    BY <2>3 DEF OperationStep, e
<1> QED
  BY <1>6, <1>7

\* Another sender's call.
LEMMA ExternalRefines ==
  ASSUME RelayInv, [Next]_vars, NEW e \in Events, AnchorExternally(e)
  PROVE  OperationStep(e)
<1> USE DEF RelayInv
<1>1. Contract!AnchorEvent(Core[e]) /\ UNCHANGED <<op, job, pool, mined, final>> /\ "external" \in Faults
  BY DEF AnchorExternally, Fault, dbVars
<1>2. e \notin anchoredEvents /\ anchoredEvents' = anchoredEvents \cup {e}
  <2>1. Core[e].eventHash = e
    BY RelayAssumption
  <2> QED
    BY <1>1, <2>1 DEF Contract!AnchorEvent, Contract!Accepts
<1>3. \A f \in Events : TxOf(f)' = TxOf(f)
  BY <1>1, TxStays
<1>4. ASSUME NEW f \in Events
      PROVE  /\ IsMined(Tx(f))' = IsMined(Tx(f))
             /\ mined'[op'[f].nonce + 1].ok = mined[op[f].nonce + 1].ok
  BY <1>1 DEF IsMined, Tx
<1>5. \A f \in Events \ {e} : ByOf(f)' = ByOf(f)
  BY <1>2, <1>4 DEF ByOf
<1>6. ByOf(e) = "nobody" /\ ByOf(e)' = "other"
  <2>1. ASSUME IsMined(Tx(e)), mined[op[e].nonce + 1].ok PROVE FALSE
    <3>1. op[e].nonce + 1 \in DOMAIN mined /\ mined[op[e].nonce + 1].event = e
      BY <2>1, MinedElements DEF IsMined, Tx
    <3>2. RegistryMatches(e)
      BY <2>1, <3>1 DEF OutcomeInv, MinedMatches
    <3> QED
      BY <1>2, <3>2 DEF RegistryMatches
  <2> QED
    BY <1>2, <1>4, <2>1 DEF ByOf
<1>7. \A f \in Events \ {e} : Shown(f)' = Shown(f)
  BY <1>1, <1>3, <1>5, FlightsSame, ShowsSame
<1>8. Shown(e)' = [View[e] EXCEPT !.by = "other"]
  <2>1. PICK p, s, a : p = InFlight(e, TRUE) /\ s = Sending(e) /\ a = InFlight(e, FALSE)
    OBVIOUS
  <2>2. View[e] = Look(op[e].state, TxOf(e), ByOf(e), p, s, a, op[e].polls)
    BY <2>1, Seen
  <2>3. Shown(e)' = Look(op[e].state, TxOf(e), "other", p, s, a, op[e].polls)
    BY <1>1, <1>3, <1>6, <2>1, FlightsSame, ShownAfter
  <2>4. [View[e] EXCEPT !.by = "other"] = Look(op[e].state, TxOf(e), "other", p, s, a, op[e].polls)
    BY <2>2 DEF Look
  <2> QED
    BY <2>3, <2>4
<1>9. View' = [View EXCEPT ![e].by = "other"] /\ View[e].by = "nobody"
  BY <1>6, <1>7, <1>8, Seen, ViewChanges
<1>10. Operation!AnchorExternally(e)
  BY <1>1, <1>9 DEF Operation!AnchorExternally, View
<1> QED
  BY <1>10 DEF OperationStep

\* What nobody who looks at the operations sees.
LEMMA QuietSteps ==
  ASSUME RelayInv, [Next]_vars, UNCHANGED vars \/ NextDay \/ \E e \in Events : BecomeDue(e)
  PROVE  UNCHANGED View
<1>1. UNCHANGED <<job, pool, mined, final, registryVars>>
  BY DEF vars, NextDay, BecomeDue, chainVars
<1>2. ASSUME NEW f \in Events
      PROVE  op'[f].state = op[f].state /\ op'[f].nonce = op[f].nonce /\ op'[f].polls = op[f].polls
  <2>1. op \in [Events -> Row]
    BY TypeParts DEF RelayInv, RowsOK
  <2>2. CASE op' = op
    BY <2>2
  <2>3. ASSUME NEW e \in Events, op' = [op EXCEPT ![e] = [op[e] EXCEPT !.due = TRUE]]
        PROVE  op'[f].state = op[f].state /\ op'[f].nonce = op[f].nonce /\ op'[f].polls = op[f].polls
    BY <2>1, <2>3 DEF Row
  <2>4. op' = op \/ \E e \in Events : op' = [op EXCEPT ![e] = [op[e] EXCEPT !.due = TRUE]]
    BY DEF vars, dbVars, NextDay, BecomeDue
  <2> QED
    BY <2>2, <2>3, <2>4
<1>3. \A f \in Events : ByOf(f)' = ByOf(f) /\ TxOf(f)' = TxOf(f)
  BY <1>1, <1>2, AnchorStays, TxStays DEF registryVars
<1>4. \A f \in Events : Shown(f)' = Shown(f)
  BY <1>1, <1>2, <1>3, FlightsSame, ShowsSame
<1> QED
  BY <1>4 DEF View

\* Every step of the relay, and of the chain and the node, is one of the operation
\* of one event or is not seen.
LEMMA StepRefines ==
  ASSUME RelayInv, RelayInv', ViewInv, "external" \notin Faults => WasteInv, [Next]_vars
  PROVE  [Operation!Next]_View
<1>1. ASSUME NEW w \in Workers, Step(w) \/ Fail(w) PROVE \E e \in Events : OperationStep(e)
  <2>1. PICK e \in Events : e = Event(w)
    BY <1>1, RequestMoves, RunningEvent, TypeParts DEF RelayInv
  <2> QED
    BY <1>1, <2>1, RequestRefines
<1>2. ASSUME NEW w \in Workers, NEW r \in Requests, StartRelay(w, r) PROVE \E e \in Events : OperationStep(e)
  BY <1>2, PostRefines, RelayAssumption
<1>3. ASSUME NEW w \in Workers, NEW e \in Polled, GetOperation(w, e) PROVE \E f \in Events : OperationStep(f)
  BY <1>3, GetRefines, RelayAssumption
<1>4. ASSUME NEW tx \in pool, Mine(tx) PROVE \E e \in Events : OperationStep(e)
  BY <1>4, MineRefines, PoolSeen
<1>5. ASSUME NEW tx \in pool, Evict(tx) PROVE UNCHANGED View \/ \E e \in Events : OperationStep(e)
  BY <1>5, EvictRefines, PoolSeen
<1>6. CASE Confirm \/ \E e \in Events : AnchorExternally(e)
  BY <1>6, ConfirmRefines, ExternalRefines, OperationMoves
<1>7. CASE UNCHANGED vars \/ NextDay \/ \E e \in Events : BecomeDue(e)
  BY <1>7, QuietSteps, OperationMoves
<1> QED
  BY <1>1, <1>2, <1>3, <1>4, <1>5, <1>6, <1>7, OperationMoves DEF Next, ChainStep

LEMMA InitRefines == Init => Operation!Init
<1> SUFFICES ASSUME Init PROVE Operation!Init
  OBVIOUS
<1>1. \A e \in Events : op[e] = NoRow /\ ~HasTx(e) /\ e \notin anchoredEvents
  BY DEF Init, NoRow, HasTx, Contract!Init
<1>2. \A e \in Events : TxOf(e) = "none" /\ ByOf(e) = "nobody"
  BY <1>1 DEF TxOf, ByOf
<1>3. \A e \in Events : InFlight(e, TRUE) = FALSE /\ Sending(e) = FALSE /\ InFlight(e, FALSE) = FALSE
  BY DEF Init, InFlight, Sending, At, Idle
<1>4. ASSUME NEW e \in Events PROVE Shown(e) = Operation!New
  <2>1. PICK no : no = FALSE
    OBVIOUS
  <2>2. Shown(e) = Look("NONE", "none", "nobody", no, no, no, 0)
    <3>1. op[e].state = "NONE" /\ op[e].polls = 0 /\ TxOf(e) = "none" /\ ByOf(e) = "nobody"
      BY <1>1, <1>2 DEF NoRow
    <3>2. PICK p, s, a : p = InFlight(e, TRUE) /\ s = Sending(e) /\ a = InFlight(e, FALSE)
      OBVIOUS
    <3>3. Shown(e) = Look("NONE", "none", "nobody", p, s, a, 0)
      BY <3>1, <3>2, ShownParts
    <3>4. p = no /\ s = no /\ a = no
      BY <1>3, <2>1, <3>2
    <3> QED
      BY <3>3, <3>4
  <2> QED
    BY <2>1, <2>2 DEF Look, Operation!New
<1> QED
  BY <1>4 DEF Operation!Init

\* The relay keeps the promises of docs/RELAY.md on the operation of an event: which
\* request may change a row and when, that a GET hands nothing to the node, and
\* that a result is the one the chain shows.
THEOREM ImplementsOperation == Spec => Implements
<1>1. Init => ViewInv
  BY DEF Init, ViewInv, At, Idle
<1>2. RelayInv /\ ViewInv /\ [Next]_vars => (RelayInv /\ ViewInv)'
  BY RelayInvInductive, ViewInvInductive
<1> DEFINE Undisturbed == "external" \notin Faults => WasteInv
<1>3. Init => Undisturbed
  BY WasteInvInitial
<1>4. RelayInv /\ Undisturbed /\ [Next]_vars => (RelayInv /\ Undisturbed)'
  BY RelayInvInductive, WasteInvInductive
<1>5. RelayInv /\ RelayInv' /\ ViewInv /\ Undisturbed /\ [Next]_vars => [Operation!Next]_View
  BY StepRefines
<1> HIDE DEF Undisturbed
<1> QED
  BY RelayInvInductive, InitRefines, <1>1, <1>2, <1>3, <1>4, <1>5, PTL DEF Spec, Implements, Operation!Spec, View

-----------------------------------------------------------------------------
(* Sums over a finite set.  There is no induction rule to cite with a formula, *)
(* but the order of the finite subsets is well founded: what fails for some    *)
(* subset fails for a least one, and taking one element out of it refutes that. *)

\* A property of subsets that fails somewhere fails at a least set.
LEMMA LeastSubset ==
  ASSUME NEW S, IsFiniteSet(S), NEW T, T \subseteq SUBSET S, T # {}
  PROVE  \E s \in T : \A t \in T : t \subseteq s => t = s
<1>1. IsWellFoundedOn(StrictSubsetOrdering(S), SUBSET S)
  BY FS_StrictSubsetOrderingWellFounded, FS_FiniteSubsetsOfFinite
<1>2. PICK s \in T : \A t \in T : <<t, s>> \notin StrictSubsetOrdering(S)
  BY <1>1, WFMin
<1> QED
  BY <1>2 DEF StrictSubsetOrdering

\* MapThenSumSet takes the elements out one by one, by a function g on the subsets.
One(s) == CHOOSE x \in s : TRUE
IsSum(g, f, S) ==
  g = [s \in SUBSET S |-> IF s = {} THEN 0 ELSE f[One(s)] + g[s \ {One(s)}]]
SumFn(f, S) == CHOOSE g : IsSum(g, f, S)

LEMMA TotalIsSum == ASSUME NEW f, NEW S PROVE Total(f, S) = SumFn(f, S)[S]
  BY Zenon DEF Total, MapThenSumSet, MapThenFoldSet, SumFn, IsSum, One

LEMMA SumStep ==
  ASSUME NEW f, NEW S, NEW g, IsSum(g, f, S), NEW s \in SUBSET S
  PROVE  g[s] = IF s = {} THEN 0 ELSE f[One(s)] + g[s \ {One(s)}]
BY DEF IsSum

LEMMA OneIn == ASSUME NEW s, s # {} PROVE One(s) \in s
BY DEF One

\* Two such functions agree wherever both are defined.
LEMMA SumsAgree ==
  ASSUME NEW f, NEW S, IsFiniteSet(S), NEW g, IsSum(g, f, S), NEW R, NEW h, IsSum(h, f, R),
         NEW s \in SUBSET S, s \in SUBSET R
  PROVE  g[s] = h[s]
<1> DEFINE Bad == {t \in SUBSET S : t \subseteq R /\ g[t] # h[t]}
<1>1. SUFFICES ASSUME Bad # {} PROVE FALSE
  OBVIOUS
<1>2. PICK t \in Bad : \A u \in Bad : u \subseteq t => u = t
  <2>1. Bad \subseteq SUBSET S
    OBVIOUS
  <2> HIDE DEF Bad
  <2> QED
    BY <1>1, <2>1, LeastSubset
<1>3. t # {}
  <2>1. t \in SUBSET S /\ t \in SUBSET R /\ g[t] # h[t]
    BY <1>2
  <2>2. t = {} => g[t] = 0
    BY <2>1, SumStep
  <2>3. t = {} => h[t] = 0
    BY <2>1, SumStep
  <2> QED
    BY <2>1, <2>2, <2>3
<1> DEFINE u == t \ {One(t)}
<1>4. u # t /\ u \subseteq t /\ u \in SUBSET S /\ u \subseteq R
  BY <1>2, <1>3, OneIn
<1>5. g[u] = h[u]
  BY <1>2, <1>4
<1>6. t \in SUBSET S /\ t \in SUBSET R
  BY <1>2
<1>7. g[t] = f[One(t)] + g[u]
  BY <1>3, <1>6, SumStep
<1>8. h[t] = f[One(t)] + h[u]
  BY <1>3, <1>6, SumStep
<1> QED
  BY <1>2, <1>5, <1>7, <1>8

\* There is one: a least subset without one gets it from its own subsets.
LEMMA SumExists ==
  ASSUME NEW f, NEW S, IsFiniteSet(S)
  PROVE  IsSum(SumFn(f, S), f, S)
<1> DEFINE Bad == {t \in SUBSET S : ~\E g : IsSum(g, f, t)}
<1>1. SUFFICES Bad = {}
  BY <1>1 DEF SumFn
<1>2. SUFFICES ASSUME Bad # {} PROVE FALSE
  OBVIOUS
<1>3. PICK s \in Bad : \A u \in Bad : u \subseteq s => u = s
  <2>1. Bad \subseteq SUBSET S
    OBVIOUS
  <2> HIDE DEF Bad
  <2> QED
    BY <1>2, <2>1, LeastSubset
<1> DEFINE V(t) == SumFn(f, t)[t]
           G == [t \in SUBSET s |-> IF t = {} THEN 0 ELSE f[One(t)] + V(t \ {One(t)})]
<1>4. \A t \in SUBSET s : t # s => IsSum(SumFn(f, t), f, t) /\ IsFiniteSet(t)
  BY <1>3, FS_Subset DEF SumFn
<1>5. ASSUME NEW t \in SUBSET s, t # s PROVE V(t) = G[t]
  <2>1. CASE t = {}
    BY <1>4, <1>5, <2>1, SumStep
  <2>2. CASE t # {}
    <3> DEFINE u == t \ {One(t)}
    <3>1. u \in SUBSET t /\ u \in SUBSET s /\ u # s
      BY <1>5
    <3>2. IsSum(SumFn(f, t), f, t) /\ IsFiniteSet(t) /\ IsSum(SumFn(f, u), f, u) /\ IsFiniteSet(u)
      BY <1>4, <1>5, <3>1
    <3>3. V(t) = f[One(t)] + SumFn(f, t)[u]
      BY <2>2, <3>2, SumStep
    <3>4. SumFn(f, t)[u] = SumFn(f, u)[u]
      BY <3>1, <3>2, SumsAgree
    <3> QED
      BY <2>2, <3>3, <3>4
  <2> QED
    BY <2>1, <2>2
<1>6. G = [t \in SUBSET s |-> IF t = {} THEN 0 ELSE f[One(t)] + G[t \ {One(t)}]]
  <2>1. ASSUME NEW t \in SUBSET s, t # {} PROVE V(t \ {One(t)}) = G[t \ {One(t)}]
    BY <1>5, <2>1, OneIn
  <2> QED
    BY <2>1
<1>7. IsSum(G, f, s)
  BY <1>6 DEF IsSum
<1> QED
  BY <1>3, <1>7

LEMMA TotalEmpty == ASSUME NEW f PROVE Total(f, {}) = 0
  BY SumExists, TotalIsSum, SumStep, FS_EmptySet

\* The equation of the sum, for the element CHOOSE picks.
LEMMA TotalTakesOne ==
  ASSUME NEW f, NEW S, IsFiniteSet(S), S # {}
  PROVE  Total(f, S) = f[One(S)] + Total(f, S \ {One(S)})
<1> DEFINE R == S \ {One(S)}
<1>1. IsFiniteSet(R)
  BY FS_Subset
<1>2. Total(f, S) = f[One(S)] + SumFn(f, S)[R]
  BY SumExists, TotalIsSum, SumStep
<1>3. SumFn(f, S)[R] = SumFn(f, R)[R]
  <2>1. R \in SUBSET S /\ R \in SUBSET R /\ IsSum(SumFn(f, S), f, S) /\ IsSum(SumFn(f, R), f, R)
    BY <1>1, SumExists
  <2> QED
    BY <2>1, SumsAgree
<1> QED
  BY <1>2, <1>3, TotalIsSum

LEMMA TotalType ==
  ASSUME NEW S, IsFiniteSet(S), NEW f, \A x \in S : f[x] \in Nat
  PROVE  Total(f, S) \in Nat
<1> DEFINE Bad == {t \in SUBSET S : Total(f, t) \notin Nat}
<1>1. SUFFICES ASSUME Bad # {} PROVE FALSE
  OBVIOUS
<1>2. PICK t \in Bad : \A u \in Bad : u \subseteq t => u = t
  <2>1. Bad \subseteq SUBSET S
    OBVIOUS
  <2> HIDE DEF Bad
  <2> QED
    BY <1>1, <2>1, LeastSubset
<1>3. t # {} /\ IsFiniteSet(t)
  <2>1. IsFiniteSet(t)
    BY <1>2, FS_Subset
  <2>2. Total(f, t) \notin Nat
    BY <1>2
  <2>3. ASSUME t = {} PROVE FALSE
    BY <2>2, <2>3, TotalEmpty
  <2> QED
    BY <2>1, <2>3
<1>4. One(t) \in t
  BY <1>3, OneIn
<1>5. Total(f, t \ {One(t)}) \in Nat
  BY <1>2, <1>4
<1> QED
  BY <1>2, <1>3, <1>4, <1>5, TotalTakesOne

\* Whichever element is taken out first.
LEMMA TotalWithout ==
  ASSUME NEW S, IsFiniteSet(S), NEW f, \A x \in S : f[x] \in Nat, NEW e \in S
  PROVE  Total(f, S) = f[e] + Total(f, S \ {e})
<1> DEFINE Bad == {t \in SUBSET S : \E x \in t : Total(f, t) # f[x] + Total(f, t \ {x})}
<1>1. SUFFICES ASSUME Bad # {} PROVE FALSE
  OBVIOUS
<1>2. PICK t \in Bad : \A u \in Bad : u \subseteq t => u = t
  <2>1. Bad \subseteq SUBSET S
    OBVIOUS
  <2> HIDE DEF Bad
  <2> QED
    BY <1>1, <2>1, LeastSubset
<1>3. PICK x \in t : Total(f, t) # f[x] + Total(f, t \ {x})
  BY <1>2
<1> DEFINE y == One(t)
           u == t \ {x, y}
<1>4. IsFiniteSet(t) /\ t # {} /\ y \in t /\ t \subseteq S
  BY <1>2, <1>3, OneIn, FS_Subset
<1>5. Total(f, t) = f[y] + Total(f, t \ {y})
  BY <1>4, TotalTakesOne
<1>6. x # y
  BY <1>3, <1>5
<1> HIDE DEF y
<1>7. Total(f, t \ {y}) = f[x] + Total(f, u) /\ Total(f, t \ {x}) = f[y] + Total(f, u)
  <2>1. t \ {y} \notin Bad /\ t \ {x} \notin Bad
    BY <1>2, <1>3, <1>4
  <2>2. x \in t \ {y} /\ y \in t \ {x} /\ (t \ {y}) \ {x} = u /\ (t \ {x}) \ {y} = u
    BY <1>3, <1>4, <1>6
  <2> QED
    BY <1>4, <2>1, <2>2
<1>8. Total(f, u) \in Nat /\ f[x] \in Nat /\ f[y] \in Nat
  BY <1>3, <1>4, TotalType, FS_Subset
<1> QED
  BY <1>3, <1>5, <1>7, <1>8

\* The sum depends on the values of f on S alone.
LEMMA TotalSame ==
  ASSUME NEW S, IsFiniteSet(S), NEW f, NEW g, \A x \in S : f[x] = g[x]
  PROVE  Total(f, S) = Total(g, S)
<1> DEFINE Bad == {t \in SUBSET S : Total(f, t) # Total(g, t)}
<1>1. SUFFICES ASSUME Bad # {} PROVE FALSE
  OBVIOUS
<1>2. PICK t \in Bad : \A u \in Bad : u \subseteq t => u = t
  <2>1. Bad \subseteq SUBSET S
    OBVIOUS
  <2> HIDE DEF Bad
  <2> QED
    BY <1>1, <2>1, LeastSubset
<1>3. t # {} /\ IsFiniteSet(t)
  BY <1>2, TotalEmpty, FS_Subset
<1>4. One(t) \in t
  BY <1>3, OneIn
<1>5. Total(f, t \ {One(t)}) = Total(g, t \ {One(t)})
  BY <1>2, <1>4
<1> QED
  BY <1>2, <1>3, <1>4, <1>5, TotalTakesOne

LEMMA TotalZero ==
  ASSUME NEW S, IsFiniteSet(S), NEW f, \A x \in S : f[x] = 0
  PROVE  Total(f, S) = 0
<1> DEFINE Bad == {t \in SUBSET S : Total(f, t) # 0}
<1>1. SUFFICES ASSUME Bad # {} PROVE FALSE
  OBVIOUS
<1>2. PICK t \in Bad : \A u \in Bad : u \subseteq t => u = t
  <2>1. Bad \subseteq SUBSET S
    OBVIOUS
  <2> HIDE DEF Bad
  <2> QED
    BY <1>1, <2>1, LeastSubset
<1>3. t # {} /\ IsFiniteSet(t)
  BY <1>2, TotalEmpty, FS_Subset
<1>4. One(t) \in t
  BY <1>3, OneIn
<1>5. Total(f, t \ {One(t)}) = 0
  BY <1>2, <1>4
<1> QED
  BY <1>2, <1>3, <1>4, <1>5, TotalTakesOne

\* A function that differs from f at e only adds to what f adds to without e.
LEMMA TotalChanges ==
  ASSUME NEW S, IsFiniteSet(S), NEW f, NEW g, NEW e \in S,
         \A x \in S : f[x] \in Nat /\ g[x] \in Nat,
         \A x \in S \ {e} : g[x] = f[x]
  PROVE  /\ Total(f, S) \in Nat /\ Total(g, S) \in Nat
         /\ f[e] <= Total(f, S)
         /\ Total(g, S) = Total(f, S) - f[e] + g[e]
<1> DEFINE R == S \ {e}
<1>1. IsFiniteSet(R)
  BY FS_Subset
<1>2. Total(f, R) = Total(g, R)
  BY <1>1, TotalSame
<1>3. Total(f, S) = f[e] + Total(f, R) /\ Total(g, S) = g[e] + Total(g, R)
  BY TotalWithout
<1>4. Total(f, R) \in Nat
  BY <1>1, TotalType
<1> HIDE DEF R
<1> QED
  BY <1>2, <1>3, <1>4

-----------------------------------------------------------------------------
(* The budget: the rows of a day add up *)

\* The writes that move money: an operation is given up, charged or inserted.
MovesMoney == \E w \in Workers : MarkExternallyAnchored(w) \/ RecordMinedCost(w) \/ AcquireOperation(w)

\* Every other step leaves what the rows of the table hold, and the budget.
LEMMA MoneyStays ==
  ASSUME TypeOK, [Next]_vars, ~MovesMoney
  PROVE  /\ UNCHANGED budget
         /\ \A e \in Events : /\ op'[e].day = op[e].day
                              /\ op'[e].reserved = op[e].reserved
                              /\ op'[e].charged = op[e].charged
<1>1. UNCHANGED budget
  <2>1. ASSUME NEW w \in Workers, Step(w) PROVE UNCHANGED budget
    BY <2>1 DEF MovesMoney, Step, Recheck, Precheck, FindAnchored, ReadRow, ReadReceipt, ReadPendingNonce,
       PrepareNewTransaction, Rebroadcast, Broadcast, MarkSubmitted, WaitForReceipt, MarkRetryable,
       DeferReconciliation, FinalizeReceipt, dbVars
  <2>2. ASSUME NEW w \in Workers, Fail(w) PROVE UNCHANGED budget
    BY <2>2 DEF Fail, RequestFails, BroadcastFails, ReconcileFails, Crash, dbVars
  <2>3. ASSUME NEW w \in Workers, NEW r \in Requests, StartRelay(w, r) PROVE UNCHANGED budget
    BY <2>3 DEF StartRelay, dbVars
  <2>4. ASSUME NEW w \in Workers, NEW e \in Polled, GetOperation(w, e) PROVE UNCHANGED budget
    BY <2>4 DEF GetOperation
  <2>5. CASE \/ ChainStep \/ NextDay \/ (\E tx \in pool : Evict(tx))
             \/ \E e \in Events : AnchorExternally(e) \/ BecomeDue(e)
    BY <2>5 DEF ChainStep, Mine, Confirm, NextDay, Evict, AnchorExternally, BecomeDue, dbVars
  <2>6. CASE UNCHANGED vars
    BY <2>6 DEF vars, dbVars
  <2> QED
    BY <2>1, <2>2, <2>3, <2>4, <2>5, <2>6 DEF Next
<1>2. ASSUME NEW e \in Events
      PROVE  op'[e].day = op[e].day /\ op'[e].reserved = op[e].reserved /\ op'[e].charged = op[e].charged
  <2>1. op[e] \in Row
    BY TypeParts DEF RowsOK
  <2> DEFINE Kept == /\ op'[e].day = op[e].day /\ op'[e].reserved = op[e].reserved
                     /\ op'[e].charged = op[e].charged
  <2>2. op'[e] = Retryable(op[e]) => Kept
    BY <2>1 DEF Retryable, Row
  <2>3. op'[e] = Rebroadcasting(op[e]) => Kept
    BY <2>1 DEF Rebroadcasting, Row
  <2>4. /\ op'[e] = [op[e] EXCEPT !.state = "SUBMITTED", !.due = FALSE] => Kept
        /\ op'[e] = [op[e] EXCEPT !.state = Outcome(e), !.due = TRUE] => Kept
    BY <2>1 DEF Row
  <2>5. /\ op'[e] = [op[e] EXCEPT !.due = TRUE] => Kept
        /\ op'[e] = [op[e] EXCEPT !.due = FALSE] => Kept
        /\ op'[e] = [op[e] EXCEPT !.polls = op[e].polls + 1] => Kept
    BY <2>1 DEF Row
  <2>6. ASSUME NEW w \in Workers,
               op'[e] = [op[e] EXCEPT !.state = "SUBMITTING", !.nonce = NextNonce(w),
                                      !.attempts = op[e].attempts + 1, !.due = FALSE]
        PROVE  Kept
    BY <2>1, <2>6 DEF Row
  <2> HIDE DEF Kept
  <2>7. RowChange(e) => Kept
    <3>1. \A w \in Workers : ~MarkExternallyAnchored(w) /\ ~RecordMinedCost(w) /\ ~AcquireOperation(w)
      BY DEF MovesMoney
    <3> QED
      BY <2>2, <2>3, <2>4, <2>5, <2>6, <3>1, ZenonT(60) DEF RowChange
  <2>8. op'[e] = op[e] => Kept
    BY DEF Kept
  <2> QED
    BY <2>7, <2>8, RowChanges DEF Kept
<1> QED
  BY <1>1, <1>2

\* One row changes, and the row of the budget of its day with it.
LEMMA OneRowMoves ==
  ASSUME IsFiniteSet(Events), TypeOK, TypeOK', BudgetAccounts,
         NEW e \in Events, NEW day \in 1..Days,
         \A f \in Events \ {e} : op'[f] = op[f],
         op'[e].day = day,
         op[e].day = day \/ (op[e].reserved = 0 /\ op[e].charged = 0),
         \A d \in (1..Days) \ {day} : budget'[d] = budget[d],
         \* what is reserved is large enough to give back the reservation of the row
         op[e].reserved <= budget[day].reserved =>
           /\ budget'[day].reserved = budget[day].reserved - op[e].reserved + op'[e].reserved
           /\ budget'[day].spent = budget[day].spent - op[e].charged + op'[e].charged
           /\ budget'[day].reserved + budget'[day].spent <= DailyBudget
  PROVE  BudgetAccounts'
<1> USE TypeParts
<1>1. ASSUME NEW f \in Events
      PROVE  /\ op[f].reserved \in Nat /\ op[f].charged \in Nat
             /\ op'[f].reserved \in Nat /\ op'[f].charged \in Nat
  BY DEF RowsOK, Row
<1>2. SUFFICES ASSUME NEW d \in 1..Days
               PROVE  /\ budget'[d].reserved = Total(ReservedOn(d)', Events)
                      /\ budget'[d].spent = Total(ChargedOn(d)', Events)
                      /\ budget'[d].reserved + budget'[d].spent <= DailyBudget
  BY DEF BudgetAccounts
<1> DEFINE r == ReservedOn(d)
           r1 == ReservedOn(d)'
           c == ChargedOn(d)
           c1 == ChargedOn(d)'
<1>3. \A x \in Events : /\ r[x] \in Nat /\ r1[x] \in Nat
                        /\ c[x] \in Nat /\ c1[x] \in Nat
  BY <1>1 DEF ReservedOn, ChargedOn
<1>4. \A x \in Events \ {e} : r1[x] = r[x] /\ c1[x] = c[x]
  BY DEF ReservedOn, ChargedOn
<1>5. /\ r[e] = (IF op[e].day = d THEN op[e].reserved ELSE 0)
      /\ r1[e] = (IF op'[e].day = d THEN op'[e].reserved ELSE 0)
      /\ c[e] = (IF op[e].day = d THEN op[e].charged ELSE 0)
      /\ c1[e] = (IF op'[e].day = d THEN op'[e].charged ELSE 0)
  BY DEF ReservedOn, ChargedOn
<1>6. /\ budget[d].reserved = Total(r, Events)
      /\ budget[d].spent = Total(c, Events)
      /\ budget[d].reserved + budget[d].spent <= DailyBudget
  BY DEF BudgetAccounts
<1> HIDE DEF r, r1, c, c1
<1>7. /\ Total(r, Events) \in Nat
      /\ r[e] <= Total(r, Events)
      /\ Total(r1, Events) = Total(r, Events) - r[e] + r1[e]
  BY <1>3, <1>4, TotalChanges
<1>8. /\ Total(c, Events) \in Nat
      /\ Total(c1, Events) = Total(c, Events) - c[e] + c1[e]
  BY <1>3, <1>4, TotalChanges
<1>9. /\ budget'[d].reserved = Total(r1, Events)
      /\ budget'[d].spent = Total(c1, Events)
      /\ budget'[d].reserved + budget'[d].spent <= DailyBudget
  <2>1. CASE d # day
    <3>1. budget'[d] = budget[d]
      BY <2>1
    <3>2. r[e] = 0 /\ r1[e] = 0 /\ c[e] = 0 /\ c1[e] = 0
      BY <1>5, <2>1
    <3> QED
      BY <1>6, <1>7, <1>8, <3>1, <3>2
  <2>2. CASE d = day
    <3>1. r[e] = op[e].reserved /\ r1[e] = op'[e].reserved /\ c[e] = op[e].charged /\ c1[e] = op'[e].charged
      BY <1>5, <2>2
    <3>2. op[e].reserved <= budget[day].reserved
      BY <1>6, <1>7, <2>2, <3>1
    <3> QED
      BY <1>6, <1>7, <1>8, <2>2, <3>1, <3>2
  <2> QED
    BY <2>1, <2>2
<1> QED
  BY <1>9 DEF r1, c1

LEMMA BudgetInductive ==
  ASSUME IsFiniteSet(Events), RelayInv, RelayInv', ViewInv, BudgetAccounts, [Next]_vars
  PROVE  BudgetAccounts'
<1> USE TypeParts DEF RelayInv
<1>1. /\ op \in [Events -> Row]
      /\ budget \in [1..Days -> [reserved : Nat, spent : Nat]]
      /\ today \in 1..Days
      /\ DailyBudget \in Nat
      /\ \A e \in Events : Fee[e] \in Nat \ {0}
  BY RelayAssumption DEF RowsOK, EnvOK
<1>2. ASSUME UNCHANGED budget,
             \A e \in Events : /\ op'[e].day = op[e].day
                               /\ op'[e].reserved = op[e].reserved
                               /\ op'[e].charged = op[e].charged
      PROVE  BudgetAccounts'
  <2>1. ASSUME NEW d \in 1..Days
        PROVE  ReservedOn(d)' = ReservedOn(d) /\ ChargedOn(d)' = ChargedOn(d)
    BY <1>2 DEF ReservedOn, ChargedOn
  <2> QED
    BY <1>2, <2>1 DEF BudgetAccounts
<1>3. ASSUME NEW w \in Workers, MarkExternallyAnchored(w) PROVE BudgetAccounts'
  <2> DEFINE e == Event(w)
             d == op[e].day
  <2>1. CASE ~Unprepared(e)
    BY <1>2, <1>3, <2>1 DEF MarkExternallyAnchored
  <2>2. CASE Unprepared(e)
    <3>1. e \in Events /\ op[e] \in Row
      BY <1>1, <1>3, RunningEvent DEF MarkExternallyAnchored, At
    <3>2. /\ op' = [op EXCEPT ![e] = [op[e] EXCEPT !.state = "FAILED_FINAL", !.reserved = 0, !.due = TRUE]]
          /\ budget' = [budget EXCEPT ![d].reserved = Unreserved(e)]
      BY <1>3, <2>2 DEF MarkExternallyAnchored
    <3> HIDE DEF e
    <3>3. d \in 1..Days /\ op[e].reserved \in Nat /\ op[e].charged \in Nat
      BY <3>1 DEF Row
    <3>4. op'[e].day = d /\ op'[e].reserved = 0 /\ op'[e].charged = op[e].charged
      BY <1>1, <3>1, <3>2 DEF Row
    <3>5. \A f \in Events \ {e} : op'[f] = op[f]
      BY <1>1, <3>1, <3>2
    <3>6. /\ budget'[d].reserved = Unreserved(e) /\ budget'[d].spent = budget[d].spent
          /\ budget[d].reserved \in Nat /\ budget[d].spent \in Nat
          /\ \A d1 \in (1..Days) \ {d} : budget'[d1] = budget[d1]
      BY <1>1, <3>2, <3>3
    <3>7. Unreserved(e) = (IF budget[d].reserved >= op[e].reserved THEN budget[d].reserved - op[e].reserved ELSE 0)
      BY DEF Unreserved
    <3>8. budget[d].reserved + budget[d].spent <= DailyBudget
      BY <3>3 DEF BudgetAccounts
    <3> HIDE DEF d
    <3>9. op[e].day = d
      BY DEF d
    <3>10. op[e].reserved <= budget[d].reserved =>
           /\ budget'[d].reserved = budget[d].reserved - op[e].reserved + op'[e].reserved
           /\ budget'[d].spent = budget[d].spent - op[e].charged + op'[e].charged
           /\ budget'[d].reserved + budget'[d].spent <= DailyBudget
      BY <1>1, <3>3, <3>4, <3>6, <3>7, <3>8
    <3> QED
      BY <3>1, <3>3, <3>4, <3>5, <3>6, <3>9, <3>10, OneRowMoves
  <2> QED
    BY <2>1, <2>2
<1>4. ASSUME NEW w \in Workers, RecordMinedCost(w) PROVE BudgetAccounts'
  <2> DEFINE e == Event(w)
             d == op[e].day
  <2>1. CASE op[e].charged > 0
    BY <1>2, <1>4, <2>1 DEF RecordMinedCost
  <2>2. CASE ~(op[e].charged > 0)
    <3>1. e \in Events /\ op[e] \in Row
      BY <1>1, <1>4, RunningEvent DEF RecordMinedCost, At
    <3>2. /\ op' = [op EXCEPT ![e] = [op[e] EXCEPT !.reserved = 0, !.charged = op[e].reserved]]
          /\ budget' = [budget EXCEPT ![d] = [reserved |-> Unreserved(e),
                                              spent |-> budget[d].spent + op[e].reserved]]
      BY <1>4, <2>2 DEF RecordMinedCost
    <3>3. d \in 1..Days /\ op[e].reserved \in Nat /\ op[e].charged \in Nat /\ op[e].charged = 0
      BY <2>2, <3>1 DEF Row
    <3> HIDE DEF e
    <3>4. op'[e].day = d /\ op'[e].reserved = 0 /\ op'[e].charged = op[e].reserved
      BY <1>1, <3>1, <3>2 DEF Row
    <3>5. \A f \in Events \ {e} : op'[f] = op[f]
      BY <1>1, <3>1, <3>2
    <3>6. /\ budget'[d].reserved = Unreserved(e) /\ budget'[d].spent = budget[d].spent + op[e].reserved
          /\ budget[d].reserved \in Nat /\ budget[d].spent \in Nat
          /\ \A d1 \in (1..Days) \ {d} : budget'[d1] = budget[d1]
      BY <1>1, <3>2, <3>3
    <3>7. Unreserved(e) = (IF budget[d].reserved >= op[e].reserved THEN budget[d].reserved - op[e].reserved ELSE 0)
      BY DEF Unreserved
    <3>8. budget[d].reserved + budget[d].spent <= DailyBudget
      BY <3>3 DEF BudgetAccounts
    <3> HIDE DEF d
    <3>9. op[e].day = d
      BY DEF d
    <3>10. op[e].reserved <= budget[d].reserved =>
           /\ budget'[d].reserved = budget[d].reserved - op[e].reserved + op'[e].reserved
           /\ budget'[d].spent = budget[d].spent - op[e].charged + op'[e].charged
           /\ budget'[d].reserved + budget'[d].spent <= DailyBudget
      BY <1>1, <3>3, <3>4, <3>6, <3>7, <3>8
    <3> QED
      BY <3>1, <3>3, <3>4, <3>5, <3>6, <3>9, <3>10, OneRowMoves
  <2> QED
    BY <2>1, <2>2
<1>5. ASSUME NEW w \in Workers, AcquireOperation(w) PROVE BudgetAccounts'
  <2> DEFINE e == Event(w)
  <2>1. CASE UNCHANGED dbVars
    BY <1>2, <2>1 DEF dbVars
  <2>2. ASSUME e \notin Rows, WithinBudget(e),
               budget' = [budget EXCEPT ![today].reserved = @ + Fee[e]],
               op' = [op EXCEPT ![e] = [NoRow EXCEPT !.state = "READY", !.body = job[w].req.body,
                                                     !.key = job[w].req.key, !.reserved = Fee[e],
                                                     !.day = today]]
        PROVE  BudgetAccounts'
    <3>1. e \in Events
      BY <1>5, RunningEvent DEF AcquireOperation, At
    <3> HIDE DEF e
    <3>2. op[e].reserved = 0 /\ op[e].charged = 0
      BY <2>2, <3>1 DEF ViewInv, Rows, NoRow
    <3>3. op'[e].day = today /\ op'[e].reserved = Fee[e] /\ op'[e].charged = 0
      BY <1>1, <2>2, <3>1 DEF NoRow
    <3>4. \A f \in Events \ {e} : op'[f] = op[f]
      BY <1>1, <2>2, <3>1
    <3>5. /\ budget'[today].reserved = budget[today].reserved + Fee[e]
          /\ budget'[today].spent = budget[today].spent
          /\ budget[today].reserved \in Nat /\ budget[today].spent \in Nat
          /\ \A d \in (1..Days) \ {today} : budget'[d] = budget[d]
      BY <1>1, <2>2, <3>1
    <3>6. Fee[e] \in Nat /\ budget[today].reserved + budget[today].spent + Fee[e] <= DailyBudget
      BY <1>1, <2>2, <3>1 DEF WithinBudget
    <3>7. /\ budget'[today].reserved = budget[today].reserved - op[e].reserved + op'[e].reserved
          /\ budget'[today].spent = budget[today].spent - op[e].charged + op'[e].charged
          /\ budget'[today].reserved + budget'[today].spent <= DailyBudget
      BY <3>2, <3>3, <3>5, <3>6
    <3> QED
      BY <1>1, <3>1, <3>2, <3>3, <3>4, <3>5, <3>7, OneRowMoves
  <2> QED
    BY <1>5, <2>1, <2>2 DEF AcquireOperation
<1> QED
  BY <1>2, <1>3, <1>4, <1>5, MoneyStays DEF MovesMoney

\* The row of a day adds up, and never passes the budget, in whatever order the
\* instances reserve, charge and release (#acquireOperation, #recordMinedCost,
\* #markExternallyAnchored). Event hashes have 32 bytes: there are finitely many.
THEOREM BudgetsAddUp ==
  ASSUME IsFiniteSet(Events)
  PROVE  Spec => []BudgetAccounts
<1>1. Init => ViewInv
  BY DEF Init, ViewInv, At, Idle
<1>2. RelayInv /\ ViewInv /\ [Next]_vars => (RelayInv /\ ViewInv)'
  BY RelayInvInductive, ViewInvInductive
<1>3. Init => BudgetAccounts
  <2> SUFFICES ASSUME Init, NEW d \in 1..Days
               PROVE  /\ budget[d].reserved = Total(ReservedOn(d), Events)
                      /\ budget[d].spent = Total(ChargedOn(d), Events)
                      /\ budget[d].reserved + budget[d].spent <= DailyBudget
    BY DEF BudgetAccounts
  <2>1. budget[d].reserved = 0 /\ budget[d].spent = 0 /\ DailyBudget \in Nat
    BY RelayAssumption DEF Init
  <2>2. \A e \in Events : ReservedOn(d)[e] = 0 /\ ChargedOn(d)[e] = 0
    BY DEF Init, ReservedOn, ChargedOn, NoRow
  <2>3. Total(ReservedOn(d), Events) = 0 /\ Total(ChargedOn(d), Events) = 0
    BY <2>2, TotalZero
  <2> QED
    BY <2>1, <2>3
<1>4. RelayInv /\ RelayInv' /\ ViewInv /\ BudgetAccounts /\ [Next]_vars => BudgetAccounts'
  BY BudgetInductive
<1> QED
  BY RelayInvInductive, <1>1, <1>2, <1>3, <1>4, PTL DEF Spec
=============================================================================
