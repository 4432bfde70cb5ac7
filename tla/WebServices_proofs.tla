------------------------- MODULE WebServices_proofs -------------------------
(***************************************************************************)
(* Theorems about the two services of the web application that keep rows   *)
(* of their own: DemoFiling, for any filings, events, requests and bound   *)
(* of the clock, and BlobStore, for any uploads, locators and requests.    *)
(* They share nothing: the requests of BlobStore are the instance Blobs,   *)
(* with workers of their own, and its table is that of BlobTable.          *)
(***************************************************************************)
EXTENDS DemoFiling, BlobTable, TLAPS

CONSTANT Uploaders
VARIABLE uploading

Blobs == INSTANCE BlobStore WITH job <- uploading, Workers <- Uploaders

-----------------------------------------------------------------------------
(* The demo authority *)

Filing == {NoFiling, GoneFiling} \cup UndecidedFiling \cup DecidedFiling
Job == {Idle} \cup WaitingJob \cup BindingJob

-----------------------------------------------------------------------------
(* What a step may do to each variable *)

\* A filing's row is one of the four kinds, told apart by its status.
LEMMA FilingKinds ==
  ASSUME TypeOK, NEW t \in Tokens
  PROVE  /\ filing[t].status = "NONE" => filing[t] = NoFiling
         /\ filing[t].status = "GONE" => filing[t] = GoneFiling
         /\ filing[t].status \in {"QUEUED", "PENDING"} => filing[t] \in UndecidedFiling
         /\ filing[t].status \in Outcomes => filing[t] \in DecidedFiling
         /\ filing[t] = NoFiling \/ filing[t] = GoneFiling \/ Exists(t)
<1>1. filing[t] \in Filing
  BY DEF TypeOK, Filing
<1> QED BY <1>1 DEF Filing, NoFiling, GoneFiling, UndecidedFiling, DecidedFiling, Outcomes, Exists

\* The positions of a request.
LEMMA JobKinds ==
  ASSUME TypeOK, NEW w \in Workers
  PROVE  /\ At(w, "process") => job[w] \in WaitingJob
         /\ At(w, "bind") => job[w] \in BindingJob
         /\ ~At(w, "idle") => job[w].token \in Tokens
<1>1. job[w] \in Job
  BY DEF TypeOK, Job
<1> QED BY <1>1 DEF Job, Idle, WaitingJob, BindingJob, At

\* What becomes of one filing in a step.
FilingStep(t) ==
  \/ filing'[t] = filing[t]
  \/ filing[t] = NoFiling /\ filing'[t] \in UndecidedFiling
  \/ Exists(t) /\ filing'[t] = GoneFiling
  \/ /\ filing[t].status = "QUEUED" /\ filing[t] \in UndecidedFiling
     /\ \/ filing'[t] \in UndecidedFiling
        \/ filing'[t] \in DecidedFiling /\ filing'[t].ack.outcome = filing'[t].status

\* The transaction of getSubmission changes only a queued filing.
LEMMA ProcessFiling ==
  ASSUME TypeOK, NEW t \in Tokens, NEW now \in 0..MaxTime, Process(t, now)
  PROVE  /\ filing' = [u \in Tokens |-> filing'[u]]
         /\ \A u \in Tokens : FilingStep(u) /\ ~(Exists(u) /\ filing'[u] = GoneFiling)
<1>1. CASE UNCHANGED filing
  BY <1>1 DEF FilingStep, TypeOK, Exists, GoneFiling
<1>2. CASE Exists(t) /\ Due(t, now) /\ ~UNCHANGED filing
  <2>1. PICK ref \in References : filing' = [filing EXCEPT ![t] = Processed(t, now, ref)]
    BY <1>2 DEF Process
  <2>2. filing[t] \in UndecidedFiling /\ filing[t].status = "QUEUED"
    BY <1>2, FilingKinds DEF Due
  <2>3. /\ filing' = [u \in Tokens |-> filing'[u]]
        /\ \A u \in Tokens \ {t} : filing'[u] = filing[u]
        /\ filing'[t] = Processed(t, now, ref)
    BY <2>1 DEF TypeOK
  <2>4. /\ filing'[t] # GoneFiling
        /\ \/ filing'[t] \in UndecidedFiling
           \/ filing'[t] \in DecidedFiling /\ filing'[t].ack.outcome = filing'[t].status
    <3>1. CASE filing[t].scenario = "PENDING"
      <4>1. filing'[t] = [filing[t] EXCEPT !.status = "PENDING"]
        BY <2>3, <3>1 DEF Processed
      <4> QED BY <4>1, <2>2 DEF UndecidedFiling, GoneFiling
    <3>2. CASE filing[t].scenario # "PENDING"
      <4>1. filing[t].scenario \in Outcomes /\ filing[t].scenario \in Scenarios /\ filing[t].ready \in Nat
        BY <2>2, <3>2 DEF UndecidedFiling, Scenarios
      <4>2. filing'[t] = [filing[t] EXCEPT !.status = filing[t].scenario,
                            !.ack = [outcome |-> filing[t].scenario, reference |-> ref, time |-> now]]
        BY <2>3, <3>2 DEF Processed
      <4>3. filing'[t] = [status |-> filing[t].scenario, scenario |-> filing[t].scenario,
                          ready |-> filing[t].ready,
                          ack |-> [outcome |-> filing[t].scenario, reference |-> ref, time |-> now]]
        BY <4>2, <2>2 DEF UndecidedFiling
      <4>4. filing'[t].ack \in Ack
        BY <4>1, <4>3 DEF Ack
      <4> QED BY <4>1, <4>3, <4>4 DEF DecidedFiling, GoneFiling, Outcomes
    <3> QED BY <3>1, <3>2
  <2>5. \A u \in Tokens : FilingStep(u)
    BY <2>2, <2>3, <2>4 DEF FilingStep
  <2>6. \A u \in Tokens : ~(Exists(u) /\ filing'[u] = GoneFiling)
    BY <2>3, <2>4 DEF Exists, GoneFiling
  <2> QED BY <2>3, <2>5, <2>6
<1> QED BY <1>1, <1>2 DEF Process

LEMMA FilingSteps ==
  ASSUME TypeOK, [Next]_vars
  PROVE  filing' = [t \in Tokens |-> filing'[t]] /\ \A t \in Tokens : FilingStep(t)
<1>1. CASE UNCHANGED filing
  BY <1>1 DEF FilingStep, TypeOK
<1>2. ASSUME NEW t \in Tokens, NEW s \in Scenarios, CreateSubmission(t, s)
      PROVE filing' = [u \in Tokens |-> filing'[u]] /\ \A u \in Tokens : FilingStep(u)
  <2>1. filing'[t] = [status |-> "QUEUED", scenario |-> s, ready |-> clock + Delay, ack |-> NoAck]
    BY <1>2 DEF CreateSubmission, TypeOK
  <2>2. filing'[t] \in UndecidedFiling
    BY <2>1, FilingAssumption DEF UndecidedFiling, TypeOK
  <2> QED BY <1>2, <2>2 DEF CreateSubmission, FilingStep, TypeOK
<1>3. ASSUME NEW w \in Workers, GetSubmission(w) \/ CheckCore(w)
      PROVE filing' = [u \in Tokens |-> filing'[u]] /\ \A u \in Tokens : FilingStep(u)
  <2>1. job[w] \in WaitingJob /\ Process(job[w].token, job[w].now)
    BY <1>3, JobKinds DEF GetSubmission, CheckCore
  <2>2. job[w].token \in Tokens /\ job[w].now \in 0..MaxTime
    BY <2>1 DEF WaitingJob
  <2> QED BY <2>1, <2>2, ProcessFiling
<1>4. CASE ResetForTests
  BY <1>4 DEF ResetForTests, FilingStep
<1>5. \/ UNCHANGED filing \/ ResetForTests
      \/ \E t \in Tokens, s \in Scenarios : CreateSubmission(t, s)
      \/ \E w \in Workers : GetSubmission(w) \/ CheckCore(w)
  BY DEF Next, Work, vars, ReadSubmission, Start, BindAnswered, BindUnanswered, Fail, Tick
<1> QED BY <1>1, <1>2, <1>3, <1>4, <1>5

-----------------------------------------------------------------------------
(* Types *)

LEMMA TypeInit == Init => TypeOK
  BY FilingAssumption DEF Init, TypeOK, NoFiling, Outcomes, NoEvent, Idle

LEMMA FilingType ==
  ASSUME TypeOK, [Next]_vars
  PROVE  /\ filing' \in [Tokens -> Filing]
         /\ \A t \in Tokens : filing'[t].status \in Outcomes =>
                                filing'[t].ack.outcome = filing'[t].status
<1> SUFFICES ASSUME NEW t \in Tokens
             PROVE  /\ filing'[t] \in Filing
                    /\ filing'[t].status \in Outcomes => filing'[t].ack.outcome = filing'[t].status
  BY FilingSteps
<1>1. FilingStep(t)
  BY FilingSteps
<1> QED BY <1>1 DEF FilingStep, Filing, TypeOK, UndecidedFiling, GoneFiling, Outcomes

\* A job that binds carries a core that some client proposed.
LEMMA JobType == ASSUME TypeOK, [Next]_vars PROVE job' \in [Workers -> Job]
<1>1. ASSUME NEW w \in Workers, NEW t \in Tokens, NEW k \in {"get", "sign"}, Start(w, t, k)
      PROVE job' \in [Workers -> Job]
  BY <1>1 DEF Start, TypeOK, Job, WaitingJob
<1>2. ASSUME NEW w \in Workers, CheckCore(w) PROVE job' \in [Workers -> Job]
  <2>1. job[w].token \in Tokens
    BY <1>2, JobKinds DEF CheckCore, At
  <2>2. CASE Return(w)
    BY <2>2 DEF Return, TypeOK, Job
  <2>3. ASSUME NEW core \in Proposals,
               job' = [job EXCEPT ![w] = [pc |-> "bind", token |-> job[w].token, core |-> core]]
        PROVE job' \in [Workers -> Job]
    BY <2>1, <2>3 DEF TypeOK, Job, BindingJob
  <2> QED BY <1>2, <2>2, <2>3 DEF CheckCore
<1>3. ASSUME NEW w \in Workers, Return(w) PROVE job' \in [Workers -> Job]
  BY <1>3 DEF Return, TypeOK, Job
<1>4. CASE UNCHANGED job
  BY <1>4 DEF TypeOK, Job
<1> QED BY <1>1, <1>2, <1>3, <1>4 DEF Next, Work, vars, CreateSubmission, ReadSubmission,
     GetSubmission, BindAnswered, BindUnanswered, Fail, Tick, ResetForTests

\* What is shown is the acknowledgment of a decided filing.
LEMMA ShownStep ==
  ASSUME TypeOK, [Next]_vars
  PROVE  \A s \in shown' \ shown :
           /\ s.token \in Tokens /\ s = [token |-> s.token, ack |-> filing'[s.token].ack]
           /\ filing'[s.token] \in DecidedFiling
<1> SUFFICES ASSUME NEW s \in shown' \ shown
             PROVE  /\ s.token \in Tokens /\ s = [token |-> s.token, ack |-> filing'[s.token].ack]
                    /\ filing'[s.token] \in DecidedFiling
  OBVIOUS
<1>1. ASSUME NEW t \in Tokens, Show(t, filing'[t].ack), filing'[t] \in UndecidedFiling \cup DecidedFiling
      PROVE  /\ s.token \in Tokens /\ s = [token |-> s.token, ack |-> filing'[s.token].ack]
             /\ filing'[s.token] \in DecidedFiling
  BY <1>1 DEF Show, UndecidedFiling
<1>2. ASSUME NEW t \in Tokens, ReadSubmission(t)
      PROVE Show(t, filing'[t].ack) /\ filing'[t] \in UndecidedFiling \cup DecidedFiling
  BY <1>2, FilingKinds, FilingType DEF ReadSubmission, Filing, Exists, NoFiling, GoneFiling
<1>3. ASSUME NEW w \in Workers, GetSubmission(w)
      PROVE \E t \in Tokens :
              Show(t, filing'[t].ack) /\ filing'[t] \in UndecidedFiling \cup DecidedFiling
  <2>1. job[w] \in WaitingJob /\ job[w].token \in Tokens /\ job[w].now \in 0..MaxTime
    BY <1>3, JobKinds DEF GetSubmission, WaitingJob
  <2>2. Exists(job[w].token) /\ Show(job[w].token, filing'[job[w].token].ack)
    BY <1>3 DEF GetSubmission
  <2>3. FilingStep(job[w].token)
        /\ ~(Exists(job[w].token) /\ filing'[job[w].token] = GoneFiling)
    BY <1>3, <2>1, ProcessFiling DEF GetSubmission
  <2>4. filing'[job[w].token] \in UndecidedFiling \cup DecidedFiling
    <3>1. filing[job[w].token] \in UndecidedFiling \cup DecidedFiling
      BY <2>1, <2>2 DEF TypeOK, NoFiling, GoneFiling, Exists
    <3>2. filing[job[w].token] # NoFiling
      BY <2>2 DEF Exists, NoFiling
    <3> QED BY <2>2, <2>3, <3>1, <3>2 DEF FilingStep
  <2> QED BY <2>1, <2>2, <2>4
<1>4. (\E t \in Tokens : ReadSubmission(t)) \/ (\E w \in Workers : GetSubmission(w))
  BY DEF Next, Work, vars, CreateSubmission, Start, CheckCore, BindAnswered, BindUnanswered,
     Fail, Tick, ResetForTests
<1> QED BY <1>1, <1>2, <1>3, <1>4

\* What the signing transaction does: nothing, or it returns a stored event, or
\* it signs a free receipt's event for a filing that has none.
SignStep ==
  \/ UNCHANGED <<signature, given>>
  \/ signature' = [t \in Tokens |-> NoEvent] /\ given' = {} /\ ResetForTests
  \/ \E w \in Workers :
       LET t == job[w].token
           core == job[w].core IN
       /\ At(w, "bind") /\ Exists(t) /\ UNCHANGED filing
       /\ \/ /\ signature[t] = core /\ UNCHANGED signature
             /\ given' = given \cup {[token |-> t, core |-> core]}
          \/ /\ signature[t] = NoEvent /\ FreeReceipt(t, core)
             /\ signature' = [signature EXCEPT ![t] = core]
             /\ given' \in {given, given \cup {[token |-> t, core |-> core]}}

LEMMA SignSteps == ASSUME [Next]_vars PROVE SignStep
<1>1. ASSUME NEW w \in Workers, BindAnswered(w) PROVE SignStep
  BY <1>1 DEF BindAnswered, SignStep
<1>2. ASSUME NEW w \in Workers, BindUnanswered(w) PROVE SignStep
  BY <1>2 DEF BindUnanswered, SignStep
<1>3. CASE ResetForTests
  BY <1>3 DEF ResetForTests, SignStep
<1>4. CASE UNCHANGED <<signature, given>>
  BY <1>4 DEF SignStep
<1> QED BY <1>1, <1>2, <1>3, <1>4 DEF Next, Work, vars, CreateSubmission, ReadSubmission, Start,
     GetSubmission, CheckCore, Fail, Tick

LEMMA TypeNext == ASSUME TypeOK, [Next]_vars PROVE TypeOK'
<1>1. signature' \in [Tokens -> {NoEvent} \cup Proposals] /\ given' \subseteq [token : Tokens, core : Proposals]
  <2>1. ASSUME NEW w \in Workers, At(w, "bind")
        PROVE job[w].token \in Tokens /\ job[w].core \in Proposals
    BY <2>1, JobKinds DEF BindingJob
  <2> QED BY <2>1, SignSteps DEF SignStep, TypeOK
<1>2. clock' \in 0..MaxTime
  BY FilingAssumption DEF TypeOK, Next, Work, vars, CreateSubmission, ReadSubmission, Start,
     GetSubmission, CheckCore, BindAnswered, BindUnanswered, Fail, Tick, ResetForTests
<1>3. shown' \subseteq [token : Tokens, ack : Ack]
  BY ShownStep DEF TypeOK, DecidedFiling
<1> QED BY <1>1, <1>2, <1>3, FilingType, JobType DEF TypeOK, Filing, Job

-----------------------------------------------------------------------------
(* Acknowledgments and signatures *)

\* A signature repeats the acknowledgment of a decided filing.
SignaturesTrue ==
  \A t \in Tokens : signature[t] # NoEvent =>
    filing[t].status \in Outcomes /\ signature[t].ack = filing[t].ack

\* No receipt has two signatures.
ReceiptsSignedOnce ==
  \A t, u \in Tokens :
    signature[t] # NoEvent /\ signature[u] # NoEvent
      /\ Receipt[signature[t].event] = Receipt[signature[u].event] => t = u

\* A request that will sign still agrees with its filing, unless a reset took it.
ChecksHold ==
  \A w \in Workers :
    /\ ~At(w, "idle") => filing[job[w].token] # NoFiling
    /\ At(w, "bind") /\ Exists(job[w].token) =>
         /\ filing[job[w].token].status \in Outcomes
         /\ job[w].core.ack = filing[job[w].token].ack

GivenStored == \A g \in given : signature[g.token] = g.core
ShownStored ==
  \A s \in shown : filing[s.token].status \in Outcomes /\ filing[s.token].ack = s.ack

FilingInv ==
  TypeOK /\ SignaturesTrue /\ ReceiptsSignedOnce /\ ChecksHold /\ GivenStored /\ ShownStored

\* A decided filing changes only by a reset.
LEMMA DecidedStays ==
  ASSUME TypeOK, [Next]_vars, NEW t \in Tokens, filing[t].status \in Outcomes
  PROVE  filing'[t] = filing[t] \/ (ResetForTests /\ filing'[t] = GoneFiling)
<1>1. FilingStep(t)
  BY FilingSteps
<1>2. CASE ResetForTests
  BY <1>2 DEF ResetForTests, Exists, Outcomes
<1>3. CASE ~ResetForTests
  <2>1. ~(Exists(t) /\ filing'[t] = GoneFiling)
    <3>1. ASSUME NEW w \in Workers, GetSubmission(w) \/ CheckCore(w)
          PROVE ~(Exists(t) /\ filing'[t] = GoneFiling)
      <4>1. job[w].token \in Tokens /\ job[w].now \in 0..MaxTime
        BY <3>1, JobKinds DEF GetSubmission, CheckCore, WaitingJob
      <4> QED BY <3>1, <4>1, ProcessFiling DEF GetSubmission, CheckCore
    <3>2. ASSUME NEW u \in Tokens, NEW s \in Scenarios, CreateSubmission(u, s)
          PROVE filing'[t] = filing[t]
      BY <3>2 DEF CreateSubmission, TypeOK, NoFiling, Outcomes
    <3>3. filing[t] # GoneFiling
      BY DEF GoneFiling, Outcomes
    <3> QED BY <1>3, <3>1, <3>2, <3>3 DEF Next, Work, vars, ReadSubmission, Start, BindAnswered,
         BindUnanswered, Fail, Tick
  <2> QED BY <1>1, <2>1 DEF FilingStep, Exists, Outcomes, NoFiling
<1> QED BY <1>2, <1>3

LEMMA SignaturesNext ==
  ASSUME FilingInv, [Next]_vars
  PROVE  SignaturesTrue' /\ ReceiptsSignedOnce' /\ GivenStored'
<1> USE DEF FilingInv
<1>1. CASE signature' = [t \in Tokens |-> NoEvent] /\ given' = {}
  BY <1>1 DEF SignaturesTrue, ReceiptsSignedOnce, GivenStored
<1>2. CASE UNCHANGED <<signature, given>> /\ ~ResetForTests
  <2>1. SignaturesTrue'
    BY <1>2, DecidedStays DEF SignaturesTrue
  <2> QED BY <1>2, <2>1 DEF ReceiptsSignedOnce, GivenStored
<1>3. ASSUME NEW w \in Workers, NEW t \in Tokens, NEW core \in Proposals,
             t = job[w].token, core = job[w].core, At(w, "bind"), Exists(t), UNCHANGED filing,
             \/ signature[t] = core /\ UNCHANGED signature
             \/ signature[t] = NoEvent /\ FreeReceipt(t, core)
                /\ signature' = [signature EXCEPT ![t] = core],
             given' \in {given, given \cup {[token |-> t, core |-> core]}}
      PROVE SignaturesTrue' /\ ReceiptsSignedOnce' /\ GivenStored'
  <2>1. filing[t].status \in Outcomes /\ core.ack = filing[t].ack
    BY <1>3 DEF ChecksHold
  <2>2. \A u \in Tokens : signature'[u] = IF u = t THEN core ELSE signature[u]
    BY <1>3 DEF TypeOK
  <2>3. SignaturesTrue'
    BY <1>3, <2>1, <2>2 DEF SignaturesTrue
  <2>4. ReceiptsSignedOnce'
    BY <1>3, <2>2 DEF ReceiptsSignedOnce, FreeReceipt, SignedTokens
  <2>5. GivenStored'
    <3>1. \A g \in given : g.token \in Tokens /\ g.core \in Proposals /\ signature[g.token] = g.core
      BY DEF GivenStored, TypeOK
    <3>2. NoEvent \notin Proposals
      BY DEF NoEvent, Proposals
    <3>3. \A g \in given : signature'[g.token] = g.core
      BY <1>3, <2>2, <3>1, <3>2
    <3> QED BY <1>3, <2>2, <3>3 DEF GivenStored
  <2> QED BY <2>3, <2>4, <2>5
<1>4. ASSUME NEW w \in Workers, At(w, "bind") PROVE job[w].token \in Tokens /\ job[w].core \in Proposals
  BY <1>4, JobKinds DEF BindingJob
<1>5. ResetForTests => signature' = [t \in Tokens |-> NoEvent] /\ given' = {}
  BY DEF ResetForTests
<1> QED BY <1>1, <1>2, <1>3, <1>4, <1>5, SignSteps DEF SignStep

LEMMA ChecksNext == ASSUME FilingInv, [Next]_vars PROVE ChecksHold'
<1> USE DEF FilingInv
<1> SUFFICES ASSUME NEW w \in Workers
             PROVE  /\ ~At(w, "idle")' => filing'[job'[w].token] # NoFiling
                    /\ At(w, "bind")' /\ filing'[job'[w].token].status \notin {"NONE", "GONE"} =>
                         /\ filing'[job'[w].token].status \in Outcomes
                         /\ job'[w].core.ack = filing'[job'[w].token].ack
  BY DEF ChecksHold, Exists
<1>0. \A t \in Tokens : filing[t] # NoFiling => filing'[t] # NoFiling
  BY FilingSteps DEF FilingStep, NoFiling, GoneFiling, UndecidedFiling, DecidedFiling, Outcomes
<1>1. CASE job'[w] = Idle
  BY <1>1 DEF At, Idle
<1>2. CASE job'[w] = job[w]
  <2>1. CASE At(w, "idle")
    BY <1>2, <2>1 DEF At
  <2>2. CASE ~At(w, "idle")
    <3>1. job[w].token \in Tokens /\ filing[job[w].token] # NoFiling
      BY <2>2, JobKinds DEF ChecksHold
    <3>2. filing'[job[w].token] # NoFiling
      BY <3>1, <1>0
    <3>3. ASSUME At(w, "bind"), filing'[job[w].token].status \notin {"NONE", "GONE"}
          PROVE /\ filing'[job[w].token].status \in Outcomes
                /\ job[w].core.ack = filing'[job[w].token].ack
      <4>1. Exists(job[w].token)
        BY <3>1, <3>3, FilingSteps, FilingKinds DEF FilingStep, NoFiling, GoneFiling, Exists
      <4>2. /\ filing[job[w].token].status \in Outcomes
            /\ job[w].core.ack = filing[job[w].token].ack
        BY <3>3, <4>1 DEF ChecksHold
      <4> QED BY <3>1, <3>3, <4>2, DecidedStays DEF GoneFiling
    <3> QED BY <1>2, <3>2, <3>3 DEF At
  <2> QED BY <2>1, <2>2
<1>3. ASSUME NEW t \in Tokens, NEW k \in {"get", "sign"}, Start(w, t, k)
      PROVE job'[w].pc = "process" /\ job'[w].token = t /\ filing'[t] # NoFiling
  BY <1>3 DEF Start, TypeOK
<1>4. ASSUME CheckCore(w)
      PROVE \/ job'[w] = Idle
            \/ /\ job'[w].token = job[w].token /\ job[w].token \in Tokens
               /\ filing'[job[w].token].status \in Outcomes
               /\ job'[w].core.ack = filing'[job[w].token].ack
  BY <1>4, JobKinds DEF CheckCore, Return, Matches, TypeOK, At
<1>5. \/ job'[w] = Idle \/ job'[w] = job[w] \/ CheckCore(w)
      \/ \E t \in Tokens, k \in {"get", "sign"} : Start(w, t, k)
  <2>1. ASSUME NEW v \in Workers, Return(v) PROVE job'[w] = Idle \/ job'[w] = job[w]
    BY <2>1 DEF Return, TypeOK
  <2>2. ASSUME NEW v \in Workers, v # w, CheckCore(v) PROVE job'[w] = job[w]
    BY <2>2 DEF CheckCore, Return, TypeOK
  <2>3. ASSUME NEW v \in Workers, v # w, NEW t \in Tokens, NEW k \in {"get", "sign"}, Start(v, t, k)
        PROVE job'[w] = job[w]
    BY <2>3 DEF Start, TypeOK
  <2> QED BY <2>1, <2>2, <2>3 DEF Next, Work, vars, CreateSubmission, ReadSubmission,
       GetSubmission, BindAnswered, BindUnanswered, Fail, Tick, ResetForTests
<1>6. NoFiling.status = "NONE" /\ "NONE" \notin Outcomes
  BY DEF NoFiling, Outcomes
<1> QED BY <1>1, <1>2, <1>3, <1>4, <1>5, <1>6 DEF At

LEMMA ShownNext == ASSUME FilingInv, [Next]_vars PROVE ShownStored'
<1> USE DEF FilingInv
<1>1. CASE ResetForTests
  BY <1>1 DEF ResetForTests, ShownStored
<1>2. CASE ~ResetForTests
  <2> SUFFICES ASSUME NEW s \in shown'
               PROVE filing'[s.token].status \in Outcomes /\ filing'[s.token].ack = s.ack
    BY DEF ShownStored
  <2>1. CASE s \in shown
    BY <1>2, <2>1, DecidedStays DEF ShownStored, TypeOK
  <2>2. CASE s \notin shown
    BY <2>2, ShownStep DEF DecidedFiling
  <2> QED BY <2>1, <2>2
<1> QED BY <1>1, <1>2

LEMMA Invariance == Spec => []FilingInv
<1>1. Init => FilingInv
  BY TypeInit DEF FilingInv, Init, SignaturesTrue, ReceiptsSignedOnce, ChecksHold, GivenStored,
     ShownStored, At, Idle
<1>2. FilingInv /\ [Next]_vars => FilingInv'
  BY TypeNext, SignaturesNext, ChecksNext, ShownNext DEF FilingInv
<1> QED BY <1>1, <1>2, PTL DEF Spec

-----------------------------------------------------------------------------
(* Theorems *)

\* Filings, signatures, requests and answers keep their types, and a filing has
\* an acknowledgment just when it is decided.
THEOREM FilingTypesCorrect == Spec => []TypeOK
  BY Invariance, PTL DEF FilingInv

\* getSubmission and readSubmission show one acknowledgment for each filing.
THEOREM AcknowledgmentsCorrect == Spec => []AcknowledgmentIsFinal
<1>1. FilingInv => AcknowledgmentIsFinal
  BY DEF FilingInv, ShownStored, AcknowledgmentIsFinal, Exists, Outcomes
<1> QED BY <1>1, Invariance, PTL

\* signTerminalAcknowledgment binds filings and receipts one to one, and what it
\* signs is true of the filing.
THEOREM SignaturesCorrect == Spec => [](BindingOneToOne /\ SignedIsTrue)
<1>1. FilingInv => BindingOneToOne /\ SignedIsTrue
  <2> SUFFICES ASSUME FilingInv PROVE BindingOneToOne /\ SignedIsTrue
    OBVIOUS
  <2>1. \A g \in given : /\ g.token \in Tokens /\ g.core \in Proposals
                         /\ g = [token |-> g.token, core |-> g.core]
                         /\ signature[g.token] = g.core /\ signature[g.token] # NoEvent
    BY DEF FilingInv, GivenStored, TypeOK, NoEvent, Proposals
  <2>2. SignedIsTrue
    BY <2>1 DEF FilingInv, SignaturesTrue, SignedIsTrue, Exists, Outcomes
  <2>3. BindingOneToOne
    BY <2>1 DEF FilingInv, ReceiptsSignedOnce, BindingOneToOne
  <2> QED BY <2>2, <2>3
<1> QED BY <1>1, Invariance, PTL

\* What the authority signs repeats the acknowledgment stored for the filing,
\* whatever was processed or expired meanwhile (signTerminalAcknowledgment).
THEOREM SignaturesTruthful == Spec => []SignedIsTrue
  BY SignaturesCorrect, PTL

\* No request changes a pending or decided filing: the trigger never fires.
THEOREM OutcomesImmutable == Spec => OutcomesObeyTrigger
<1>1. ASSUME FilingInv, [Next]_vars
      PROVE \A t \in Tokens : filing[t].status \in Scenarios => filing'[t] \in {filing[t], GoneFiling}
  <2> SUFFICES ASSUME NEW t \in Tokens, filing[t].status \in Scenarios
               PROVE filing'[t] \in {filing[t], GoneFiling}
    OBVIOUS
  <2>1. FilingStep(t)
    BY <1>1, FilingSteps DEF FilingInv
  <2> QED BY <2>1 DEF FilingStep, Scenarios, Outcomes, NoFiling
<1> QED BY <1>1, Invariance, PTL DEF Spec, OutcomesObeyTrigger

-----------------------------------------------------------------------------
(* The encrypted blobs: types *)

LEMMA BlobTypesInit == Blobs!Init => Blobs!TypeOK
  BY DEF Blobs!Init, Blobs!TypeOK, Blobs!Idle

\* Every step of store keeps the types.
LEMMA BlobTypesNext == Blobs!TypeOK /\ [Blobs!Next]_(Blobs!vars) => Blobs!TypeOK'
<1> SUFFICES ASSUME Blobs!TypeOK, [Blobs!Next]_(Blobs!vars) PROVE Blobs!TypeOK'
  OBVIOUS
<1> DEFINE Position == [pc : {"insert", "reread"}, upload : Uploads, attempt : 0..2]
<1>1. ASSUME NEW w \in Uploaders, NEW u \in Uploads, Blobs!Lookup(w, u) PROVE Blobs!TypeOK'
  <2>1. uploading' \in [Uploaders -> {Blobs!Idle} \cup Position]
    BY <1>1 DEF Blobs!TypeOK, Blobs!Lookup, Blobs!Return, Blobs!Goto
  <2>2. answers' \subseteq [upload : Uploads, publicId : PublicIds \cup {Conflict}]
    BY <1>1 DEF Blobs!TypeOK, Blobs!Lookup, Blobs!AnswerFrom, Blobs!Locator, Blobs!Row
  <2> QED BY <1>1, <2>1, <2>2 DEF Blobs!TypeOK, Blobs!Lookup
<1>2. ASSUME NEW w \in Uploaders, NEW p \in PublicIds, Blobs!Insert(w, p) PROVE Blobs!TypeOK'
  <2>1. uploading[w] \in Position
    BY <1>2 DEF Blobs!TypeOK, Blobs!Insert, Blobs!At, Blobs!Idle
  <2>2. uploading' \in [Uploaders -> {Blobs!Idle} \cup Position]
    BY <1>2, <2>1 DEF Blobs!TypeOK, Blobs!Insert, Blobs!Return, Blobs!Goto
  <2> QED BY <1>2, <2>1, <2>2 DEF Blobs!TypeOK, Blobs!Insert, Blobs!Row
<1>3. ASSUME NEW w \in Uploaders, NEW p \in PublicIds, Blobs!InsertUnanswered(w, p) PROVE Blobs!TypeOK'
  <2>1. uploading[w] \in Position
    BY <1>3 DEF Blobs!TypeOK, Blobs!InsertUnanswered, Blobs!At, Blobs!Idle
  <2> QED BY <1>3, <2>1 DEF Blobs!TypeOK, Blobs!InsertUnanswered, Blobs!Row, Blobs!Return
<1>4. ASSUME NEW w \in Uploaders, Blobs!Reread(w) PROVE Blobs!TypeOK'
  <2>1. uploading[w] \in Position
    BY <1>4 DEF Blobs!TypeOK, Blobs!Reread, Blobs!At, Blobs!Idle
  <2>2. uploading' \in [Uploaders -> {Blobs!Idle} \cup Position]
    BY <1>4, <2>1 DEF Blobs!TypeOK, Blobs!Reread, Blobs!Return, Blobs!Goto, Blobs!LastAttempt
  <2>3. answers' \subseteq [upload : Uploads, publicId : PublicIds \cup {Conflict}]
    BY <1>4, <2>1 DEF Blobs!TypeOK, Blobs!Reread, Blobs!AnswerFrom, Blobs!Locator, Blobs!Row
  <2> QED BY <1>4, <2>2, <2>3 DEF Blobs!TypeOK, Blobs!Reread
<1>5. ASSUME NEW w \in Uploaders, Blobs!Fail(w) PROVE Blobs!TypeOK'
  BY <1>5 DEF Blobs!TypeOK, Blobs!Fail, Blobs!Return
<1>6. CASE UNCHANGED Blobs!vars
  BY <1>6 DEF Blobs!TypeOK, Blobs!vars
<1> QED BY <1>1, <1>2, <1>3, <1>4, <1>5, <1>6 DEF Blobs!Next

-----------------------------------------------------------------------------
(* The encrypted blobs: answers *)

\* What the two constraints keep of the table.
UniqueRows ==
  \A r, s \in rows : r.publicId = s.publicId \/ Blobs!Same(r, s.upload) => r = s

\* An answer names a row of the table, or a row that refuses it.
AnswersStored ==
  \A a \in answers :
    IF a.publicId = Conflict THEN \E r \in rows : Blobs!Same(r, a.upload) /\ r.upload # a.upload
    ELSE a \in rows

BlobInv == Blobs!TypeOK /\ UniqueRows /\ AnswersStored

\* An answer taken from a row that was found is the row, or a conflict with it.
LEMMA FoundAnswer ==
  ASSUME Blobs!TypeOK, NEW u \in Uploads, NEW r \in rows, Blobs!Same(r, u)
  PROVE  LET a == [upload |-> u, publicId |-> Blobs!Locator(r, u)] IN
         \/ r.upload = u /\ a = r
         \/ r.upload # u /\ a.publicId = Conflict
BY DEF Blobs!TypeOK, Blobs!Row, Blobs!Locator

\* The upload of a worker past the SELECT.
LEMMA UploadOfJob ==
  ASSUME Blobs!TypeOK, NEW w \in Uploaders, ~Blobs!At(w, "idle")
  PROVE  uploading[w].upload \in Uploads
BY DEF Blobs!TypeOK, Blobs!At, Blobs!Idle

LEMMA FoundKeeps ==
  ASSUME Conflict \notin PublicIds, BlobInv, NEW u \in Uploads, Blobs!AnswerFrom(u), UNCHANGED rows
  PROVE  UniqueRows' /\ AnswersStored'
<1>1. PICK r \in rows : Blobs!Same(r, u)
                        /\ answers' = answers \cup {[upload |-> u, publicId |-> Blobs!Locator(r, u)]}
  BY DEF Blobs!AnswerFrom
<1>2. CASE r.upload = u
  BY <1>1, <1>2, FoundAnswer DEF BlobInv, UniqueRows, AnswersStored, Blobs!Same, Blobs!TypeOK, Blobs!Row
<1>3. CASE r.upload # u
  BY <1>1, <1>3 DEF BlobInv, UniqueRows, AnswersStored, Blobs!Same, Blobs!Locator
<1> QED BY <1>2, <1>3

LEMMA AddedKeeps ==
  ASSUME Conflict \notin PublicIds, BlobInv, NEW u \in Uploads, NEW p \in PublicIds, Blobs!Unique(u, p),
         rows' = rows \cup {[upload |-> u, publicId |-> p]},
         \/ answers' = answers \cup {[upload |-> u, publicId |-> p]}
         \/ answers' = answers
  PROVE  UniqueRows' /\ AnswersStored'
<1>1. UniqueRows'
  BY DEF BlobInv, UniqueRows, Blobs!Unique, Blobs!Same
<1>2. AnswersStored'
  BY DEF BlobInv, AnswersStored, Blobs!Same
<1> QED BY <1>1, <1>2

LEMMA BlobInvNext ==
  ASSUME Conflict \notin PublicIds
  PROVE  BlobInv /\ [Blobs!Next]_(Blobs!vars) => BlobInv'
<1> SUFFICES ASSUME BlobInv, [Blobs!Next]_(Blobs!vars) PROVE UniqueRows' /\ AnswersStored'
  BY BlobTypesNext DEF BlobInv
<1>1. ASSUME NEW w \in Uploaders, NEW u \in Uploads, Blobs!Lookup(w, u)
      PROVE UniqueRows' /\ AnswersStored'
  <2>1. CASE UNCHANGED answers
    BY <1>1, <2>1 DEF Blobs!Lookup, BlobInv, UniqueRows, AnswersStored, Blobs!Same
  <2>2. CASE Blobs!AnswerFrom(u)
    BY <1>1, <2>2, FoundKeeps DEF Blobs!Lookup
  <2> QED BY <1>1, <2>1, <2>2 DEF Blobs!Lookup
<1>2. ASSUME NEW w \in Uploaders, NEW p \in PublicIds, Blobs!Insert(w, p)
      PROVE UniqueRows' /\ AnswersStored'
  <2>1. uploading[w].upload \in Uploads
    BY <1>2, UploadOfJob DEF BlobInv, Blobs!Insert, Blobs!At
  <2>2. CASE Blobs!Unique(uploading[w].upload, p)
    BY <1>2, <2>1, <2>2, AddedKeeps DEF Blobs!Insert
  <2>3. CASE ~Blobs!Unique(uploading[w].upload, p)
    BY <1>2, <2>3 DEF Blobs!Insert, BlobInv, UniqueRows, AnswersStored, Blobs!Same
  <2> QED BY <2>2, <2>3
<1>3. ASSUME NEW w \in Uploaders, NEW p \in PublicIds, Blobs!InsertUnanswered(w, p)
      PROVE UniqueRows' /\ AnswersStored'
  <2>1. uploading[w].upload \in Uploads
    BY <1>3, UploadOfJob DEF BlobInv, Blobs!InsertUnanswered, Blobs!At
  <2> QED BY <1>3, <2>1, AddedKeeps DEF Blobs!InsertUnanswered
<1>4. ASSUME NEW w \in Uploaders, Blobs!Reread(w) PROVE UniqueRows' /\ AnswersStored'
  <2>1. uploading[w].upload \in Uploads
    BY <1>4, UploadOfJob DEF BlobInv, Blobs!Reread, Blobs!At
  <2>2. CASE Blobs!AnswerFrom(uploading[w].upload)
    BY <1>4, <2>1, <2>2, FoundKeeps DEF Blobs!Reread
  <2>3. CASE UNCHANGED answers
    BY <1>4, <2>3 DEF Blobs!Reread, BlobInv, UniqueRows, AnswersStored, Blobs!Same
  <2> QED BY <1>4, <2>2, <2>3 DEF Blobs!Reread
<1>5. CASE UNCHANGED <<rows, answers>>
  BY <1>5 DEF BlobInv, UniqueRows, AnswersStored, Blobs!Same
<1> QED BY <1>1, <1>2, <1>3, <1>4, <1>5 DEF Blobs!Next, Blobs!Fail, Blobs!vars

\* What the invariant says of the answers of store.
LEMMA BlobInvAnswers == BlobInv => Blobs!RetriesAgree /\ Blobs!ConflictsAreReal
<1> SUFFICES ASSUME BlobInv PROVE Blobs!RetriesAgree /\ Blobs!ConflictsAreReal
  OBVIOUS
<1>1. ASSUME NEW a \in answers, a.publicId # Conflict PROVE Blobs!Get(a.publicId) = {a.upload}
  BY <1>1 DEF BlobInv, UniqueRows, AnswersStored, Blobs!Get
<1>2. ASSUME NEW a \in answers, a.publicId # Conflict,
             NEW b \in answers, b.upload.envelopeId = a.upload.envelopeId, b.publicId # Conflict
      PROVE b = a
  BY <1>2 DEF BlobInv, UniqueRows, AnswersStored, Blobs!Same
<1>3. ASSUME NEW a \in answers, a.publicId = Conflict,
             NEW b \in answers, b.upload = a.upload
      PROVE b = a
  <2>1. PICK r \in rows : Blobs!Same(r, a.upload) /\ r.upload # a.upload
    BY <1>3 DEF BlobInv, AnswersStored
  <2>2. b.publicId = Conflict
    BY <1>3, <2>1 DEF BlobInv, AnswersStored, UniqueRows, Blobs!Same
  <2> QED BY <1>3, <2>2 DEF BlobInv, Blobs!TypeOK
<1>4. Blobs!ConflictsAreReal
  BY <1>3 DEF Blobs!ConflictsAreReal, BlobInv, AnswersStored
<1> QED BY <1>1, <1>2, <1>4 DEF Blobs!RetriesAgree

-----------------------------------------------------------------------------
(* The encrypted blobs: theorems *)

LEMMA BlobInvariance == Blobs!Spec => []BlobInv
<1>1. Blobs!Init => BlobInv
  BY BlobTypesInit DEF BlobInv, Blobs!Init, UniqueRows, AnswersStored
<1> QED BY <1>1, BlobInvNext, BlobAssumption, PTL DEF Blobs!Spec

\* The table, the workers and the answers keep their types.
THEOREM BlobTypesCorrect == Blobs!Spec => []Blobs!TypeOK
  BY BlobInvariance, PTL DEF BlobInv

\* Exact retries of store agree on one locator that retrieves the uploaded bytes.
THEOREM RetriesCorrect == Blobs!Spec => []Blobs!RetriesAgree
  BY BlobInvariance, BlobInvAnswers, PTL

\* store refuses an upload only because other bytes are stored, and for good.
THEOREM ConflictsCorrect == Blobs!Spec => []Blobs!ConflictsAreReal
  BY BlobInvariance, BlobInvAnswers, PTL

\* Every statement of store is a step of the atomic map, or changes nothing it shows.
LEMMA StepsOfMap == BlobInv /\ [Blobs!Next]_(Blobs!vars) => [Map!Next]_(Map!vars)
<1> SUFFICES ASSUME BlobInv, [Blobs!Next]_(Blobs!vars) PROVE Map!Next \/ UNCHANGED <<rows, answers>>
  BY DEF Map!vars
<1>1. ASSUME NEW u \in Uploads, Blobs!AnswerFrom(u), UNCHANGED rows PROVE Map!Next
  <2>1. PICK r \in rows : Blobs!Same(r, u)
                          /\ answers' = answers \cup {[upload |-> u, publicId |-> Blobs!Locator(r, u)]}
    BY <1>1 DEF Blobs!AnswerFrom
  <2>2. CASE r.upload = u
    <3>1. Map!Repeat(u)
      BY <1>1, <2>1, <2>2 DEF Map!Repeat, Map!Answer, Blobs!Locator
    <3> QED BY <3>1 DEF Map!Next
  <2>3. CASE r.upload # u
    <3>1. Map!Refuse(u)
      BY <1>1, <2>1, <2>3 DEF Map!Refuse, Map!Answer, Blobs!Locator, Blobs!Same
    <3> QED BY <3>1 DEF Map!Next
  <2> QED BY <2>2, <2>3
<1>2. ASSUME NEW u \in Uploads, NEW p \in PublicIds, Blobs!Unique(u, p),
             rows' = rows \cup {[upload |-> u, publicId |-> p]},
             \/ answers' = answers \cup {[upload |-> u, publicId |-> p]}
             \/ answers' = answers
      PROVE Map!Next
  <2>1. Map!Bind(u, p)
    BY <1>2 DEF Map!Bind, Map!Answer, Blobs!Unique
  <2> QED BY <2>1 DEF Map!Next
<1>3. ASSUME NEW w \in Uploaders, NEW u \in Uploads, Blobs!Lookup(w, u)
      PROVE Map!Next \/ UNCHANGED <<rows, answers>>
  BY <1>3, <1>1 DEF Blobs!Lookup
<1>4. ASSUME NEW w \in Uploaders, NEW p \in PublicIds, Blobs!Insert(w, p)
      PROVE Map!Next \/ UNCHANGED <<rows, answers>>
  <2>1. uploading[w].upload \in Uploads
    BY <1>4, UploadOfJob DEF BlobInv, Blobs!Insert, Blobs!At
  <2> QED BY <1>4, <2>1, <1>2 DEF Blobs!Insert
<1>5. ASSUME NEW w \in Uploaders, NEW p \in PublicIds, Blobs!InsertUnanswered(w, p) PROVE Map!Next
  <2>1. uploading[w].upload \in Uploads
    BY <1>5, UploadOfJob DEF BlobInv, Blobs!InsertUnanswered, Blobs!At
  <2> QED BY <1>5, <2>1, <1>2 DEF Blobs!InsertUnanswered
<1>6. ASSUME NEW w \in Uploaders, Blobs!Reread(w) PROVE Map!Next \/ UNCHANGED <<rows, answers>>
  <2>1. uploading[w].upload \in Uploads
    BY <1>6, UploadOfJob DEF BlobInv, Blobs!Reread, Blobs!At
  <2> QED BY <1>6, <2>1, <1>1 DEF Blobs!Reread
<1> QED BY <1>3, <1>4, <1>5, <1>6 DEF Blobs!Next, Blobs!Fail, Blobs!vars

\* store implements the atomic put-if-absent map that docs/RELAY.md promises.
THEOREM ImplementsMap == Blobs!Spec => AtomicMap
<1>1. Blobs!Init => Map!Init
  BY DEF Blobs!Init, Map!Init
<1> QED BY <1>1, StepsOfMap, BlobInvariance, PTL DEF Blobs!Spec, AtomicMap, Map!Spec
=============================================================================
